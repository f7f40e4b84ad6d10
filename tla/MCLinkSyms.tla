----------------------------- MODULE MCLinkSyms -----------------------------
(* Instances of LinkSyms for TLC.                                           *)
EXTENDS LinkSyms

CONSTANTS main, f, g

Desc(n, kind, rel, seg, value) ==
  [name |-> n, kind |-> kind, rel |-> rel, seg |-> seg,
   entry |-> FALSE, value |-> value]

NoScript == [entry |-> NoName, roots |-> <<>>]

(* A graph of references between modules, with cycles, and two values that  *)
(* tell definitions of f apart.                                             *)
GraphClasses(s) == {0, 1}
GraphDescs(s) ==
  {Desc(main, "exp", "rel", 0, 1)}
    \union {Desc(n, kind, "rel", 0, 0) : n \in {f, g}, kind \in {"exp", "imp"}}
    \union {Desc(f, "exp", "rel", 0, 1)}
NoScripts == {NoScript}

(* Up to four definitions of f, the later ones kept by the script: several  *)
(* rounds, and neighbours on the redefinition list moved by one scan.       *)
RoundDescs == {Desc(f, "exp", "rel", 0, 1)}
RoundScripts ==
  {[entry |-> f, roots |-> <<[kind |-> "keep", match |-> K]>>] :
     K \in {{2}, {3, 4}, {2, 3, 4}}}

(* Segments, wildcard imports, common storage, locals, entry points, the    *)
(* script's ENTRY, KEEP and ASSERT.                                         *)
SegDescs ==
  {Desc(f, "exp", "rel", seg, 4) : seg \in {0, 3}}
    \union {Desc(f, "imp", "rel", seg, value) :
              seg \in {0, AnySeg}, value \in {0, 2}}
    \union {Desc(f, "exp", "abs", 0, 5), Desc(f, "local", "rel", 0, 1)}
    \union {Desc(g, "imp", "rel", 3, 0), [Desc(g, "exp", "rel", 3, 1) EXCEPT !.entry = TRUE],
            Desc(main, "exp", "rel", 0, 0)}
SegScripts ==
  {NoScript,
   [entry |-> f, roots |-> <<>>],
   [entry |-> NoName,
    roots |-> <<[kind |-> "assert", name |-> f],
                [kind |-> "keep", match |-> {1, 2}]>>]}

(* Both kinds of links in one instance. *)
TableScripts == RoundScripts \union SegScripts
TableClasses(s) == IF s \in RoundScripts THEN {0, 1, 2, 3} ELSE {0}
TableDescs(s) == IF s \in RoundScripts THEN RoundDescs ELSE SegDescs
=============================================================================
