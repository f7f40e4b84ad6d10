------------------------------ MODULE MCArMap ------------------------------
(* Instances of ArMap for TLC.                                              *)
EXTENDS ArMap

Name(dir, pre, rest) == [dir |-> dir, pre |-> pre, rest |-> rest]
SymdefName == Name("", "__.SYMDEF", "")

aa == Name("", "aa", "")
bb == Name("", "bb", "")
cc == Name("", "cc", "")
p0 == Name("", "p", "")       \* a name of exactly 13 characters
p1 == Name("", "p", "1.o")    \* longer names that begin with them
p2 == Name("", "p", "2.o")
dp1 == Name("d", "p", "1.o")  \* the same file name in a directory

Command(op, postype, posname, newer, files) ==
  [op |-> op, postype |-> postype, posname |-> posname, newer |-> newer,
   index |-> FALSE, files |-> files]
WithIndex(c) == [c EXCEPT !.index = TRUE]

(* Contents: p0 is not an object file and p1 has no symbols; a newer file   *)
(* of aa has one symbol more than the member.                               *)
Object(size, syms) == [size |-> size, obj |-> TRUE, syms |-> syms]
BodyOf(n, d) ==
  CASE n = aa /\ d = 1 -> Object(1, <<"a">>)
    [] n = aa /\ d > 1 -> Object(2, <<"a", "new">>)
    [] n = bb -> Object(1, <<"b">>)
    [] n = cc -> Object(2, <<"c", "d">>)
    [] n.rest # "" -> Object(1, <<>>)
    [] OTHER -> NoBody
Member(n, d) == [name |-> n, date |-> d, body |-> BodyOf(n, d)]
Archive(names, d) == [i \in DOMAIN names |-> Member(names[i], d)]
(* The archive that rs makes of these members.                              *)
IndexedArchive(names, d) ==
  LET ms == Archive(names, d)
      size == TableSize(Len(IndexOf(ms)))
  IN  <<[name |-> SymdefName, date |-> d, body |-> [NoBody EXCEPT !.size = size]]>> \o ms
ArgLists(S) == UNION {[1..n -> S] : n \in 1..2}
Positions(op, newer, posnames, lists) ==
  {Command(op, "default", NoName, newer, fs) : fs \in lists}
    \union {Command(op, pt, pn, newer, fs) :
              pt \in {"after", "before"}, pn \in posnames, fs \in lists}

(* Editing with long names, a file in a directory and __.SYMDEF; archives   *)
(* hold stored names only, and may hold one twice.                          *)
EditFiles == {aa, p0, p1, p2, dp1, SymdefName}
EditCommands ==
  {Command("d", "default", NoName, FALSE, fs) : fs \in ArgLists(EditFiles)}
    \union {Command("q", "default", NoName, FALSE, fs) : fs \in ArgLists(EditFiles)}
    \union Positions("r", FALSE, {aa, p1}, ArgLists(EditFiles))
    \union Positions("r", TRUE, {aa}, ArgLists({aa, p1}))
EditArchives ==
  {Archive(s, 1) : s \in {<<>>, <<aa>>, <<bb, Stored(p1), aa>>, <<aa, p0>>,
                          <<Stored(p1), Stored(p2), bb>>}}
EditPresent == {{Member(n, d) : n \in EditFiles} : d \in {1, 2}}
                 \union {{Member(n, 2) : n \in {aa, bb, cc, p1}}}

(* Moving within archives of up to four members.                            *)
MoveCommands == Positions("m", FALSE, {aa, bb, cc}, ArgLists({aa, bb, cc}))
MoveArchives == {Archive(s, 1) : s \in {<<aa>>, <<aa, bb>>, <<aa, bb, cc>>,
                                        <<aa, bb, cc, p0>>}}

(* Archives with an index, and commands with s: members that are replaced,  *)
(* grow, come twice, are not object files or are put before the index.      *)
IndexFiles == {aa, bb, cc, p0}
IndexCommands ==
  {WithIndex(Command(op, "default", NoName, FALSE, fs)) :
     op \in {"d", "r", "q"}, fs \in ArgLists({aa, cc, p0, SymdefName}) \union {<<aa, cc, aa>>}}
    \union {WithIndex(Command("r", "default", NoName, FALSE, <<>>))}
    \union {WithIndex(Command("m", "default", NoName, FALSE, fs)) : fs \in ArgLists({bb, cc})}
    \union {Command("d", "default", NoName, FALSE, fs) : fs \in ArgLists(IndexFiles)}
    \union {Command("d", "default", NoName, FALSE, <<Name("d", "__.SYMDEF", "")>>)}
    \union Positions("r", FALSE, {SymdefName, bb}, ArgLists(IndexFiles))
    \union Positions("m", FALSE, {SymdefName}, ArgLists({aa, bb, cc}))
IndexArchives ==
  {IndexedArchive(s, 1) : s \in {<<>>, <<aa>>, <<aa, bb, cc>>, <<cc, aa, bb>>,
                                  <<aa, p0, bb>>}}

AllCommands == EditCommands \union MoveCommands \union IndexCommands
AllArchives == EditArchives \union MoveArchives \union IndexArchives
=============================================================================
