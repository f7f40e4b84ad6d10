------------------------------ MODULE ArSymdef ------------------------------
(***************************************************************************)
(* The index of ar01: how update_symdefs makes the contents of __.SYMDEF   *)
(* for a new archive (ar/ar.c).                                            *)
(*                                                                         *)
(* The map is a sequence of records [name, off, size, obj, syms]: off is   *)
(* info.offset, 0 for a file that is being inserted; obj and syms say      *)
(* whether the contents can be read as an object file and which symbols it *)
(* makes available.  The index is a sequence of entries [sym, at], at      *)
(* being the offset of a member.  A length is counted in units: one for    *)
(* the archive's magic string, for a header and for an entry with its      *)
(* string.                                                                 *)
(***************************************************************************)
EXTENDS Naturals, Sequences, FiniteSets, SequencesExt

CONSTANTS
  Symdef,     \* the name __.SYMDEF
  NoName      \* info.name = 0: a cancelled element

Magic == 1    \* SARMAG
HdrSize == 1
TableSize(n) == 2 + n     \* the sizes of entries and strings, and n entries

(* Marks the entries of cancelled members, by an offset of 0, and counts    *)
(* them: the loop visits the cancelled elements in order, and an element    *)
(* that was inserted and cancelled again has offset 0 itself.               *)
MutStaleKept(E, table) == [table |-> table, n |-> 0]
Marked(E, table) ==
  LET upto[k \in 0..Len(E)] ==
        IF k = 0 THEN [table |-> table, n |-> 0]
        ELSE LET old == upto[k - 1]
                 hits == {i \in DOMAIN table :
                            E[k].name = NoName /\ old.table[i].at = E[k].off}
             IN  [table |-> [i \in DOMAIN table |->
                               IF i \in hits THEN [old.table[i] EXCEPT !.at = 0]
                               ELSE old.table[i]],
                  n |-> old.n + Cardinality(hits)]
  IN  upto[Len(E)]

(* make_new_symdefs is called for new members, or for all if there were no  *)
(* entries; read_object_symbols leaves what is not an object file out.      *)
Fresh(e, table) ==
  e.name \notin {NoName, Symdef} /\ (e.off = 0 \/ table = <<>>)
NewSyms(e, table) == IF Fresh(e, table) /\ e.obj THEN e.syms ELSE <<>>

(* insert_in_map does not initialise symdefs, nsymdefs and string_size.     *)
Unset(e, table) == e.off = 0 /\ ~(Fresh(e, table) /\ e.obj)

(* The positions of all the members, given the number of entries.           *)
NewOffsets(E, n) ==
  LET size(k) == IF E[k].name = Symdef /\ \A j \in 1..(k - 1) : E[j].name # Symdef
                 THEN TableSize(n) ELSE E[k].size
      at[k \in 1..(Len(E) + 1)] ==
        IF k = 1 THEN Magic
        ELSE at[k - 1] + (IF E[k - 1].name = NoName THEN 0
                          ELSE HdrSize + size(k - 1))
  IN  at

(* Offsets of surviving entries are replaced member by member, in place.    *)
Moved(E, table, old, at) ==
  LET upto[k \in 0..Len(E)] ==
        IF k = 0 THEN old
        ELSE IF E[k].name = NoName \/ NewSyms(E[k], table) # <<>> THEN upto[k - 1]
        ELSE [i \in DOMAIN old |->
                IF upto[k - 1][i].at = E[k].off
                THEN [upto[k - 1][i] EXCEPT !.at = at[k]] ELSE upto[k - 1][i]]
  IN  upto[Len(E)]

(* update_symdefs: the new index and the size of its member.  An entry      *)
(* marked twice makes the old strings too small, which is fatal.            *)
update_symdefs(E, table) ==
  LET marked == Marked(E, table)
      old == SelectSeq(marked.table, LAMBDA s : s.at # 0)
      added == FlattenSeq([k \in DOMAIN E |-> NewSyms(E[k], table)])
      n == Len(old) + Len(added)
      at == NewOffsets(E, n)
      new == FlattenSeq([k \in DOMAIN E |->
               [i \in DOMAIN NewSyms(E[k], table) |->
                  [sym |-> NewSyms(E[k], table)[i], at |-> at[k]]]])
  IN  [table |-> Moved(E, table, old, at) \o new,
       size |-> TableSize(n),
       fatal |-> marked.n # Len(table) - Len(old)]

(* The offset of each of the members as scan finds them, and the index they *)
(* should have.                                                             *)
Offsets(members) ==
  LET at[k \in 1..(Len(members) + 1)] ==
        IF k = 1 THEN Magic ELSE at[k - 1] + HdrSize + members[k - 1].body.size
  IN  at
IndexOf(members) ==
  FlattenSeq([k \in DOMAIN members |->
    LET m == members[k].body
    IN  [i \in DOMAIN m.syms |-> [sym |-> m.syms[i], at |-> Offsets(members)[k]]]])
=============================================================================
