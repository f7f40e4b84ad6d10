------------------------------- MODULE ArMap -------------------------------
(***************************************************************************)
(* The member map of ar01: how the operations d, m, r and q edit the       *)
(* linked list of members and write the new archive from it, with the      *)
(* index of symbols if it has one or s asks for it (ar/ar.c).              *)
(*                                                                         *)
(* The list is modelled with its pointers: element 1 is the dummy mapstart *)
(* on the operation's stack, the others are allocated in order, and 0 is   *)
(* the null pointer.  An element's src tells where copy_out_member takes   *)
(* its contents from: src k > 0 is the k-th member of the old archive      *)
(* (info.offset # 0), src 0 is the file of the same name, or the index     *)
(* write_archive makes.  Contents are records [size, obj, syms]: their     *)
(* length, whether they are an object file, and the symbols it makes       *)
(* available.                                                              *)
(***************************************************************************)
EXTENDS ArSymdef

CONSTANTS
  Commands,   \* command lines: [op, postype, posname, newer, index, files]
  Archives,   \* archives found: sequences of [name, date, body]; one that has
              \* an index has it first, and right
  DiskSize,   \* bound: members that fit on the disk, beyond the old archive
  Present     \* the files on disk: sets of [name, date, body]

Mapstart == 1

(***************************************************************************)
(* Names.  A name is its directory, its first 13 characters (pre) and the  *)
(* rest, which is empty, ".o", or longer and ends in ".o".                 *)
(***************************************************************************)

(* header_from_map: the base name, cut to 15 characters, keeping a ".o". *)
Stored(n) ==
  [dir |-> "", pre |-> n.pre, rest |-> IF n.rest = "" THEN "" ELSE ".o"]

(* __.SYMDEF is shorter than 13 characters, so that only this name matches  *)
(* it in the current directory; u sets the operation to r.                  *)
ASSUME SymdefAssumption == Symdef # NoName
ASSUME CommandAssumption ==
  \A c \in Commands :
    /\ c.op \in {"d", "m", "r", "q"} /\ (c.newer => c.op = "r")
    /\ c.postype \in {"default", "after", "before"}
    /\ c.files \in Seq(ToSet(c.files))
    /\ \A n \in ToSet(c.files) :
         n # NoName /\ (n.dir = "" /\ n.pre = Symdef.pre => n = Symdef)
(* Archives hold names that header_from_map made. *)
ASSUME ArchiveAssumption ==
  \A a \in Archives :
    /\ a \in Seq(ToSet(a))
    /\ \A m \in ToSet(a) : m.name # NoName /\ m.name = Stored(m.name) /\ m.date \in Nat
(* A directory has a name once. *)
ASSUME PresentAssumption ==
  \A p \in Present : \A f \in p : f.date \in Nat /\ \A g \in p : f.name = g.name => f = g

VARIABLES
  pc,         \* start, position, edit, index, write, install; done, exit, crash
              \* or hang
  cmd,        \* the command line
  arch,       \* members of the archive file
  exists,     \* whether the archive file exists
  present,    \* files on disk
  next,       \* the list: next[e] for every element
  name, date, src, body,   \* info of every element
  map,        \* what make_map returned
  after,      \* after_mapelt
  argn,       \* next of the files on the command line
  changed,    \* insert_in_map returned 1 for some file
  tail,       \* loop variable of write_archive
  out,        \* members written: [name, src, from, body]
  symdef,     \* symdef_mapelt
  toc,        \* the index written
  stray       \* where else it was written: nowhere, over members, at the end

eltVars == <<next, name, date, src, body>>
envVars == <<cmd, present>>
idxVars == <<symdef, toc, stray>>
vars == <<pc, envVars, arch, exists, eltVars, map, after, argn, changed, tail, out,
          idxVars>>

Elts == DOMAIN next
Arg == cmd.files[argn]

(* The k-th element from e on, or null: following next k times. *)
Nth(e) ==
  LET nth[k \in 0..Len(next)] ==
        IF k = 0 THEN e ELSE IF nth[k - 1] = 0 THEN 0 ELSE next[nth[k - 1]]
  IN  nth
(* The first element from e on that satisfies P, or null. *)
First(e, P(_)) ==
  LET nth == Nth(e)
      hits == {k \in DOMAIN nth : nth[k] # 0 /\ P(nth[k])}
  IN  IF hits = {} THEN 0 ELSE nth[CHOOSE k \in hits : \A j \in hits : k <= j]

(* find_mapelt_noerror: the comparison of an element's name with a file's   *)
(* base name.  An element from the command line keeps its directory.        *)
Matches(t, n) ==
  /\ t # NoName
  /\ t.dir = ""
  /\ t.pre = n.pre
  /\ \/ n.rest = "" \/ t.rest = ""
     \/ t.rest = ".o"
     \/ t.rest = n.rest
find_mapelt(e, n) == First(e, LAMBDA t : Matches(name[t], n))
last_mapelt(e) == First(e, LAMBDA t : next[t] = 0)
prev_mapelt(e, this) == First(e, LAMBDA t : next[t] = this /\ this # 0)

Exists(n) == \E f \in present : f.name = n
File(n) == CHOOSE f \in present : f.name = n
FileDate(n) == File(n).date

NoBody == [size |-> 0, obj |-> FALSE, syms |-> <<>>]

Init ==
  /\ pc = "start"
  /\ cmd \in Commands
  /\ exists \in BOOLEAN
  /\ arch \in IF exists THEN Archives ELSE {<<>>}
  /\ present \in Present
  /\ next = <<0>> /\ name = <<NoName>> /\ date = <<0>> /\ src = <<0>>
  /\ body = <<NoBody>>
  /\ map = 0 /\ after = 0 /\ argn = 1 /\ changed = FALSE
  /\ tail = 0 /\ out = <<>>
  /\ symdef = 0 /\ toc = <<>> /\ stray = "nowhere"

(* symdef_exists: set by scan, which q does not call, unless the command    *)
(* line names __.SYMDEF (ignore_symdef).                                    *)
SymdefExists ==
  /\ cmd.op # "q"
  /\ Symdef \notin {cmd.files[a] : a \in DOMAIN cmd.files}
  /\ \E k \in DOMAIN arch : arch[k].name = Symdef
Indexed == cmd.index \/ SymdefExists

Exit ==
  /\ pc' = "exit"
  /\ UNCHANGED <<envVars, eltVars, map, after, argn, changed, tail, out, idxVars>>

(* make_map, with mapstart put before the result. *)
make_map ==
  LET n == Len(arch)
  IN  /\ next' = [e \in 1..(n + 1) |-> IF e = n + 1 THEN 0 ELSE e + 1]
      /\ name' = [e \in 1..(n + 1) |-> IF e = 1 THEN NoName ELSE arch[e - 1].name]
      /\ date' = [e \in 1..(n + 1) |-> IF e = 1 THEN 0 ELSE arch[e - 1].date]
      /\ src' = [e \in 1..(n + 1) |-> e - 1]
      /\ body' = [e \in 1..(n + 1) |-> IF e = 1 THEN NoBody ELSE arch[e - 1].body]
      /\ map' = IF n = 0 THEN 0 ELSE 2

(* make_map and lock_for_update: d and m need the archive to exist, r and q *)
(* create it; q has no map of the existing members.                         *)
Start ==
  /\ pc = "start"
  /\ \/ /\ ~exists /\ cmd.op \in {"d", "m"}
        /\ Exit
        /\ UNCHANGED <<arch, exists>>
     \/ /\ exists \/ cmd.op \in {"r", "q"}
        /\ exists' = TRUE
        /\ pc' = IF cmd.op \in {"r", "m"} THEN "position" ELSE "edit"
        /\ IF cmd.op = "q"
           THEN after' = Mapstart /\ UNCHANGED <<eltVars, map>>
           ELSE make_map /\ UNCHANGED after
        /\ UNCHANGED <<envVars, arch, argn, changed, tail, out, idxVars>>

(* The position switch of move_members and replace_members. *)
PositionElt ==
  CASE cmd.postype = "default" -> last_mapelt(Mapstart)
    [] cmd.postype = "after"   -> find_mapelt(map, cmd.posname)
    [] cmd.postype = "before"  -> prev_mapelt(Mapstart, find_mapelt(map, cmd.posname))

FindPosition ==
  /\ pc = "position"
  /\ \/ /\ PositionElt = 0
        /\ Exit
        /\ UNCHANGED <<arch, exists>>
     \/ /\ PositionElt # 0
        /\ after' = PositionElt
        /\ pc' = "edit"
        /\ UNCHANGED <<envVars, arch, exists, eltVars, map, argn, changed, tail,
                       out, idxVars>>

Editing == pc = "edit" /\ argn <= Len(cmd.files)

(* delete_from_map *)
DeleteArg ==
  /\ Editing
  /\ cmd.op = "d"
  /\ LET this == find_mapelt(Mapstart, Arg)
     IN  name' = [e \in Elts |-> IF e = this THEN NoName ELSE name[e]]
  /\ argn' = argn + 1
  /\ UNCHANGED <<pc, envVars, arch, exists, next, date, src, body, map, after,
                 changed, tail, out, idxVars>>

MutAfterKept ==
  /\ Editing /\ cmd.op = "m"
  /\ LET this == find_mapelt(Mapstart, Arg)
         n1 == [next EXCEPT ![prev_mapelt(Mapstart, this)] = next[this]]
     IN  next' = IF this = 0 THEN next
                 ELSE [n1 EXCEPT ![this] = n1[after], ![after] = this]
  /\ argn' = argn + 1
  /\ UNCHANGED <<pc, envVars, arch, exists, name, date, src, body, map, after,
                 changed, tail, out, idxVars>>

(* move_in_map: unlink this, then link it after after; the three            *)
(* assignments run in order, so each reads what the one before stored.      *)
MoveArg ==
  /\ Editing
  /\ cmd.op = "m"
  /\ LET this == find_mapelt(Mapstart, Arg)
         prev == prev_mapelt(Mapstart, this)
         n1 == [next EXCEPT ![prev] = next[this]]
         n2 == [n1 EXCEPT ![this] = n1[after]]
         n3 == [n2 EXCEPT ![after] = this]
     IN  \/ /\ this = 0
            /\ UNCHANGED <<next, after>>
         \/ /\ this # 0
            /\ next' = n3
            /\ after' = n3[after]
  /\ argn' = argn + 1
  /\ UNCHANGED <<pc, envVars, arch, exists, name, date, src, body, map, changed,
                 tail, out, idxVars>>

(* insert_in_map: the old element is cancelled, the new one linked after    *)
(* after, or before everything if it is __.SYMDEF.                          *)
Cancelled(old) == [e \in Elts |-> IF e = old THEN NoName ELSE name[e]]

MutTailCut(this) == Append([next EXCEPT ![after] = this], 0)
Linked(this) ==
  LET at == IF Arg = Symdef THEN Mapstart ELSE after
  IN  Append([next EXCEPT ![at] = this], next[at])

MutSameDateToo(old) == old # 0 /\ cmd.newer /\ FileDate(Arg) < date[old]
TooOld(old) == old # 0 /\ cmd.newer /\ FileDate(Arg) <= date[old]

SkipArg ==
  /\ Editing
  /\ cmd.op \in {"r", "q"}
  /\ Exists(Arg) => TooOld(find_mapelt(Mapstart, Arg))
  /\ argn' = argn + 1
  /\ UNCHANGED <<pc, envVars, arch, exists, eltVars, map, after, changed, tail,
                 out, idxVars>>

InsertArg ==
  /\ Editing
  /\ cmd.op \in {"r", "q"}
  /\ Exists(Arg)
  /\ LET old == find_mapelt(Mapstart, Arg)
         this == Len(next) + 1
     IN  /\ ~TooOld(old)
         /\ name' = Append(Cancelled(old), Arg)
         /\ date' = Append(date, FileDate(Arg))
         /\ src' = Append(src, 0)
         /\ body' = Append(body, File(Arg).body)
         /\ \/ /\ after = 0                    \* after->next of a null pointer
               /\ pc' = "crash"
               /\ next' = Append(next, 0)
               /\ UNCHANGED after
            \/ /\ after # 0
               /\ next' = Linked(this)
               /\ after' = Linked(this)[after]
               /\ UNCHANGED pc
  /\ changed' = TRUE
  /\ argn' = argn + 1
  /\ UNCHANGED <<envVars, arch, exists, map, tail, out, idxVars>>

(* The list written: from mapstart on, except that m passes the element     *)
(* that was first when the archive was read.                                *)
MutFromMap == map
WriteFrom == IF cmd.op = "m" THEN map ELSE next[Mapstart]

EndEdit ==
  /\ pc = "edit"
  /\ argn > Len(cmd.files)
  /\ \/ /\ cmd.op = "r" /\ ~changed /\ (~cmd.index \/ SymdefExists)   \* nothing changed
        /\ pc' = "done"
        /\ UNCHANGED tail
     \/ /\ cmd.op # "r" \/ changed \/ (cmd.index /\ ~SymdefExists)
        /\ pc' = IF Indexed THEN "index" ELSE "write"
        /\ tail' = WriteFrom
  /\ UNCHANGED <<envVars, arch, exists, eltVars, map, after, argn, changed, out,
                 idxVars>>

(* The map as update_symdefs sees it: the list from tail on, after the new  *)
(* element write_archive puts before it if there was no index.              *)
Cyclic == Nth(tail)[Len(next)] # 0
Listed ==
  LET nth == Nth(tail)
      n == CHOOSE k \in DOMAIN nth : nth[k] = 0 /\ \A j \in 0..(k - 1) : nth[j] # 0
  IN  [i \in 1..n |-> nth[i - 1]]
Readable(e) == body[e].obj /\ (src[e] = 0 => Exists(name[e]))
Elements ==
  (IF SymdefExists THEN <<>>
   ELSE <<[name |-> Symdef, off |-> Magic, size |-> 0, obj |-> FALSE, syms |-> <<>>]>>)
  \o [i \in DOMAIN Listed |-> LET e == Listed[i]
                              IN  [name |-> name[e],
                                   off |-> IF src[e] = 0 THEN 0 ELSE Offsets(arch)[src[e]],
                                   size |-> body[e].size, obj |-> Readable(e),
                                   syms |-> body[e].syms]]
OldTable == IF SymdefExists THEN IndexOf(arch) ELSE <<>>

(* The start of write_archive: the old index is read or a new element made, *)
(* and update_symdefs called.  Its loops do not end on a map that goes in a *)
(* circle; read_old_symdefs aborts if an argument like dir/__.SYMDEF has    *)
(* cancelled the index; a member whose symbols were never set makes it      *)
(* follow a wild pointer (crash stands for whatever comes of that), unless  *)
(* the memory happened to be zero.                                          *)
OldIndex == find_mapelt(tail, Symdef)
IndexLost == SymdefExists /\ OldIndex = 0
MakeIndex ==
  /\ pc = "index"
  /\ \/ /\ Cyclic
        /\ pc' = "hang"
        /\ UNCHANGED <<eltVars, tail, symdef, toc>>
     \/ /\ ~Cyclic /\ IndexLost
        /\ pc' = "crash"
        /\ UNCHANGED <<eltVars, tail, symdef, toc>>
     \/ /\ ~Cyclic /\ ~IndexLost
        /\ \E i \in DOMAIN Elements : Unset(Elements[i], OldTable)
        /\ pc' = "crash"
        /\ UNCHANGED <<eltVars, tail, symdef, toc>>
     \/ /\ ~Cyclic /\ ~IndexLost
        /\ update_symdefs(Elements, OldTable).fatal
        /\ pc' = "exit"
        /\ UNCHANGED <<eltVars, tail, symdef, toc>>
     \/ /\ ~Cyclic /\ ~IndexLost
        /\ LET new == update_symdefs(Elements, OldTable)
               contents == [NoBody EXCEPT !.size = new.size]
           IN  /\ ~new.fatal
               /\ toc' = new.table
               /\ IF SymdefExists
                  THEN /\ symdef' = OldIndex
                       /\ body' = [body EXCEPT ![OldIndex] = contents]
                       /\ UNCHANGED <<next, name, date, src, tail>>
                  ELSE /\ symdef' = Len(next) + 1
                       /\ body' = Append(body, contents)
                       /\ next' = Append(next, tail)
                       /\ name' = Append(name, Symdef)
                       /\ date' = Append(date, 0)
                       /\ src' = Append(src, 0)
                       /\ tail' = symdef'
        /\ pc' = "write"
  /\ UNCHANGED <<envVars, arch, exists, map, after, argn, changed, out, stray>>

(* write_archive's loop: copy_out_member copies one element, unless it is   *)
(* cancelled or is a file that has gone since insert_in_map's stat; every   *)
(* __.SYMDEF is written by write_symdef_member, if there is an index.       *)
IsIndex(e) == symdef # 0 /\ name[e] = Symdef
Copied(e) ==
  /\ name[e] # NoName
  /\ src[e] = 0 => Exists(name[e]) \/ IsIndex(e)

OutMember(e) == [name |-> Stored(name[e]), src |-> src[e],
                 from |-> IF src[e] = 0 THEN name[e] ELSE NoName,
                 body |-> IF IsIndex(e) THEN body[symdef] ELSE body[e]]

(* A full disk makes mywrite, and so ar01, fail. *)
DiskFull(e) == Copied(e) /\ Len(out) >= Len(arch) + DiskSize

CopyOut ==
  /\ pc = "write"
  /\ \/ /\ tail = 0
        /\ pc' = "install"
        /\ UNCHANGED <<tail, out>>
     \/ /\ tail # 0 /\ ~DiskFull(tail)
        /\ out' = IF Copied(tail) THEN Append(out, OutMember(tail)) ELSE out
        /\ tail' = next[tail]
        /\ UNCHANGED pc
     \/ /\ tail # 0 /\ DiskFull(tail)
        /\ pc' = "exit"
        /\ UNCHANGED <<tail, out>>
  /\ UNCHANGED <<envVars, arch, exists, eltVars, map, after, argn, changed, idxVars>>

(* The end of write_archive.  If members were inserted the index is written *)
(* again, at the offset it had in the old archive, and its date is touched; *)
(* a quick append can only append both.  Then rename and close_archive.     *)
Inserted == \E e \in Elts : src[e] = 0 /\ e \notin {Mapstart, symdef}
OldPlace == IF src[symdef] = 0 THEN Magic ELSE Offsets(arch)[src[symdef]]
Strays ==
  CASE symdef # 0 /\ cmd.op = "q" -> "at the end"
    [] symdef # 0 /\ cmd.op # "q" /\ Inserted
         /\ ~\E i \in DOMAIN out : out[i].name = Symdef /\ Offsets(out)[i] = OldPlace
       -> "over members"
    [] OTHER -> "nowhere"
Install ==
  /\ pc = "install"
  /\ pc' = "done"
  /\ stray' = Strays
  /\ UNCHANGED <<envVars, arch, exists, eltVars, map, after, argn, changed, tail,
                 out, symdef, toc>>

(* Another program removes a file ar01 was asked to insert. *)
Vanish ==
  /\ pc \notin {"done", "exit", "crash", "hang"} /\ cmd.op \in {"r", "q"}
  /\ \E f \in present : /\ \E a \in DOMAIN cmd.files : cmd.files[a] = f.name
                        /\ present' = present \ {f}
  /\ UNCHANGED <<pc, cmd, arch, exists, eltVars, map, after, argn, changed, tail,
                 out, idxVars>>

Finished == pc \in {"done", "exit", "crash", "hang"} /\ UNCHANGED vars

Step ==
  \/ Start \/ FindPosition \/ DeleteArg \/ MoveArg \/ SkipArg \/ InsertArg
  \/ EndEdit \/ MakeIndex \/ CopyOut \/ Install

Next == Step \/ Vanish \/ Finished

Spec == Init /\ [][Next]_vars
-----------------------------------------------------------------------------
(***************************************************************************)
(* Properties.  The old archive's members are known by their index.        *)
(***************************************************************************)
Written == pc = "done" /\ (cmd.op # "r" \/ changed \/ symdef # 0)
FirstMatch(n) ==
  LET hits == {k \in DOMAIN arch : Matches(arch[k].name, n)}
  IN  IF hits = {} THEN 0 ELSE CHOOSE k \in hits : \A j \in hits : k <= j
(* The member the command line asks to put the files after. *)
Place ==
  CASE cmd.postype = "default" -> Len(arch)
    [] cmd.postype = "after"   -> FirstMatch(cmd.posname)
    [] cmd.postype = "before"  -> FirstMatch(cmd.posname) - 1
Sources == {out[i].src : i \in DOMAIN out}
Args == DOMAIN cmd.files

(* Every pointer names an element; and d, r and q keep the map one list     *)
(* from mapstart to null that holds every element, cancelled ones included. *)
TypeOK ==
  /\ pc \in {"start", "position", "edit", "index", "write", "install",
              "done", "exit", "crash", "hang"}
  /\ next \in Seq(0..Len(next))
  /\ {Len(name), Len(date), Len(src), Len(body)} = {Len(next)}
  /\ {map, after, tail} \subseteq 0..Len(next)
  /\ cmd.op # "m" /\ pc \in {"edit", "index", "write", "install", "done"} =>
       LET nth == Nth(Mapstart)
           made == {e \in {symdef} : e # 0 /\ src[e] = 0}
       IN  {nth[k] : k \in DOMAIN nth} = (Elts \ made) \union {0}

(* Deleting or replacing takes out the members the arguments ask for and no *)
(* others: a member is gone only if an argument matches it (and with u, is  *)
(* a newer file), the first match of every argument of d, and of r that was *)
(* inserted, is gone, and the old members keep their order, even when files *)
(* vanish under ar01.                                                       *)
OthersKept ==
  Written /\ cmd.op \in {"d", "r"} =>
    /\ \A k \in DOMAIN arch \ Sources :
         \E a \in Args :
           /\ Matches(arch[k].name, cmd.files[a])
           /\ cmd.newer /\ Exists(cmd.files[a]) => FileDate(cmd.files[a]) > arch[k].date
    /\ \A a \in Args :
         cmd.op = "d" \/ (~cmd.newer /\ Exists(cmd.files[a]))
         => FirstMatch(cmd.files[a]) \notin Sources \ {0}
    /\ \A i, j \in DOMAIN out :
         i < j /\ out[i].src > 0 /\ out[j].src > 0 => out[i].src < out[j].src

(* The files r inserts stand together at the place the command line asks    *)
(* for; each one still on disk is there, unless a later argument names the  *)
(* same member.                                                             *)
FilesPlaced ==
  Written /\ cmd.op = "r" /\ Symdef \notin {cmd.files[a] : a \in Args} =>
    /\ \A i, j \in DOMAIN out :
         out[i].src = 0 /\ out[i].from # Symdef /\ out[j].src > 0
         => (j < i <=> out[j].src <= Place)
    /\ \A a \in Args :
         /\ Exists(cmd.files[a]) /\ ~cmd.newer
         /\ \A b \in Args : b > a => ~Matches(cmd.files[a], cmd.files[b])
         => \E i \in DOMAIN out : out[i].from = cmd.files[a]

(* m is asked to move neither the first member, nor the member to move next *)
(* to, nor a member twice, nor to the front.                                *)
Movable ==
  /\ Place # 0
  /\ \A a \in Args : FirstMatch(cmd.files[a]) \notin {0, 1, Place}
  /\ \A a, b \in Args : a # b => FirstMatch(cmd.files[a]) # FirstMatch(cmd.files[b])
(* Those of the first n arguments that move member k. *)
Movers(n, k) == {a \in Args : a <= n /\ FirstMatch(cmd.files[a]) = k}
(* Whether the first n arguments put member k before member l: the moved    *)
(* ones follow Place in the order of the arguments, the others keep theirs. *)
Before(n, k, l) ==
  \/ Movers(n, k) = {} /\ Movers(n, l) = {} /\ k < l
  \/ Movers(n, k) # {} /\ Movers(n, l) = {} /\ l > Place
  \/ Movers(n, k) = {} /\ Movers(n, l) # {} /\ k <= Place
  \/ \E a \in Movers(n, k), b \in Movers(n, l) : a < b

(* m does what it is asked when it is asked to move neither the first       *)
(* member, nor the member to move next to, nor a member twice, nor to the   *)
(* front: no member is lost, nothing but an index is added, and the members *)
(* moved stand in command line order after the one asked for, between the   *)
(* others in their old order.                                               *)
MoveMiddle ==
  Written /\ cmd.op = "m" /\ Movable =>
    /\ DOMAIN arch \subseteq Sources
    /\ \A i \in DOMAIN out : out[i].src > 0 \/ out[i].from = Symdef
    /\ \A i, j \in DOMAIN out :
         i < j /\ out[i].src > 0 /\ out[j].src > 0
         => Before(Len(cmd.files), out[i].src, out[j].src)

(* update_symdefs replaces the offsets of old entries in place, one member  *)
(* after the other: if a member comes to lie exactly where a member after   *)
(* it has been, its entries are taken for the other's.                      *)
Confused ==
  \E i, j \in DOMAIN out :
    /\ i < j /\ out[i].src > 0 /\ out[j].src > 0
    /\ Offsets(out)[i] = Offsets(arch)[out[j].src]

(* "Once an archive has an index, later changes to the archive keep it up   *)
(* to date" (doc/man/ar01.1): the index written names the symbols of every  *)
(* member of the new archive at the member's offset, and nothing else,      *)
(* after d always, and after r and m unless places coincide, m lost         *)
(* members, a file vanished while the archive was written, the command line *)
(* names __.SYMDEF or the index is no longer first.                         *)
IndexRight ==
  /\ Written /\ symdef # 0 /\ stray = "nowhere"
  /\ \A e \in Elts : src[e] = 0 /\ name[e] # NoName => e = symdef \/ Exists(name[e])
  /\ cmd.op = "d" \/ ~Confused
  /\ cmd.op = "m" => Sources \ {0} = DOMAIN arch
  /\ Symdef \notin {cmd.files[a] : a \in Args}
  => Len(toc) = Len(IndexOf(out)) /\ ToSet(toc) = ToSet(IndexOf(out))

(* doc/man/ar01.1:42, "Move the named members, by default to the end of the *)
(* archive": after m the archive has the members it had before.             *)
MoveKeepsMembers == Written /\ cmd.op = "m" => Sources \ {0} = DOMAIN arch
=============================================================================
