------------------------------ MODULE ArUpdate ------------------------------
(***************************************************************************)
(* How ar01 reads and updates an archive file while other invocations run  *)
(* and may be killed at any moment (ar/ar.c: scan, lock_for_update,        *)
(* write_archive, close_archive, quick_append, extract_members).           *)
(*                                                                         *)
(* An update scans the archive into a map, opens it again for the lock,    *)
(* writes the edited map to the temporary file archive_supersede, and      *)
(* renames that over the archive; a quick append writes in place.  What    *)
(* the editing does to the map is the subject of ArMap; here an operation  *)
(* drops some members and adds others.                                     *)
(*                                                                         *)
(* A file is a sequence of cells, one per write: ARMAG, or a member's      *)
(* header (part 0) or one of its Size(m) data blocks.  data maps inode     *)
(* numbers to contents; names is the directory.                            *)
(***************************************************************************)
EXTENDS Naturals, Sequences

CONSTANTS
  Updaters, Readers,   \* invocations of ar01
  Members,    \* member contents; Mag is not one
  Mag,        \* the magic string ARMAG
  Size(_),    \* data blocks of a member
  Ops,        \* operations: [kind : {"edit", "quick"}, drop, add]
  NoFile,     \* there is no archive
  Bases,      \* what earlier runs may have left: NoFile or an archive's cells
  Builds,     \* whether ar01 is compiled with LOCKS: a subset of BOOLEAN
  Kills,      \* whether updaters may be killed
  Named,      \* whether readers name members (x, p or t with files)
  MaxRuns     \* bound: runs of one updater

NoOp == [kind |-> "none", drop |-> {}, add |-> <<>>]

Cell(m, p) == [mem |-> m, part |-> p]
Magic == Cell(Mag, 0)
Cells == {Magic} \union [mem : Members, part : Nat]

ASSUME MemberAssumption == Mag \notin Members /\ \A m \in Members : Size(m) \in Nat

ASSUME OpAssumption ==
  \A o \in Ops :
    o \in [kind : {"edit", "quick"}, drop : SUBSET Members, add : Seq(Members)]

ASSUME BaseAssumption == \A b \in Bases : b = NoFile \/ b \in Seq(Cells)

ASSUME RunAssumption == MaxRuns \in Nat

VARIABLES
  data,       \* contents of each inode
  names,      \* inodes of "archive" and "temp", 0 if there is no such file
  locks,      \* this build has LOCKS
  held,       \* locks: pairs of an inode and an updater
  overhang,   \* history: a file longer than what its run wrote was installed
  pc,         \* where each updater is
  op,         \* its operation
  in,         \* inode it scans, later lock_indesc
  map,        \* its map: [mem, off], off 0 for a file to insert
  pos,        \* its scan position, later its output position
  out,        \* inode of outdesc
  k, part,    \* element and part of it to write next; k = 0 is ARMAG
  runs,       \* runs begun
  rpc,        \* where each reader is
  stream,     \* the inode its arcstream is open on
  rin,        \* the inode its scan reads
  rpos, rmap, \* its scan position and map
  got         \* the blocks it was given: [mem, cells]

fileVars == <<data, names, locks, held, overhang>>
updVars == <<pc, op, in, map, pos, out, k, part, runs>>
readVars == <<rpc, stream, rin, rpos, rmap, got>>
vars == <<fileVars, updVars, readVars>>

Init ==
  /\ \E base \in Bases :
       /\ data = IF base = NoFile THEN <<>> ELSE <<base>>
       /\ names = [archive |-> IF base = NoFile THEN 0 ELSE 1, temp |-> 0]
  /\ locks \in Builds
  /\ held = {} /\ overhang = FALSE
  /\ pc = [u \in Updaters |-> "idle"]
  /\ op = [u \in Updaters |-> NoOp]
  /\ in = [u \in Updaters |-> 0] /\ map = [u \in Updaters |-> <<>>]
  /\ pos = [u \in Updaters |-> 0] /\ out = [u \in Updaters |-> 0]
  /\ k = [u \in Updaters |-> 0] /\ part = [u \in Updaters |-> 0]
  /\ runs = [u \in Updaters |-> 0]
  /\ rpc = [r \in Readers |-> "idle"]
  /\ stream = [r \in Readers |-> 0] /\ rin = [r \in Readers |-> 0]
  /\ rpos = [r \in Readers |-> 0]
  /\ rmap = [r \in Readers |-> <<>>] /\ got = [r \in Readers |-> {}]

At(u, where) == pc[u] = where
Goto(u, where) == pc' = [pc EXCEPT ![u] = where]
(* exit, by fatal or at the end of main: all descriptors are closed. *)
Quit(u, how) ==
  /\ Goto(u, how)
  /\ held' = {h \in held : h[2] # u}
  /\ UNCHANGED <<locks, overhang, data, names, op, in, map, pos, out, k, part, runs>>

(***************************************************************************)
(* make_map: scan.  A member's header tells where the next one is; a seek  *)
(* past the end reads nothing, which ends the scan.                        *)
(***************************************************************************)
AtEof(ino, p) == p > Len(data[ino])
BadMagic(ino) == ~(data[ino] # <<>> /\ data[ino][1] = Magic)
IsHeader(ino, p) == data[ino][p].part = 0 /\ data[ino][p] # Magic
MemberAt(ino, p) == [mem |-> data[ino][p].mem, off |-> p]
After(ino, p) == p + 1 + Size(data[ino][p].mem)

Running == {u \in Updaters : pc[u] \notin {"idle", "done", "failed", "killed"}}

(* A run begins; quick_append has no map to make. *)
Begin(u) ==
  /\ u \notin Running
  /\ runs[u] < MaxRuns
  /\ \E o \in Ops :
       /\ op' = [op EXCEPT ![u] = o]
       /\ Goto(u, IF o.kind = "quick" THEN "open" ELSE "fopen")
  /\ runs' = [runs EXCEPT ![u] = @ + 1]
  /\ map' = [map EXCEPT ![u] = <<>>]
  /\ k' = [k EXCEPT ![u] = 0] /\ part' = [part EXCEPT ![u] = 0]
  /\ UNCHANGED <<fileVars, in, pos, out, readVars>>

ScanOpen(u) ==
  /\ At(u, "fopen")
  /\ LET ino == names.archive
     IN  \/ /\ ino = 0 /\ op[u].add # <<>>          \* r: the archive is created
            /\ Goto(u, "open")
            /\ UNCHANGED <<fileVars, op, in, map, pos, out, k, part, runs>>
         \/ /\ ino = 0 /\ op[u].add = <<>>
            /\ Quit(u, "failed")
         \/ /\ ino # 0
            /\ BadMagic(ino)
            /\ Quit(u, "failed")
         \/ /\ ino # 0
            /\ ~BadMagic(ino)
            /\ Goto(u, "scan")
            /\ in' = [in EXCEPT ![u] = ino]
            /\ pos' = [pos EXCEPT ![u] = 2]
            /\ UNCHANGED <<fileVars, op, map, out, k, part, runs>>
  /\ UNCHANGED readVars

ScanMember(u) ==
  /\ At(u, "scan")
  /\ \/ /\ AtEof(in[u], pos[u])
        /\ Goto(u, "open")
        /\ UNCHANGED <<fileVars, op, in, map, pos, out, k, part, runs>>
     \/ /\ ~AtEof(in[u], pos[u])
        /\ ~IsHeader(in[u], pos[u])                \* "not a valid archive"
        /\ Quit(u, "failed")
     \/ /\ ~AtEof(in[u], pos[u])
        /\ IsHeader(in[u], pos[u])
        /\ map' = [map EXCEPT ![u] = Append(@, MemberAt(in[u], pos[u]))]
        /\ pos' = [pos EXCEPT ![u] = After(in[u], pos[u])]
        /\ UNCHANGED <<fileVars, pc, op, in, out, k, part, runs>>
  /\ UNCHANGED readVars

(***************************************************************************)
(* lock_for_update, close_archive.                                         *)
(***************************************************************************)
NewFile(name) ==
  /\ data' = Append(data, <<>>)
  /\ names' = [names EXCEPT ![name] = Len(data) + 1]

(* The archive is opened a second time. *)
OpenArchive(u) ==
  /\ At(u, "open")
  /\ \/ /\ names.archive # 0
        /\ in' = [in EXCEPT ![u] = names.archive]
        /\ Goto(u, "lock")
     \/ /\ names.archive = 0
        /\ Goto(u, "create")
        /\ UNCHANGED in
  /\ UNCHANGED <<fileVars, op, map, pos, out, k, part, runs, readVars>>

(* If that failed it is opened with O_CREAT and O_APPEND, ARMAG is written, *)
(* and it is opened again.                                                  *)
CreateArchive(u) ==
  /\ At(u, "create")
  /\ \/ /\ names.archive = 0
        /\ NewFile("archive")
        /\ out' = [out EXCEPT ![u] = Len(data) + 1]
     \/ /\ names.archive # 0                       \* another run was faster
        /\ out' = [out EXCEPT ![u] = names.archive]
        /\ UNCHANGED <<data, names>>
  /\ Goto(u, "magic")
  /\ UNCHANGED <<locks, overhang, held, op, in, map, pos, k, part, runs, readVars>>

WriteMagic(u) ==
  /\ At(u, "magic")
  /\ data' = [data EXCEPT ![out[u]] = Append(@, Magic)]
  /\ Goto(u, "open")
  /\ UNCHANGED <<locks, overhang, names, held, op, in, map, pos, out, k, part, runs, readVars>>

MutOldKept(u) ==
  map[u] \o [i \in DOMAIN op[u].add |-> [mem |-> op[u].add[i], off |-> 0]]
(* The edited map: delete_from_map, insert_in_map (see ArMap). *)
Kept(s, drop) ==
  LET kept[i \in 0..Len(s)] ==
        IF i = 0 THEN <<>>
        ELSE IF s[i].mem \in drop THEN kept[i - 1] ELSE Append(kept[i - 1], s[i])
  IN  kept[Len(s)]
Edited(u) ==
  Kept(map[u], op[u].drop)
    \o [i \in DOMAIN op[u].add |-> [mem |-> op[u].add[i], off |-> 0]]

(* fcntl(F_SETLKW) on the descriptor that is open, whatever its name is now. *)
MutNoWait(u) == TRUE
LockFree(u) == \A h \in held : h[1] # in[u] \/ h[2] = u

TakeLock(u) ==
  /\ At(u, "lock")
  /\ locks => LockFree(u)
  /\ held' = IF locks THEN held \union {<<in[u], u>>} ELSE held
  /\ map' = [map EXCEPT ![u] = Edited(u)]
  /\ Goto(u, "output")
  /\ UNCHANGED <<locks, overhang, data, names, op, in, pos, out, k, part, runs, readVars>>

(***************************************************************************)
(* write_archive.  The temporary file is opened without O_TRUNC or O_EXCL. *)
(***************************************************************************)
OpenOutput(u) ==
  /\ At(u, "output")
  /\ \/ /\ op[u].kind = "quick"
        /\ out' = [out EXCEPT ![u] = names.archive]
        /\ k' = [k EXCEPT ![u] = 1]
        /\ UNCHANGED <<data, names>>
     \/ /\ op[u].kind = "edit" /\ names.temp # 0
        /\ out' = [out EXCEPT ![u] = names.temp]
        /\ UNCHANGED <<data, names, k>>
     \/ /\ op[u].kind = "edit" /\ names.temp = 0
        /\ NewFile("temp")
        /\ out' = [out EXCEPT ![u] = Len(data) + 1]
        /\ UNCHANGED k
  /\ pos' = [pos EXCEPT ![u] = 1]
  /\ Goto(u, "write")
  /\ UNCHANGED <<locks, overhang, held, op, in, map, part, runs, readVars>>

(* The next cell: ARMAG, a header made from the map, or a block read from   *)
(* the file to insert or from the old archive at the offset in the map.     *)
MutOffByOne(u) == map[u][k[u]].off + part[u] - 1
OldPos(u) == map[u][k[u]].off + part[u]
FromOld(u) == k[u] > 0 /\ part[u] > 0 /\ map[u][k[u]].off > 0
ShortRead(u) == FromOld(u) /\ OldPos(u) > Len(data[in[u]])
NextCell(u) ==
  IF k[u] = 0 THEN Magic
  ELSE IF FromOld(u) THEN data[in[u]][OldPos(u)]
       ELSE Cell(map[u][k[u]].mem, part[u])

MutNoAppend(u, c) ==
  IF pos[u] <= Len(c) THEN [c EXCEPT ![pos[u]] = NextCell(u)] ELSE Append(c, NextCell(u))
(* A write at the output position; a quick append always writes at the end. *)
Put(u, c) ==
  IF op[u].kind = "edit" /\ pos[u] <= Len(c)
  THEN [c EXCEPT ![pos[u]] = NextCell(u)]
  ELSE Append(c, NextCell(u))

Write(u) ==
  /\ At(u, "write")
  /\ k[u] <= Len(map[u])
  /\ \/ /\ ShortRead(u)                            \* "error reading"
        /\ Quit(u, "failed")
     \/ /\ ~ShortRead(u)
        /\ data' = [data EXCEPT ![out[u]] = Put(u, @)]
        /\ pos' = [pos EXCEPT ![u] = @ + 1]
        /\ LET last == k[u] = 0 \/ part[u] = Size(map[u][k[u]].mem)
           IN  /\ k' = [k EXCEPT ![u] = IF last THEN @ + 1 ELSE @]
               /\ part' = [part EXCEPT ![u] = IF last THEN 0 ELSE @ + 1]
        /\ UNCHANGED <<locks, overhang, names, held, pc, op, in, map, out, runs>>
  /\ UNCHANGED readVars

Copied(u) == At(u, "write") /\ k[u] > Len(map[u])

(* Close the output, rename it over the archive; then close_archive.  What  *)
(* a killed run left behind the end of the output in the temporary file is  *)
(* now in the archive.                                                      *)
MutCopyInPlace(u) ==
  /\ Copied(u) /\ op[u].kind = "edit" /\ names.temp # 0
  /\ data' = [data EXCEPT ![names.archive] = data[names.temp]]
  /\ names' = [names EXCEPT !.temp = 0]
  /\ Goto(u, "close")
  /\ UNCHANGED <<locks, overhang, held, op, in, map, pos, out, k, part, runs, readVars>>
MutRetryRename(u) ==
  /\ Copied(u) /\ op[u].kind = "edit"
  /\ \/ names.temp = 0 /\ UNCHANGED vars
     \/ /\ names.temp # 0
        /\ names' = [archive |-> names.temp, temp |-> 0]
        /\ Goto(u, "close")
        /\ UNCHANGED <<locks, overhang, data, held, op, in, map, pos, out, k, part, runs, readVars>>
Rename(u) ==
  /\ Copied(u)
  /\ op[u].kind = "edit"
  /\ \/ /\ names.temp = 0
        /\ Quit(u, "failed")
     \/ /\ names.temp # 0
        /\ names' = [archive |-> names.temp, temp |-> 0]
        /\ overhang' = (overhang \/ Len(data[names.temp]) >= pos[u])
        /\ Goto(u, "close")
        /\ UNCHANGED <<locks, data, held, op, in, map, pos, out, k, part, runs>>
  /\ UNCHANGED readVars

CloseArchive(u) ==
  /\ At(u, "close") \/ (Copied(u) /\ op[u].kind = "quick")
  /\ Quit(u, "done")
  /\ UNCHANGED readVars

(* An updater is killed, or the machine stops. *)
Kill(u) ==
  /\ Kills
  /\ u \in Running
  /\ Quit(u, "killed")
  /\ UNCHANGED readVars

(***************************************************************************)
(* Readers.  Without file names, extract_members scans one open file; with *)
(* names it opens the archive, makes the map through a second open, and    *)
(* then reads the members from the first.                                  *)
(***************************************************************************)
Rgoto(r, where) == rpc' = [rpc EXCEPT ![r] = where]

OpenStream(r) ==
  /\ rpc[r] = "idle"
  /\ \/ /\ names.archive = 0
        /\ Rgoto(r, "none")
        /\ UNCHANGED stream
     \/ /\ names.archive # 0
        /\ stream' = [stream EXCEPT ![r] = names.archive]
        /\ Rgoto(r, "fopen")
  /\ UNCHANGED <<fileVars, updVars, rin, rpos, rmap, got>>

ReadOpen(r) ==
  /\ rpc[r] = "fopen"
  /\ LET ino == IF Named THEN names.archive ELSE stream[r]
     IN  /\ rin' = [rin EXCEPT ![r] = ino]
         /\ Rgoto(r, IF BadMagic(ino) THEN "fatal" ELSE "scan")
  /\ rpos' = [rpos EXCEPT ![r] = 2]
  /\ UNCHANGED <<fileVars, updVars, stream, rmap, got>>

(* extract_member reads a member's data blocks; a short read is fatal. *)
Extract(r, e, where) ==
  IF e.off + Size(e.mem) > Len(data[stream[r]])
  THEN Rgoto(r, "fatal") /\ UNCHANGED got
  ELSE LET cells == SubSeq(data[stream[r]], e.off + 1, e.off + Size(e.mem))
       IN  /\ Rgoto(r, where)
           /\ got' = [got EXCEPT ![r] = @ \union {[mem |-> e.mem, cells |-> cells]}]

ReadMember(r) ==
  /\ rpc[r] = "scan"
  /\ \/ /\ AtEof(rin[r], rpos[r])
        /\ Rgoto(r, IF Named THEN "extract" ELSE "done")
        /\ UNCHANGED <<rpos, rmap, got>>
     \/ /\ ~AtEof(rin[r], rpos[r])
        /\ ~IsHeader(rin[r], rpos[r])
        /\ Rgoto(r, "fatal")
        /\ UNCHANGED <<rpos, rmap, got>>
     \/ /\ ~AtEof(rin[r], rpos[r])
        /\ IsHeader(rin[r], rpos[r])
        /\ rpos' = [rpos EXCEPT ![r] = After(rin[r], rpos[r])]
        /\ LET e == MemberAt(rin[r], rpos[r])
           IN  IF Named
               THEN rmap' = [rmap EXCEPT ![r] = Append(@, e)] /\ UNCHANGED <<rpc, got>>
               ELSE Extract(r, e, "scan") /\ UNCHANGED rmap
  /\ UNCHANGED <<fileVars, updVars, stream, rin>>

(* The loop over the named files, when there are any. *)
ExtractNamed(r) ==
  /\ rpc[r] = "extract"
  /\ \/ /\ rmap[r] = <<>>
        /\ Rgoto(r, "done")
        /\ UNCHANGED <<rmap, got>>
     \/ /\ rmap[r] # <<>>
        /\ Extract(r, Head(rmap[r]), "extract")
        /\ rmap' = [rmap EXCEPT ![r] = Tail(@)]
  /\ UNCHANGED <<fileVars, updVars, stream, rin, rpos>>

Step(u) ==
  \/ Begin(u) \/ ScanOpen(u) \/ ScanMember(u) \/ OpenArchive(u) \/ CreateArchive(u)
  \/ WriteMagic(u) \/ TakeLock(u) \/ OpenOutput(u) \/ Write(u) \/ Rename(u) \/ CloseArchive(u)

Finished ==
  /\ Running = {} /\ \A u \in Updaters : runs[u] = MaxRuns
  /\ \A r \in Readers : rpc[r] \in {"none", "done", "fatal"}
  /\ UNCHANGED vars

Next ==
  \/ \E u \in Updaters : Step(u) \/ Kill(u)
  \/ \E r \in Readers : OpenStream(r) \/ ReadOpen(r) \/ ReadMember(r)
                        \/ ExtractNamed(r)
  \/ Finished

(* Every invocation that is not killed and not waiting for a lock goes on.  *)
Spec == Init /\ [][Next]_vars /\ \A u \in Updaters : WF_vars(Step(u))
-----------------------------------------------------------------------------
(***************************************************************************)
(* Properties.                                                             *)
(***************************************************************************)
Complete(c) == c = Magic \/ c.part = Size(c.mem)
Follows(b, c) ==
  IF c.part = 0 THEN Complete(b) /\ c # Magic
  ELSE b = Cell(c.mem, c.part - 1) /\ c.part <= Size(c.mem)
(* An archive: ARMAG, then whole members. *)
Whole(c) ==
  /\ c # <<>> /\ c[1] = Magic /\ Complete(c[Len(c)])
  /\ \A i \in 2..Len(c) : Follows(c[i - 1], c[i])
Contents ==
  {c.mem : c \in {data[names.archive][i] : i \in DOMAIN data[names.archive]}}
Adds(u) == {op[u].add[i] : i \in DOMAIN op[u].add}
WritesTemp(u) == At(u, "write") /\ op[u].kind = "edit"

(* ar.c:815, "we use `rename' to update the whole file atomically":         *)
(* whenever there is an archive, it is ARMAG followed by whole members.     *)
ArchiveAtomic == names.archive # 0 => Whole(data[names.archive])

(* The archive is whole through every kill, also when later runs write over *)
(* the temporary file of a killed one, except after a run whose output was  *)
(* shorter than that file: its rename installs the old tail as well.        *)
ArchiveWhole == ~overhang => ArchiveAtomic

(* "The lock made on the old archive file": with LOCKS, of the invocations  *)
(* that work from one version of the archive only one at a time writes a    *)
(* new one, whoever is killed.  (The lock is on the inode, so one that works*)
(* from a version already replaced may write at the same time.)             *)
OneWriterPerVersion ==
  locks => \A u, v \in Updaters :
    WritesTemp(u) /\ WritesTemp(v) /\ in[u] = in[v] => u = v

(* "Merely reading an archive does not require a lock": a reader never      *)
(* takes the archive for an invalid one, and the blocks it is given for a   *)
(* member are that member's, unless a stale tail was installed.             *)
ReadersSeeMembers ==
  ~overhang => \A r \in Readers :
    /\ rpc[r] # "fatal"
    /\ \A g \in got[r] : g.cells = [i \in 1..Size(g.mem) |-> Cell(g.mem, i)]

(* The lock is there so that an archive is not "updated by two programs at  *)
(* once": an update that has ended is still in the archive, unless another  *)
(* operation asked for the opposite.  (A stale tail of the temporary file   *)
(* may bring members back: not once that has happened.)                     *)
UpdateKept ==
  ~overhang => \A u \in Updaters : At(u, "done") =>
    /\ \A m \in Adds(u) : m \in Contents \/ \E v \in Updaters \ {u} : m \in op[v].drop
    /\ \A m \in op[u].drop : m \notin Contents \/ \E v \in Updaters : m \in Adds(v)

(* The archive's blocks stay where readers and maps expect them.            *)
InPlace ==
  \A i \in DOMAIN data : i = names.archive =>
    /\ Len(data'[i]) >= Len(data[i])
    /\ SubSeq(data'[i], 1, Len(data[i])) = data[i]

(* The file that is the archive is never changed in place: a version that   *)
(* a reader has open stays as it was when it was the archive.               *)
NeverOverwritten == [][InPlace]_vars

(* While all runs are quick appends, what is in the archive stays, also     *)
(* when two of them create it or append to it at once.                      *)
QuickKeeps ==
  [][(\A u \in Updaters : runs[u] = 0 \/ op[u].kind = "quick") => InPlace]_vars

(* Nobody waits for ever for the lock: every run ends.                      *)
RunsEnd == <>[](Running = {})
=============================================================================
