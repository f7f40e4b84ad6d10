--------------------------- MODULE ArSoloProofs ----------------------------
(***************************************************************************)
(* Proofs about ArUpdate when one invocation at a time updates a whole     *)
(* archive and may be killed at any moment, any number of readers at work: *)
(* the archive is whole, it is never changed in place, an update that has  *)
(* ended is in it, and a reader is given the members' own blocks.          *)
(***************************************************************************)
EXTENDS ArUpdateProofs

(***************************************************************************)
(* The hypotheses: one invocation at a time updates the archive, editing   *)
(* it, and the archive that earlier runs left is whole.  Nothing is said   *)
(* of the temporary file: a killed run leaves it, and later runs write     *)
(* over it from its beginning.                                             *)
(***************************************************************************)
Solo ==
  /\ \A u, v \in Updaters : u = v
  /\ \A o \in Ops : o.kind = "edit"
  /\ \A b \in Bases : b # NoFile /\ Whole(b)

(* ARMAG and cells that may follow each other: a prefix of an archive. *)
Chain(c) ==
  c # <<>> /\ c[1] = Magic /\ \A i \in 2..Len(c) : Follows(c[i - 1], c[i])
(* p is where a member begins, or the end. *)
Boundary(c, p) == p \in 2..(Len(c) + 1) /\ Complete(c[p - 1])
(* The member of the map's element e is in c, whole. *)
MemberIn(c, e) ==
  \A j \in 0..Size(e.mem) :
    e.off + j \in 1..Len(c) /\ c[e.off + j] = Cell(e.mem, j)

ArchiveThere ==
  /\ names.archive # 0 /\ names.archive # names.temp
  /\ Whole(data[names.archive])

MapRight(u) ==
  /\ in[u] = names.archive
  /\ \A i \in 1..Len(map[u]) : map[u][i].off > 0 => MemberIn(data[in[u]], map[u][i])
(* The map has what the operation adds and not what it drops. *)
MapEdited(u) ==
  /\ \A i \in 1..Len(map[u]) : map[u][i].mem \in op[u].drop => map[u][i].mem \in Adds(u)
  /\ \A m \in Adds(u) : \E i \in 1..Len(map[u]) : map[u][i].mem = m
(* So has the archive. *)
HasUpdate(u) ==
  /\ \A m \in Adds(u) : m \in Contents
  /\ \A m \in op[u].drop : m \in Contents => m \in Adds(u)

(* What this run has written: a stale temporary file may go on behind it.  *)
Output(u) == SubSeq(data[out[u]], 1, pos[u] - 1)

(* What was written of the new version: the elements before k, and of      *)
(* element k the parts before part.                                        *)
Written(u, c) ==
  /\ part[u] = 0 => Complete(c[Len(c)])
  /\ part[u] # 0 => /\ k[u] <= Len(map[u]) /\ part[u] <= Size(map[u][k[u]].mem)
                    /\ c[Len(c)] = Cell(map[u][k[u]].mem, part[u] - 1)
  /\ \A i \in 1..Len(c) :
       c[i] = Magic \/ \E j \in 1..Len(map[u]) : c[i].mem = map[u][j].mem
  /\ \A j \in 1..(k[u] - 1) : \E i \in 1..Len(c) : c[i].mem = map[u][j].mem
NewVersion(u, c) ==
  /\ names.temp = out[u] /\ pos[u] = Len(c) + 1 /\ Len(c) <= Len(data[out[u]])
  /\ k[u] <= Len(map[u]) + 1
  /\ k[u] = 0 => c = <<>> /\ part[u] = 0
  /\ k[u] # 0 => Chain(c) /\ Written(u, c)

UpdaterInv(u) ==
  /\ pc[u] \notin {"create", "magic"}
  /\ pc[u] # "idle" => op[u].kind = "edit"
  /\ pc[u] \in {"fopen", "scan", "open", "lock", "output"} => k[u] = 0 /\ part[u] = 0
  /\ pc[u] = "fopen" => map[u] = <<>>
  /\ pc[u] \in {"scan", "open", "lock", "output", "write"} => MapRight(u)
  /\ pc[u] = "scan" => Boundary(data[in[u]], pos[u])
  /\ pc[u] \in {"output", "write"} => MapEdited(u)
  /\ pc[u] = "write" => NewVersion(u, Output(u))
  /\ pc[u] \in {"close", "done"} => HasUpdate(u)

(* While no stale tail was installed. *)
SoloInv == ArchiveThere /\ \A u \in Updaters : UpdaterInv(u)

(* Always: an updater writes the temporary file, which is not the archive. *)
FilesInv ==
  /\ names.archive # 0 /\ names.archive # names.temp
  /\ \A u \in Updaters :
       /\ pc[u] \notin {"create", "magic"}
       /\ pc[u] # "idle" => op[u].kind = "edit"
       /\ pc[u] = "write" => names.temp = out[u]

(* A reader has a version open that was the archive and is never written.  *)
ReaderInv(r) ==
  /\ rpc[r] \in {"fopen", "scan"} =>
       /\ stream[r] \in 1..Len(data) /\ stream[r] # names.temp
       /\ Whole(data[stream[r]])
  /\ rpc[r] = "scan" => rin[r] = stream[r] /\ Boundary(data[rin[r]], rpos[r])
  /\ \A g \in got[r] : g.cells = [i \in 1..Size(g.mem) |-> Cell(g.mem, i)]
ReadersInv ==
  /\ rpc \in [Readers -> {"idle", "none", "fopen", "scan", "done"}]
  /\ stream \in [Readers -> Nat] /\ rin \in [Readers -> Nat] /\ rpos \in [Readers -> Nat]
  /\ got = [r \in Readers |-> got[r]]
  /\ \A r \in Readers : ReaderInv(r)
-----------------------------------------------------------------------------
(***************************************************************************)
(* What an archive looks like.                                             *)
(***************************************************************************)
LEMMA CellsAre ==
  ASSUME NEW c \in Cells
  PROVE  /\ c = Cell(c.mem, c.part) /\ c.part \in Nat
         /\ c = Magic \/ c.mem \in Members
         /\ c.mem \in Members => c # Magic /\ Size(c.mem) \in Nat
BY MemberAssumption DEF Cells, Magic, Cell

(* The cells of a member. *)
LEMMA MemberCell ==
  ASSUME NEW m \in Members, NEW j \in Nat
  PROVE  /\ Cell(m, j) \in Cells /\ Cell(m, j) # Magic
         /\ Cell(m, j).mem = m /\ Cell(m, j).part = j
BY MemberAssumption DEF Cells, Magic, Cell

(* An archive is whole when its last member is. *)
LEMMA WholeIsChain ==
  ASSUME NEW c
  PROVE  Whole(c) <=> Chain(c) /\ Complete(c[Len(c)])
BY DEF Whole, Chain

(* After a whole member comes another one's header. *)
LEMMA BoundaryHeader ==
  ASSUME NEW c \in Seq(Cells), Whole(c), NEW p, Boundary(c, p), p <= Len(c)
  PROVE  p \in 2..Len(c) /\ c[p].part = 0 /\ c[p] # Magic
<1>1. p \in 2..Len(c) /\ p \in 1..Len(c) /\ p - 1 \in 1..Len(c)
  BY DEF Boundary
<1>2. c[p] \in Cells /\ c[p - 1] \in Cells
  BY <1>1
<1>3. Follows(c[p - 1], c[p]) /\ Complete(c[p - 1])
  BY <1>1 DEF Whole, Boundary
<1>4. c[p].part = 0
  <2> SUFFICES ASSUME c[p].part # 0 PROVE FALSE
    OBVIOUS
  <2>1. c[p - 1] = Cell(c[p].mem, c[p].part - 1) /\ c[p].part <= Size(c[p].mem)
    BY <1>3 DEF Follows
  <2>2. c[p].mem \in Members /\ c[p].part \in Nat /\ Size(c[p].mem) \in Nat
    BY <1>2, MemberAssumption DEF Cells, Magic, Cell
  <2>3. /\ c[p].part - 1 \in Nat /\ c[p - 1] # Magic
        /\ c[p - 1].mem = c[p].mem /\ c[p - 1].part = c[p].part - 1
    BY <2>1, <2>2, MemberCell
  <2>4. c[p].part - 1 = Size(c[p].mem)
    BY <1>3, <2>3 DEF Complete
  <2> QED BY <2>1, <2>2, <2>4
<1> QED BY <1>1, <1>3, <1>4 DEF Follows

(* A header is followed by the member's blocks, and they by a boundary. *)
LEMMA MemberBody ==
  ASSUME NEW c \in Seq(Cells), Whole(c), NEW p \in 2..Len(c),
         c[p].part = 0, c[p] # Magic
  PROVE  /\ c[p].mem \in Members
         /\ MemberIn(c, [mem |-> c[p].mem, off |-> p])
         /\ Boundary(c, p + 1 + Size(c[p].mem))
<1>1. c[p] \in Cells /\ Len(c) \in Nat /\ p \in Nat
  OBVIOUS
<1>2. PICK m \in Members : m = c[p].mem /\ c[p] = Cell(m, 0) /\ Size(m) \in Nat
  BY <1>1, CellsAre
<1> DEFINE T == {j \in Nat : j <= Size(m) => p + j \in 1..Len(c) /\ c[p + j] = Cell(m, j)}
<1>3. 0 \in T
  <2>1. p + 0 = p /\ p \in 1..Len(c)
    BY <1>1
  <2> QED BY <1>2, <2>1
<1>4. ASSUME NEW j \in Nat, j \in T PROVE j + 1 \in T
  <2> SUFFICES ASSUME j + 1 <= Size(m)
               PROVE  p + (j + 1) \in 1..Len(c) /\ c[p + (j + 1)] = Cell(m, j + 1)
    OBVIOUS
  <2>1. j <= Size(m) /\ j # Size(m)
    BY <1>2
  <2>2. p + j \in 1..Len(c) /\ c[p + j] = Cell(m, j)
    BY <1>4, <2>1
  <2>3. ~Complete(c[p + j])
    BY <2>1, <2>2, MemberCell DEF Complete
  <2>4. p + j # Len(c)
    BY <2>3 DEF Whole
  <2>5. PICK q \in 2..Len(c) : q = p + (j + 1) /\ q - 1 = p + j
    BY <1>1, <2>2, <2>4
  <2>6. Follows(c[p + j], c[q]) /\ c[q] \in Cells
    BY <2>5 DEF Whole
  <2>7. c[q].part # 0 /\ c[p + j] = Cell(c[q].mem, c[q].part - 1)
    BY <2>3, <2>6 DEF Follows
  <2>8. c[q].part \in Nat /\ c[q].part - 1 = j /\ c[q].mem = m
    <3>1. c[q].part \in Nat
      BY <2>6, CellsAre
    <3>2. Cell(m, j) = Cell(c[q].mem, c[q].part - 1)
      BY <2>2, <2>7
    <3> QED BY <3>1, <3>2 DEF Cell
  <2>9. c[q] = Cell(m, j + 1)
    <3>1. c[q] = Cell(c[q].mem, c[q].part)
      BY <2>6, CellsAre
    <3>2. c[q].part = j + 1
      BY <2>8
    <3> QED BY <2>8, <3>1, <3>2
  <2> QED BY <2>5, <2>9
<1>5. \A j \in Nat : j \in T
  <2> HIDE DEF T
  <2> QED BY <1>3, <1>4, SetInduction
<1>6. \A j \in 0..Size(m) : p + j \in 1..Len(c) /\ c[p + j] = Cell(m, j)
  BY <1>2, <1>5
<1>7. MemberIn(c, [mem |-> m, off |-> p])
  BY <1>6 DEF MemberIn
<1>8. Boundary(c, p + 1 + Size(m))
  <2>1. p + Size(m) \in 1..Len(c) /\ c[p + Size(m)] = Cell(m, Size(m))
    BY <1>2, <1>6
  <2>2. Complete(c[p + Size(m)])
    BY <1>2, <2>1, MemberCell DEF Complete
  <2>3. PICK q \in 2..(Len(c) + 1) : q = p + 1 + Size(m) /\ q - 1 = p + Size(m)
    BY <1>1, <1>2, <2>1
  <2> QED BY <2>2, <2>3 DEF Boundary
<1> QED BY <1>2, <1>7, <1>8

(* A cell that may follow the last one makes a longer chain. *)
LEMMA ChainAppend ==
  ASSUME NEW c \in Seq(Cells), Chain(c), NEW x \in Cells, Follows(c[Len(c)], x)
  PROVE  Chain(Append(c, x))
<1> DEFINE d == Append(c, x)
<1>1. /\ d \in Seq(Cells) /\ Len(d) = Len(c) + 1 /\ Len(c) \in Nat
      /\ d[Len(c) + 1] = x /\ \A i \in 1..Len(c) : d[i] = c[i]
  OBVIOUS
<1>2. c # <<>> /\ Len(c) >= 1 /\ c[1] = Magic
  BY <1>1 DEF Chain
<1> HIDE DEF d
<1>3. d # <<>> /\ d[1] = Magic
  BY <1>1, <1>2
<1>4. ASSUME NEW i \in 2..Len(d) PROVE Follows(d[i - 1], d[i])
  <2>1. CASE i = Len(c) + 1
    <3>1. i - 1 = Len(c) /\ Len(c) \in 1..Len(c)
      BY <1>1, <1>2, <2>1
    <3> QED BY <1>1, <2>1, <3>1
  <2>2. CASE i # Len(c) + 1
    <3>1. i \in 2..Len(c) /\ i \in 1..Len(c) /\ i - 1 \in 1..Len(c)
      BY <1>1, <2>2
    <3> QED BY <1>1, <3>1 DEF Chain
  <2> QED BY <2>1, <2>2
<1> QED BY <1>3, <1>4 DEF Chain, d
-----------------------------------------------------------------------------
(***************************************************************************)
(* The steps of the updater.                                               *)
(***************************************************************************)
LEMMA InitSolo ==
  ASSUME Solo, Init
  PROVE  SoloInv
<1>1. PICK b \in Bases :
        /\ data = IF b = NoFile THEN <<>> ELSE <<b>>
        /\ names = [archive |-> IF b = NoFile THEN 0 ELSE 1, temp |-> 0]
  BY DEF Init
<1>2. b # NoFile /\ Whole(b)
  BY DEF Solo
<1>3. data = <<b>> /\ names.archive = 1 /\ names.temp = 0
  BY <1>1, <1>2
<1>4. ArchiveThere
  BY <1>2, <1>3 DEF ArchiveThere
<1>5. \A u \in Updaters : UpdaterInv(u)
  BY DEF Init, UpdaterInv
<1> QED BY <1>4, <1>5 DEF SoloInv

(* What SoloInv says of the archive. *)
LEMMA ArchiveFacts ==
  ASSUME TypeOK, SoloInv
  PROVE  /\ names.archive \in 1..Len(data) /\ names.archive # names.temp
         /\ data[names.archive] \in Seq(Cells) /\ Whole(data[names.archive])
<1>1. names.archive \in Nat /\ names.archive # 0 /\ names.archive <= Len(data)
  BY DEF TypeOK, Shape, NoDangling, SoloInv, ArchiveThere
<1>2. names.archive \in 1..Len(data)
  BY <1>1 DEF TypeOK, Shape
<1> QED BY <1>2 DEF TypeOK, Shape, SoloInv, ArchiveThere

(* Nobody else updates the archive. *)
LEMMA OnlyOne ==
  ASSUME Solo, NEW u \in Updaters, ArchiveThere', UpdaterInv(u)'
  PROVE  SoloInv'
<1>1. \A v \in Updaters : v = u
  BY DEF Solo
<1>2. \A v \in Updaters : UpdaterInv(v)'
  BY <1>1
<1> QED BY <1>2 DEF SoloInv

(* Exit, by fatal, at the end of main or by a kill. *)
LEMMA QuitSolo ==
  ASSUME Solo, TypeOK, SoloInv, NEW u \in Updaters, pc[u] # "idle",
         NEW how \in {"done", "failed", "killed"}, Quit(u, how),
         how = "done" => HasUpdate(u)
  PROVE  SoloInv'
<1>1. pc'[u] = how /\ UNCHANGED <<data, names, op>>
  BY DEF Quit, Goto, TypeOK, Shape
<1>2. ArchiveThere'
  BY <1>1 DEF SoloInv, ArchiveThere
<1>3. HasUpdate(u) => HasUpdate(u)'
  BY <1>1 DEF HasUpdate, Adds, Contents
<1>4. UpdaterInv(u)'
  BY <1>1, <1>3 DEF SoloInv, UpdaterInv
<1> QED BY <1>2, <1>4, OnlyOne

(* main: the operation is chosen. *)
LEMMA BeginSolo ==
  ASSUME Solo, TypeOK, SoloInv, NEW u \in Updaters, Begin(u)
  PROVE  SoloInv'
<1>1. PICK o \in Ops :
        /\ op' = [op EXCEPT ![u] = o]
        /\ Goto(u, IF o.kind = "quick" THEN "open" ELSE "fopen")
  BY DEF Begin
<1>2. o.kind = "edit"
  BY DEF Solo
<1>3. /\ UNCHANGED <<data, names>> /\ map' = [map EXCEPT ![u] = <<>>]
      /\ k' = [k EXCEPT ![u] = 0] /\ part' = [part EXCEPT ![u] = 0]
  BY DEF Begin, fileVars
<1>4. /\ pc'[u] = "fopen" /\ op'[u] = o /\ map'[u] = <<>> /\ k'[u] = 0 /\ part'[u] = 0
  BY <1>1, <1>2, <1>3 DEF Goto, TypeOK, Shape
<1>5. ArchiveThere'
  BY <1>3 DEF SoloInv, ArchiveThere
<1>6. UpdaterInv(u)'
  BY <1>2, <1>3, <1>4 DEF UpdaterInv
<1> QED BY <1>5, <1>6, OnlyOne

(* scan: fopen, and the check of ARMAG. *)
LEMMA ScanOpenSolo ==
  ASSUME Solo, TypeOK, SoloInv, NEW u \in Updaters, ScanOpen(u)
  PROVE  SoloInv'
<1>1. pc[u] = "fopen" /\ UpdaterInv(u)
  BY DEF ScanOpen, At, SoloInv
<1>2. CASE Quit(u, "failed")
  BY <1>1, <1>2, QuitSolo
<1>3. CASE ~Quit(u, "failed")
  <2>1. /\ Goto(u, "scan") /\ in' = [in EXCEPT ![u] = names.archive]
        /\ pos' = [pos EXCEPT ![u] = 2]
        /\ UNCHANGED <<data, names, op, map, k, part>>
    BY <1>3, ArchiveFacts DEF ScanOpen, fileVars
  <2>2. pc'[u] = "scan" /\ in'[u] = names.archive /\ pos'[u] = 2
    BY <2>1 DEF Goto, TypeOK, Shape
  <2>3. /\ op[u].kind = "edit" /\ k[u] = 0 /\ part[u] = 0
        /\ map[u] = <<>>
    BY <1>1 DEF UpdaterInv
  <2>4. Boundary(data[names.archive], 2)
    <3>1. data[names.archive] \in Seq(Cells) /\ data[names.archive] # <<>>
          /\ data[names.archive][1] = Magic
      BY ArchiveFacts DEF Whole
    <3>2. 2 \in 2..(Len(data[names.archive]) + 1) /\ 2 - 1 = 1
      BY <3>1
    <3>3. Complete(data[names.archive][1])
      BY <3>1 DEF Complete
    <3> QED BY <3>2, <3>3 DEF Boundary
  <2>5. ArchiveThere'
    BY <2>1 DEF SoloInv, ArchiveThere
  <2>6. MapRight(u)'
    <3>1. Len(map'[u]) = 0 /\ 1..0 = {}
      BY <2>1, <2>3
    <3> QED BY <2>1, <2>2, <3>1 DEF MapRight
  <2>7. Boundary(data[in[u]], pos[u])'
    BY <2>1, <2>2, <2>4
  <2>8. UpdaterInv(u)'
    BY <2>1, <2>2, <2>3, <2>6, <2>7 DEF UpdaterInv
  <2> QED BY <2>5, <2>8, OnlyOne
<1> QED BY <1>2, <1>3

(* scan: a member is put into the map, or the end is reached. *)
LEMMA ScanMemberSolo ==
  ASSUME Solo, TypeOK, SoloInv, NEW u \in Updaters, ScanMember(u)
  PROVE  SoloInv'
<1>1. pc[u] = "scan" /\ UpdaterInv(u)
  BY DEF ScanMember, At, SoloInv
<1>2. /\ op[u].kind = "edit" /\ k[u] = 0 /\ part[u] = 0
      /\ MapRight(u) /\ Boundary(data[in[u]], pos[u])
  BY <1>1 DEF UpdaterInv
<1>3. CASE Quit(u, "failed")
  BY <1>1, <1>3, QuitSolo
<1>4. CASE Goto(u, "open") /\ UNCHANGED <<fileVars, op, in, map, pos, out, k, part, runs>>
  <2>1. pc'[u] = "open" /\ UNCHANGED <<data, names, op, in, map, k, part>>
    BY <1>4 DEF Goto, TypeOK, Shape, fileVars
  <2>2. ArchiveThere'
    BY <2>1 DEF SoloInv, ArchiveThere
  <2>3. MapRight(u)'
    BY <1>2, <2>1 DEF MapRight
  <2>4. UpdaterInv(u)'
    BY <1>2, <2>1, <2>3 DEF UpdaterInv
  <2> QED BY <2>2, <2>4, OnlyOne
<1>5. CASE /\ ~AtEof(in[u], pos[u]) /\ IsHeader(in[u], pos[u])
           /\ map' = [map EXCEPT ![u] = Append(@, MemberAt(in[u], pos[u]))]
           /\ pos' = [pos EXCEPT ![u] = After(in[u], pos[u])]
           /\ UNCHANGED <<fileVars, pc, op, in, out, k, part, runs>>
  <2> DEFINE c == data[names.archive]
             p == pos[u]
             e == [mem |-> c[p].mem, off |-> p]
  <2>1. in[u] = names.archive /\ UNCHANGED <<data, names, pc, op, in, k, part>>
    BY <1>2, <1>5 DEF MapRight, fileVars
  <2>2. c \in Seq(Cells) /\ Whole(c)
    BY ArchiveFacts
  <2>3. p \in 2..Len(c) /\ c[p].part = 0 /\ c[p] # Magic
    BY <1>2, <1>5, <2>1, <2>2 DEF Boundary, AtEof, IsHeader
  <2>4. /\ c[p].mem \in Members /\ MemberIn(c, e)
        /\ Boundary(c, p + 1 + Size(c[p].mem))
    BY <2>2, <2>3, MemberBody
  <2>5. map'[u] = Append(map[u], e) /\ pos'[u] = p + 1 + Size(c[p].mem)
    BY <1>5, <2>1 DEF TypeOK, Shape, MemberAt, After
  <2>6. ArchiveThere'
    BY <2>1 DEF SoloInv, ArchiveThere
  <2>7. MapRight(u)'
    <3>1. /\ Len(map'[u]) = Len(map[u]) + 1 /\ Len(map[u]) \in Nat
          /\ \A i \in 1..Len(map[u]) : map'[u][i] = map[u][i]
          /\ map'[u][Len(map[u]) + 1] = e
      <4>1. map[u] \in Seq(Elems) /\ e \in Elems
        BY <2>3, <2>4 DEF TypeOK, Shape, Elems
      <4> QED BY <2>5, <4>1
    <3>2. \A i \in 1..Len(map'[u]) : i \in 1..Len(map[u]) \/ i = Len(map[u]) + 1
      BY <3>1
    <3>3. \A i \in 1..Len(map'[u]) : map'[u][i].off > 0 => MemberIn(c, map'[u][i])
      <4> HIDE DEF c, e
      <4>1. \A i \in 1..Len(map[u]) : map[u][i].off > 0 => MemberIn(c, map[u][i])
        BY <1>2, <2>1 DEF MapRight, c
      <4> QED BY <2>4, <3>1, <3>2, <4>1
    <3> QED BY <2>1, <3>3 DEF MapRight
  <2>8. Boundary(data[in[u]], pos[u])'
    BY <2>1, <2>4, <2>5
  <2>9. UpdaterInv(u)'
    BY <1>1, <1>2, <2>1, <2>7, <2>8 DEF UpdaterInv
  <2> QED BY <2>6, <2>9, OnlyOne
<1> QED BY <1>3, <1>4, <1>5 DEF ScanMember

(* open_archive finds the version that was scanned. *)
LEMMA OpenArchiveSolo ==
  ASSUME Solo, TypeOK, SoloInv, NEW u \in Updaters, OpenArchive(u)
  PROVE  SoloInv'
<1>1. pc[u] = "open" /\ UpdaterInv(u) /\ names.archive # 0
  BY ArchiveFacts DEF OpenArchive, At, SoloInv
<1>2. /\ op[u].kind = "edit" /\ k[u] = 0 /\ part[u] = 0
      /\ MapRight(u)
  BY <1>1 DEF UpdaterInv
<1>3. /\ in' = [in EXCEPT ![u] = names.archive] /\ Goto(u, "lock")
      /\ UNCHANGED <<data, names, op, map, k, part>>
  BY <1>1 DEF OpenArchive, fileVars
<1>4. pc'[u] = "lock" /\ in'[u] = in[u]
  BY <1>2, <1>3 DEF Goto, TypeOK, Shape, MapRight
<1>5. ArchiveThere'
  BY <1>3 DEF SoloInv, ArchiveThere
<1>6. MapRight(u)'
  BY <1>2, <1>3, <1>4 DEF MapRight
<1>7. UpdaterInv(u)'
  BY <1>2, <1>3, <1>4, <1>6 DEF UpdaterInv
<1> QED BY <1>5, <1>7, OnlyOne

(* lock_for_update, after which the map is edited. *)
LEMMA TakeLockSolo ==
  ASSUME Solo, TypeOK, SoloInv, NEW u \in Updaters, TakeLock(u)
  PROVE  SoloInv'
<1>1. pc[u] = "lock" /\ UpdaterInv(u)
  BY DEF TakeLock, At, SoloInv
<1>2. /\ op[u].kind = "edit" /\ k[u] = 0 /\ part[u] = 0
      /\ MapRight(u)
  BY <1>1 DEF UpdaterInv
<1>3. /\ map' = [map EXCEPT ![u] = Edited(u)] /\ Goto(u, "output")
      /\ UNCHANGED <<data, names, op, in, k, part>>
  BY DEF TakeLock
<1>4. pc'[u] = "output" /\ map'[u] = Edited(u)
  BY <1>3 DEF Goto, TypeOK, Shape
<1> DEFINE e == Edited(u)
           c == data[in[u]]
<1>5. /\ e \in Seq(Elems)
      /\ \A i \in 1..Len(e) :
           \/ \E j \in 1..Len(map[u]) : e[i] = map[u][j] /\ map[u][j].mem \notin op[u].drop
           \/ \E j \in 1..Len(op[u].add) : e[i] = [mem |-> op[u].add[j], off |-> 0]
      /\ \A j \in 1..Len(op[u].add) : \E i \in 1..Len(e) :
           e[i] = [mem |-> op[u].add[j], off |-> 0]
  BY EditedElements
<1>6. /\ op[u].add \in Seq(Members)
      /\ \A m : m \in Adds(u) <=> \E j \in 1..Len(op[u].add) : m = op[u].add[j]
  <2>1. op[u].add \in Seq(Members)
    BY DEF TypeOK, Shape, OpRecs
  <2> QED BY <2>1 DEF Adds
<1>7. Adds(u)' = Adds(u)
  BY <1>3 DEF Adds
<1>8. \A i \in 1..Len(map[u]) : map[u][i].off > 0 => MemberIn(c, map[u][i])
  BY <1>2 DEF MapRight
<1> HIDE DEF e, c
<1>9. \A i \in 1..Len(e) : e[i].off > 0 => MemberIn(c, e[i])
  <2> SUFFICES ASSUME NEW i \in 1..Len(e), e[i].off > 0 PROVE MemberIn(c, e[i])
    OBVIOUS
  <2>1. PICK j \in 1..Len(map[u]) : e[i] = map[u][j]
    <3>1. ASSUME NEW j \in 1..Len(op[u].add), e[i] = [mem |-> op[u].add[j], off |-> 0]
          PROVE  FALSE
      BY <3>1
    <3> QED BY <1>5, <3>1
  <2> QED BY <1>8, <2>1
<1>10. \A i \in 1..Len(e) : e[i].mem \in op[u].drop => e[i].mem \in Adds(u)
  <2> SUFFICES ASSUME NEW i \in 1..Len(e), e[i].mem \in op[u].drop PROVE e[i].mem \in Adds(u)
    OBVIOUS
  <2>1. PICK j \in 1..Len(op[u].add) : e[i] = [mem |-> op[u].add[j], off |-> 0]
    BY <1>5
  <2>2. e[i].mem = op[u].add[j]
    BY <2>1
  <2> QED BY <1>6, <2>2
<1>11. \A m \in Adds(u) : \E i \in 1..Len(e) : e[i].mem = m
  <2> SUFFICES ASSUME NEW m \in Adds(u) PROVE \E i \in 1..Len(e) : e[i].mem = m
    OBVIOUS
  <2>1. PICK j \in 1..Len(op[u].add) : m = op[u].add[j]
    BY <1>6
  <2>2. PICK i \in 1..Len(e) : e[i] = [mem |-> op[u].add[j], off |-> 0]
    BY <1>5
  <2> QED BY <2>1, <2>2
<1>12. MapRight(u)'
  <2>1. in[u] = names.archive
    BY <1>2 DEF MapRight
  <2> QED BY <1>3, <1>4, <1>9, <2>1 DEF MapRight, e, c
<1>13. MapEdited(u)'
  BY <1>3, <1>4, <1>7, <1>10, <1>11 DEF MapEdited, e
<1>14. ArchiveThere'
  BY <1>3 DEF SoloInv, ArchiveThere
<1>15. UpdaterInv(u)'
  BY <1>2, <1>3, <1>4, <1>12, <1>13 DEF UpdaterInv
<1> QED BY <1>14, <1>15, OnlyOne

(* write_archive: the temporary file is new, or a stale one is written over. *)
LEMMA OpenOutputSolo ==
  ASSUME Solo, TypeOK, SoloInv, NEW u \in Updaters, OpenOutput(u)
  PROVE  SoloInv'
<1>1. pc[u] = "output" /\ UpdaterInv(u)
  BY DEF OpenOutput, At, SoloInv
<1>2. /\ op[u].kind = "edit" /\ k[u] = 0 /\ part[u] = 0
      /\ MapRight(u) /\ MapEdited(u)
  BY <1>1 DEF UpdaterInv
<1>3. /\ pos' = [pos EXCEPT ![u] = 1] /\ Goto(u, "write")
      /\ UNCHANGED <<op, in, map, k, part>>
  BY <1>2 DEF OpenOutput
<1>4. pc'[u] = "write" /\ pos'[u] = 1
  BY <1>3 DEF Goto, TypeOK, Shape
<1>5. /\ names'.archive = names.archive /\ names'.temp # names.archive
      /\ names'.temp = out'[u] /\ data'[out'[u]] \in Seq(Cells)
      /\ \A i \in 1..Len(data) : data'[i] = data[i]
  <2>1. CASE names.temp # 0
    <3>1. out' = [out EXCEPT ![u] = names.temp] /\ UNCHANGED <<data, names>>
      BY <1>2, <2>1 DEF OpenOutput
    <3>2. names.temp \in 1..Len(data)
      BY <2>1 DEF TypeOK, Shape, NoDangling
    <3>3. out'[u] = names.temp /\ data[names.temp] \in Seq(Cells)
      BY <3>1, <3>2 DEF TypeOK, Shape
    <3>4. names.temp # names.archive
      BY ArchiveFacts
    <3> QED BY <3>1, <3>3, <3>4
  <2>2. CASE names.temp = 0
    <3>1. NewFile("temp") /\ out' = [out EXCEPT ![u] = Len(data) + 1]
      BY <1>2, <2>2 DEF OpenOutput
    <3>2. /\ names'.temp = Len(data) + 1 /\ names'.archive = names.archive
          /\ data'[Len(data) + 1] = <<>> /\ Len(data) \in Nat
          /\ \A i \in 1..Len(data) : data'[i] = data[i]
      BY <3>1, NewFileType
    <3>3. out'[u] = Len(data) + 1
      BY <3>1 DEF TypeOK, Shape
    <3>4. names.archive # Len(data) + 1 /\ <<>> \in Seq(Cells)
      BY <3>2, ArchiveFacts
    <3> QED BY <3>2, <3>3, <3>4
  <2> QED BY <2>1, <2>2
<1>6. in[u] = names.archive /\ data'[names.archive] = data[names.archive]
  BY <1>2, <1>5, ArchiveFacts DEF MapRight
<1>7. ArchiveThere'
  BY <1>5, <1>6, ArchiveFacts DEF ArchiveThere
<1>8. MapRight(u)'
  BY <1>2, <1>3, <1>5, <1>6 DEF MapRight
<1>9. MapEdited(u)'
  <2>1. Adds(u)' = Adds(u)
    BY <1>3 DEF Adds
  <2> QED BY <1>2, <1>3, <2>1 DEF MapEdited
<1>10. NewVersion(u, Output(u))'
  <2>1. Len(<<>>) + 1 = 1 /\ 0 <= Len(map[u]) + 1 /\ 0 <= Len(data'[out'[u]])
    BY <1>5 DEF TypeOK, Shape
  <2>2. Output(u)' = <<>>
    <3>1. PICK d \in Seq(Cells) : d = data'[out'[u]]
      BY <1>5
    <3>2. SubSeq(d, 1, 1 - 1) = <<>>
      OBVIOUS
    <3> QED BY <1>4, <3>1, <3>2 DEF Output
  <2> QED BY <1>2, <1>3, <1>4, <1>5, <2>1, <2>2 DEF NewVersion
<1>11. UpdaterInv(u)'
  BY <1>2, <1>3, <1>4, <1>8, <1>9, <1>10 DEF UpdaterInv
<1> QED BY <1>7, <1>11, OnlyOne

(* A cell written at the end of the output, over a stale cell or behind all. *)
LEMMA PutOutput ==
  ASSUME NEW f \in Seq(Cells), NEW p \in Nat, p <= Len(f), NEW x \in Cells, NEW g,
         g = IF p + 1 <= Len(f) THEN [f EXCEPT ![p + 1] = x] ELSE Append(f, x)
  PROVE  /\ g \in Seq(Cells) /\ p + 1 <= Len(g)
         /\ SubSeq(g, 1, p + 1) = Append(SubSeq(f, 1, p), x)
<1>1. /\ g \in Seq(Cells) /\ Len(g) \in Nat /\ p + 1 <= Len(g) /\ g[p + 1] = x
      /\ \A i \in 1..p : g[i] = f[i]
  <2>1. CASE p + 1 <= Len(f)
    BY <2>1
  <2>2. CASE ~(p + 1 <= Len(f))
    <3>1. Len(f) = p
      BY <2>2
    <3> QED BY <2>2, <3>1
  <2> QED BY <2>1, <2>2
<1>2. PICK s : s = SubSeq(f, 1, p)
  OBVIOUS
<1>3. PICK q \in Nat : q = p + 1
  OBVIOUS
<1>4. PICK w : w = SubSeq(g, 1, q)
  OBVIOUS
<1>5. s \in Seq(Cells) /\ Len(s) = p /\ \A i \in 1..p : s[i] = f[i]
  BY <1>2
<1>6. w \in Seq(Cells) /\ Len(w) = q /\ \A i \in 1..q : w[i] = g[i]
  BY <1>1, <1>3, <1>4
<1>7. PICK v \in Seq(Cells) : v = Append(s, x)
  <2>1. Append(s, x) \in Seq(Cells)
    BY <1>5
  <2> QED BY <2>1
<1>8. Len(v) = q /\ \A i \in 1..q : v[i] = w[i]
  BY <1>1, <1>3, <1>5, <1>6, <1>7
<1>9. v = w
  BY <1>6, <1>7, <1>8
<1> QED BY <1>1, <1>2, <1>3, <1>4, <1>7, <1>9

(* The next cell of a member is that member's: the blocks of the old         *)
(* archive are where the map says.                                           *)
LEMMA NextCellRight ==
  ASSUME TypeOK, SoloInv, NEW u \in Updaters, pc[u] = "write",
         k[u] # 0, k[u] <= Len(map[u])
  PROVE  /\ k[u] \in 1..Len(map[u]) /\ map[u][k[u]].mem \in Members
         /\ part[u] \in 0..Size(map[u][k[u]].mem)
         /\ NextCell(u) = Cell(map[u][k[u]].mem, part[u])
<1>1. k[u] \in 1..Len(map[u]) /\ part[u] \in Nat /\ map[u] \in Seq(Elems)
  BY DEF TypeOK, Shape
<1>2. map[u][k[u]] \in Elems
  BY <1>1
<1>3. map[u][k[u]].mem \in Members /\ map[u][k[u]].off \in Nat
      /\ Size(map[u][k[u]].mem) \in Nat
  BY <1>2, MemberAssumption DEF Elems
<1>4. UpdaterInv(u)
  BY DEF SoloInv
<1>5. MapRight(u) /\ NewVersion(u, Output(u))
  BY <1>4 DEF UpdaterInv
<1>6. part[u] <= Size(map[u][k[u]].mem)
  BY <1>1, <1>3, <1>5 DEF NewVersion, Written
<1>7. CASE FromOld(u)
  <2>1. MemberIn(data[in[u]], map[u][k[u]])
    BY <1>1, <1>5, <1>7 DEF MapRight, FromOld
  <2>2. data[in[u]][OldPos(u)] = Cell(map[u][k[u]].mem, part[u])
    <3>1. part[u] \in 0..Size(map[u][k[u]].mem)
      BY <1>1, <1>3, <1>6
    <3> QED BY <2>1, <3>1 DEF MemberIn, OldPos
  <2> QED BY <1>1, <1>3, <1>6, <1>7, <2>2 DEF NextCell
<1>8. CASE ~FromOld(u)
  BY <1>1, <1>3, <1>6, <1>8 DEF NextCell
<1> QED BY <1>7, <1>8

(* One write adds a cell that may follow the last. *)
LEMMA WriteSolo ==
  ASSUME Solo, TypeOK, SoloInv, NEW u \in Updaters, Write(u)
  PROVE  SoloInv'
<1>1. pc[u] = "write" /\ UpdaterInv(u) /\ k[u] <= Len(map[u])
  BY DEF Write, At, SoloInv
<1>2. CASE Quit(u, "failed")
  BY <1>1, <1>2, QuitSolo
<1>3. CASE ~Quit(u, "failed")
  <2>1. /\ ~ShortRead(u)
        /\ data' = [data EXCEPT ![out[u]] = Put(u, data[out[u]])]
        /\ pos' = [pos EXCEPT ![u] = pos[u] + 1]
        /\ LET last == k[u] = 0 \/ part[u] = Size(map[u][k[u]].mem)
           IN  /\ k' = [k EXCEPT ![u] = IF last THEN k[u] + 1 ELSE k[u]]
               /\ part' = [part EXCEPT ![u] = IF last THEN 0 ELSE part[u] + 1]
        /\ UNCHANGED <<names, pc, op, in, map, out>>
    BY <1>3 DEF Write
  <2>2. /\ op[u].kind = "edit" /\ MapRight(u) /\ MapEdited(u)
        /\ NewVersion(u, Output(u))
    BY <1>1 DEF UpdaterInv
  <2>20. /\ data[out[u]] \in Seq(Cells) /\ out[u] \in 1..Len(data) /\ pos[u] \in Nat
         /\ pos[u] # 0
    BY <1>1 DEF TypeOK, Shape, NoDangling
  <2>21. PICK p \in Nat : p = pos[u] - 1 /\ p + 1 = pos[u]
    BY <2>20
  <2>22. p <= Len(data[out[u]])
    BY <2>2, <2>20, <2>21 DEF NewVersion
  <2>3. PICK c \in Seq(Cells) : c = Output(u)
    <3>1. SubSeq(data[out[u]], 1, p) \in Seq(Cells)
      BY <2>20, <2>22
    <3> QED BY <2>21, <3>1 DEF Output
  <2>4. PICK x \in Cells : x = NextCell(u)
    BY <1>1, <2>1, NextCellType DEF At
  <2>5. PICK d \in Seq(Cells) : d = Append(c, x)
    <3>1. Append(c, x) \in Seq(Cells)
      OBVIOUS
    <3> QED BY <3>1
  <2>6. /\ Len(c) \in Nat /\ Len(d) = Len(c) + 1 /\ d[Len(c) + 1] = x
        /\ \A i \in 1..Len(c) : d[i] = c[i]
        /\ \A i \in 1..Len(d) : i \in 1..Len(c) \/ i = Len(c) + 1
    BY <2>3, <2>4, <2>5
  <2>7. NewVersion(u, c)
    BY <2>2, <2>3
  <2>8. /\ names.temp = out[u] /\ pos[u] = Len(c) + 1
        /\ k[u] = 0 => c = <<>> /\ part[u] = 0
        /\ k[u] # 0 => Chain(c) /\ Written(u, c)
    BY <2>7 DEF NewVersion
  <2>9. PICK g : g = Put(u, data[out[u]])
    OBVIOUS
  <2>23. /\ g \in Seq(Cells) /\ p + 1 <= Len(g)
         /\ SubSeq(g, 1, p + 1) = d
    <3>1. g = IF p + 1 <= Len(data[out[u]]) THEN [data[out[u]] EXCEPT ![p + 1] = x]
              ELSE Append(data[out[u]], x)
      BY <2>2, <2>4, <2>9, <2>21 DEF Put
    <3>2. c = SubSeq(data[out[u]], 1, p)
      BY <2>3, <2>21 DEF Output
    <3> QED BY <2>5, <2>20, <2>22, <3>1, <3>2, PutOutput
  <2>10. /\ data'[out[u]] = g
         /\ \A i \in 1..Len(data) : i # out[u] => data'[i] = data[i]
    <3>1. data' = [data EXCEPT ![out[u]] = g]
      BY <2>1, <2>9
    <3> QED BY <2>20, <2>23, <3>1, PutType
  <2>24. pos'[u] = pos[u] + 1 /\ pos'[u] - 1 = p + 1
    BY <2>1, <2>20, <2>21 DEF TypeOK, Shape
  <2>25. Output(u)' = d /\ Len(d) <= Len(data'[out'[u]])
    <3>1. out'[u] = out[u] /\ Len(d) = p + 1
      BY <2>1, <2>6, <2>8, <2>21
    <3> QED BY <2>10, <2>23, <2>24, <3>1 DEF Output
  <2>11. names.archive # out[u] /\ data'[names.archive] = data[names.archive]
    BY <2>8, <2>10, ArchiveFacts
  <2>12. /\ k[u] \in Nat /\ part[u] \in Nat /\ Len(map[u]) \in Nat
         /\ pos'[u] = Len(d) + 1
    BY <2>1, <2>6, <2>8 DEF TypeOK, Shape
  <2>13. ArchiveThere'
    BY <2>1, <2>11, ArchiveFacts DEF ArchiveThere
  <2>14. MapRight(u)'
    BY <2>1, <2>2, <2>11 DEF MapRight
  <2>15. MapEdited(u)'
    <3>1. Adds(u)' = Adds(u)
      BY <2>1 DEF Adds
    <3> QED BY <2>1, <2>2, <3>1 DEF MapEdited
  <2>16. NewVersion(u, d)'
    <3>1. CASE k[u] = 0
      <4>1. k'[u] = 1 /\ part'[u] = 0
        BY <2>1, <3>1 DEF TypeOK, Shape
      <4>2. x = Magic /\ Len(c) = 0
        BY <2>4, <2>8, <3>1 DEF NextCell
      <4>3. Len(d) = 1 /\ d[1] = Magic /\ d # <<>>
        <5>1. Len(d) = 1 /\ d[1] = Magic
          BY <2>6, <4>2
        <5>2. ASSUME d = <<>> PROVE FALSE
          <6>1. Len(d) = 0
            BY <5>2
          <6> QED BY <5>1, <6>1
        <5> QED BY <5>1, <5>2
      <4>4. Chain(d) /\ Complete(d[Len(d)])
        <5>1. 2..1 = {}
          OBVIOUS
        <5> QED BY <4>3, <5>1 DEF Chain, Complete
      <4>5. /\ \A i \in 1..Len(d) : d[i] = Magic
            /\ 1..(k'[u] - 1) = {}
        BY <4>1, <4>3
      <4>6. Written(u, d)'
        BY <4>1, <4>4, <4>5 DEF Written
      <4> QED BY <2>1, <2>8, <2>12, <2>25, <4>1, <4>4, <4>6 DEF NewVersion
    <3>2. CASE k[u] # 0
      <4>1. PICK m \in Members : m = map[u][k[u]].mem
        BY <1>1, <3>2, NextCellRight
      <4>2. /\ x = Cell(m, part[u]) /\ x # Magic /\ x.mem = m /\ x.part = part[u]
            /\ Size(m) \in Nat /\ part[u] <= Size(m) /\ k[u] \in 1..Len(map[u])
        BY <1>1, <2>4, <2>12, <3>2, <4>1, NextCellRight, MemberCell, MemberAssumption
      <4>3. Chain(c) /\ Written(u, c)
        BY <2>8, <3>2
      <4>4. Follows(c[Len(c)], x)
        BY <4>1, <4>2, <4>3 DEF Follows, Written
      <4>5. Chain(d)
        BY <2>5, <4>3, <4>4, ChainAppend
      <4>6. \A i \in 1..Len(d) :
               d[i] = Magic \/ \E j \in 1..Len(map[u]) : d[i].mem = map[u][j].mem
        BY <2>6, <4>1, <4>2, <4>3, SMTT(30) DEF Written
      <4>7. \A j \in 1..(k[u] - 1) : \E i \in 1..Len(d) : d[i].mem = map[u][j].mem
        <5> SUFFICES ASSUME NEW j \in 1..(k[u] - 1)
                     PROVE  \E i \in 1..Len(d) : d[i].mem = map[u][j].mem
          OBVIOUS
        <5>1. PICK i \in 1..Len(c) : c[i].mem = map[u][j].mem
          BY <4>3 DEF Written
        <5>2. i \in 1..Len(d) /\ d[i] = c[i]
          BY <2>6, <5>1
        <5> QED BY <5>1, <5>2
      <4>8. d[Len(d)] = x /\ Len(d) \in 1..Len(d)
        BY <2>6
      <4>9. CASE part[u] = Size(m)
        <5>1. k'[u] = k[u] + 1 /\ part'[u] = 0
          BY <2>1, <4>1, <4>9 DEF TypeOK, Shape
        <5>2. Complete(d[Len(d)])
          BY <4>2, <4>8, <4>9 DEF Complete
        <5>3. \A j \in 1..(k'[u] - 1) : \E i \in 1..Len(d) : d[i].mem = map[u][j].mem
          <6>1. \A j \in 1..(k'[u] - 1) : j \in 1..(k[u] - 1) \/ j = k[u]
            BY <2>12, <5>1
          <6>2. \E i \in 1..Len(d) : d[i].mem = map[u][k[u]].mem
            BY <4>1, <4>2, <4>8
          <6> QED BY <4>7, <6>1, <6>2
        <5>4. Written(u, d)'
          BY <2>1, <4>6, <5>1, <5>2, <5>3 DEF Written
        <5>5. k'[u] <= Len(map[u]) + 1 /\ k'[u] # 0
          BY <2>12, <4>2, <5>1
        <5> QED BY <2>1, <2>8, <2>12, <2>25, <4>5, <5>4, <5>5 DEF NewVersion
      <4>10. CASE part[u] # Size(m)
        <5>1. k'[u] = k[u] /\ part'[u] = part[u] + 1
          BY <2>1, <3>2, <4>1, <4>10 DEF TypeOK, Shape
        <5>2. /\ part'[u] # 0 /\ part'[u] <= Size(m) /\ part'[u] - 1 = part[u]
          <6>1. part[u] \in Nat /\ Size(m) \in Nat /\ part[u] <= Size(m)
            BY <2>12, <4>2
          <6>2. part[u] + 1 # 0 /\ part[u] + 1 <= Size(m) /\ (part[u] + 1) - 1 = part[u]
            BY <4>10, <6>1
          <6> QED BY <5>1, <6>2
        <5>3. Written(u, d)'
          BY <2>1, <4>1, <4>2, <4>6, <4>7, <4>8, <5>1, <5>2 DEF Written
        <5>4. k'[u] <= Len(map[u]) + 1 /\ k'[u] # 0
          BY <2>12, <4>2, <5>1
        <5> QED BY <2>1, <2>8, <2>12, <2>25, <4>5, <5>3, <5>4 DEF NewVersion
      <4> QED BY <4>9, <4>10
    <3> QED BY <3>1, <3>2
  <2>17. NewVersion(u, Output(u))'
    BY <2>16, <2>25
  <2>18. UpdaterInv(u)'
    BY <1>1, <2>1, <2>2, <2>14, <2>15, <2>17 DEF UpdaterInv
  <2> QED BY <2>13, <2>18, OnlyOne
<1> QED BY <1>2, <1>3

(* The new version is complete when it takes the name of the archive, and  *)
(* it is all of the file, unless a stale tail is behind it.                *)
LEMMA RenameSolo ==
  ASSUME Solo, TypeOK, SoloInv, NEW u \in Updaters, Rename(u), ~overhang'
  PROVE  SoloInv'
<1>1. pc[u] = "write" /\ UpdaterInv(u) /\ k[u] > Len(map[u])
  BY DEF Rename, Copied, At, SoloInv
<1>2. CASE Quit(u, "failed")
  BY <1>1, <1>2, QuitSolo
<1>3. CASE ~Quit(u, "failed")
  <2>1. /\ names.temp # 0 /\ names' = [archive |-> names.temp, temp |-> 0]
        /\ Goto(u, "close") /\ UNCHANGED <<data, op>>
        /\ ~(Len(data[names.temp]) >= pos[u])
    BY <1>3 DEF Rename
  <2>2. /\ pc'[u] = "close" /\ names'.archive = names.temp /\ names'.temp = 0
    BY <2>1 DEF Goto, TypeOK, Shape
  <2>3. op[u].kind = "edit" /\ MapEdited(u) /\ NewVersion(u, Output(u))
    BY <1>1 DEF UpdaterInv
  <2>4. PICK c \in Seq(Cells) : c = data[out[u]]
    BY <1>1 DEF TypeOK, Shape, NoDangling
  <2>5. /\ Len(map[u]) \in Nat /\ k[u] \in Nat /\ part[u] \in Nat
        /\ op[u].drop \in SUBSET Members
    BY DEF TypeOK, Shape, OpRecs
  <2>6. NewVersion(u, c)
    <3>0. pos[u] \in Nat /\ pos[u] # 0
      BY <1>1 DEF TypeOK, Shape, NoDangling
    <3>1. PICK p \in Nat : p = pos[u] - 1 /\ p + 1 = pos[u]
      BY <3>0
    <3>2. p <= Len(c) /\ ~(Len(c) >= p + 1) /\ Len(c) \in Nat
      <4>1. names.temp = out[u] /\ pos[u] = Len(Output(u)) + 1 /\ Len(Output(u)) <= Len(c)
        BY <2>3, <2>4 DEF NewVersion
      <4>2. Output(u) = SubSeq(c, 1, p)
        BY <2>4, <3>1 DEF Output
      <4>3. Len(Output(u)) \in Nat
        BY <4>2
      <4> QED BY <2>1, <2>4, <3>1, <4>1, <4>3
    <3>3. SubSeq(c, 1, p) = c
      <4>1. p = Len(c)
        BY <3>2
      <4> QED BY <4>1
    <3>4. Output(u) = c
      BY <2>4, <3>1, <3>3 DEF Output
    <3> QED BY <2>3, <3>4
  <2>7. names.temp = out[u] /\ k[u] <= Len(map[u]) + 1 /\ Chain(c) /\ Written(u, c)
    BY <1>1, <2>5, <2>6 DEF NewVersion
  <2>8. k[u] - 1 = Len(map[u]) /\ ~(k[u] <= Len(map[u]))
    BY <1>1, <2>5, <2>7
  <2>9. Whole(c)
    BY <2>7, <2>8, WholeIsChain DEF Written
  <2>10. data'[names'.archive] = c
    BY <2>1, <2>2, <2>4, <2>7
  <2>11. ArchiveThere'
    BY <2>1, <2>2, <2>9, <2>10 DEF ArchiveThere
  <2>12. \A m : m \in Contents' <=> \E i \in 1..Len(c) : c[i].mem = m
    <3>1. Contents' = {b.mem : b \in {c[i] : i \in DOMAIN c}}
      BY <2>10 DEF Contents
    <3>2. DOMAIN c = 1..Len(c)
      OBVIOUS
    <3> QED BY <3>1, <3>2
  <2>13. Adds(u)' = Adds(u)
    BY <2>1 DEF Adds
  <2>14. HasUpdate(u)'
    <3>1. ASSUME NEW m \in Adds(u) PROVE m \in Contents'
      <4>1. PICK j \in 1..Len(map[u]) : map[u][j].mem = m
        BY <2>3 DEF MapEdited
      <4>2. PICK i \in 1..Len(c) : c[i].mem = map[u][j].mem
        BY <2>7, <2>8 DEF Written
      <4> QED BY <2>12, <4>1, <4>2
    <3>2. ASSUME NEW m \in op[u].drop, m \in Contents' PROVE m \in Adds(u)
      <4>1. PICK i \in 1..Len(c) : c[i].mem = m
        BY <2>12, <3>2
      <4>2. c[i] # Magic
        BY <2>5, <4>1, MemberAssumption DEF Magic, Cell
      <4>3. PICK j \in 1..Len(map[u]) : c[i].mem = map[u][j].mem
        BY <2>7, <4>2 DEF Written
      <4> QED BY <2>3, <4>1, <4>3 DEF MapEdited
    <3> QED BY <2>1, <2>13, <3>1, <3>2 DEF HasUpdate
  <2>15. UpdaterInv(u)'
    BY <2>1, <2>2, <2>3, <2>14 DEF UpdaterInv
  <2> QED BY <2>11, <2>15, OnlyOne
<1> QED BY <1>2, <1>3

(* close_archive. *)
LEMMA CloseSolo ==
  ASSUME Solo, TypeOK, SoloInv, NEW u \in Updaters, CloseArchive(u)
  PROVE  SoloInv'
<1>1. UpdaterInv(u)
  BY DEF SoloInv
<1>2. pc[u] = "close"
  BY <1>1 DEF CloseArchive, Copied, At, UpdaterInv
<1>3. Quit(u, "done") /\ HasUpdate(u)
  BY <1>1, <1>2 DEF CloseArchive, UpdaterInv
<1> QED BY <1>2, <1>3, QuitSolo

(* A kill between two system calls. *)
LEMMA KillSolo ==
  ASSUME Solo, TypeOK, SoloInv, NEW u \in Updaters, Kill(u)
  PROVE  SoloInv'
<1>1. pc[u] # "idle" /\ Quit(u, "killed")
  BY DEF Kill, Running
<1> QED BY <1>1, QuitSolo

(* Steps that leave the files and the updaters alone. *)
LEMMA UnchangedSolo ==
  ASSUME SoloInv, UNCHANGED <<fileVars, updVars>>
  PROVE  SoloInv'
<1>1. UNCHANGED <<data, names, pc, op, in, map, pos, out, k, part>>
  BY DEF fileVars, updVars
<1>2. ArchiveThere'
  BY <1>1 DEF SoloInv, ArchiveThere
<1>3. ASSUME NEW u \in Updaters PROVE UpdaterInv(u)'
  <2>1. UpdaterInv(u)
    BY DEF SoloInv
  <2>2. /\ MapRight(u) => MapRight(u)'
        /\ MapEdited(u) => MapEdited(u)'
        /\ HasUpdate(u) => HasUpdate(u)'
    BY <1>1 DEF MapRight, MapEdited, HasUpdate, Adds, Contents
  <2>3. NewVersion(u, Output(u)) => NewVersion(u, Output(u))'
    <3>1. Output(u)' = Output(u)
      BY <1>1 DEF Output
    <3> QED BY <1>1, <3>1 DEF NewVersion, Written
  <2> QED BY <1>1, <2>1, <2>2, <2>3 DEF UpdaterInv
<1> QED BY <1>2, <1>3 DEF SoloInv

(* Every step keeps SoloInv, unless it installs a stale tail. *)
LEMMA NextSolo ==
  ASSUME Solo, TypeOK, SoloInv, [Next]_vars, ~overhang'
  PROVE  SoloInv'
<1>1. ASSUME NEW u \in Updaters, Step(u) PROVE SoloInv'
  <2>1. ~CreateArchive(u) /\ ~WriteMagic(u)
    BY DEF CreateArchive, WriteMagic, At, SoloInv, UpdaterInv
  <2> QED BY <1>1, <2>1, BeginSolo, ScanOpenSolo, ScanMemberSolo, OpenArchiveSolo,
             TakeLockSolo, OpenOutputSolo, WriteSolo, RenameSolo, CloseSolo DEF Step
<1>2. ASSUME NEW u \in Updaters, Kill(u) PROVE SoloInv'
  BY <1>2, KillSolo
<1>3. ASSUME NEW r \in Readers,
             OpenStream(r) \/ ReadOpen(r) \/ ReadMember(r) \/ ExtractNamed(r)
      PROVE  SoloInv'
  BY <1>3, ReadersOnly, UnchangedSolo
<1>4. CASE UNCHANGED vars
  BY <1>4, UnchangedSolo DEF vars
<1> QED BY <1>1, <1>2, <1>3, <1>4 DEF Next, Finished

(* A stale tail, once installed, is not forgotten. *)
LEMMA OverhangStays ==
  ASSUME [Next]_vars, overhang
  PROVE  overhang'
<1>1. ASSUME NEW u \in Updaters, Step(u) \/ Kill(u) PROVE overhang'
  <2>1. CASE Rename(u)
    BY <2>1 DEF Rename, Quit
  <2>2. CASE ~Rename(u)
    BY <1>1, <2>2 DEF Step, Kill, Begin, ScanOpen, ScanMember, OpenArchive, CreateArchive,
       WriteMagic, TakeLock, OpenOutput, Write, CloseArchive, Quit, fileVars
  <2> QED BY <2>1, <2>2
<1>2. CASE UNCHANGED fileVars
  BY <1>2 DEF fileVars
<1>3. ASSUME NEW r \in Readers,
             OpenStream(r) \/ ReadOpen(r) \/ ReadMember(r) \/ ExtractNamed(r)
      PROVE  overhang'
  BY <1>2, <1>3, ReadersOnly
<1>4. CASE UNCHANGED vars
  BY <1>2, <1>4 DEF vars
<1> QED BY <1>1, <1>3, <1>4 DEF Next, Finished

(* SoloInv is inductive until a stale tail is installed, given TypeOK. *)
THEOREM SoloInvariant ==
  ASSUME Solo
  PROVE  Spec => [](~overhang => SoloInv)
<1>1. Init => SoloInv
  BY InitSolo
<1>2. TypeOK /\ (~overhang => SoloInv) /\ [Next]_vars => (~overhang => SoloInv)'
  BY NextSolo, OverhangStays
<1> QED BY <1>1, <1>2, TypeInvariant, PTL DEF Spec

(* "we use `rename' to update the whole file atomically": while one          *)
(* invocation at a time updates the archive, it is ARMAG followed by whole   *)
(* members, through every kill and over every temporary file that a kill     *)
(* left, until a run installs one that is longer than its own output.        *)
THEOREM ArchiveWholeTheorem ==
  ASSUME Solo
  PROVE  Spec => []ArchiveWhole
<1>1. (~overhang => SoloInv) => ArchiveWhole
  BY DEF SoloInv, ArchiveThere, ArchiveWhole, ArchiveAtomic
<1> QED BY <1>1, SoloInvariant, PTL

(* An update that has ended is in the archive: what it adds is there, and of *)
(* what it drops only what it adds again (replace_members, delete_members),  *)
(* until a stale tail is installed.                                          *)
THEOREM UpdateKeptTheorem ==
  ASSUME Solo
  PROVE  Spec => []UpdateKept
<1>1. (~overhang => SoloInv) => UpdateKept
  BY DEF SoloInv, UpdaterInv, HasUpdate, At, UpdateKept
<1> QED BY <1>1, SoloInvariant, PTL
-----------------------------------------------------------------------------
(***************************************************************************)
(* Only the temporary file is written, and its number is of no file that   *)
(* was the archive, stale tails or not.                                    *)
(***************************************************************************)
LEMMA InitFiles ==
  ASSUME Solo, Init
  PROVE  FilesInv
<1>1. SoloInv
  BY InitSolo
<1>2. \A u \in Updaters : pc[u] = "idle"
  BY DEF Init
<1> QED BY <1>1, <1>2 DEF SoloInv, ArchiveThere, FilesInv

(* One updater's place, the names and its output are all it depends on. *)
LEMMA FilesStep ==
  ASSUME Solo, NEW u \in Updaters, names'.archive # 0, names'.archive # names'.temp,
         pc'[u] \notin {"create", "magic"}, pc'[u] # "idle" => op'[u].kind = "edit",
         pc'[u] = "write" => names'.temp = out'[u]
  PROVE  FilesInv'
<1>1. \A v \in Updaters : v = u
  BY DEF Solo
<1> QED BY <1>1 DEF FilesInv

(* Every step keeps FilesInv. *)
LEMMA NextFiles ==
  ASSUME Solo, TypeOK, FilesInv, [Next]_vars
  PROVE  FilesInv'
<1>0. names \in [archive : Nat, temp : Nat] /\ Len(data) \in Nat
      /\ names.archive <= Len(data) /\ names.archive # 0 /\ names.archive # names.temp
  BY DEF TypeOK, Shape, NoDangling, FilesInv
<1>1. ASSUME NEW u \in Updaters, pc[u] # "idle",
             NEW how \in {"done", "failed", "killed"}, Quit(u, how)
      PROVE  FilesInv'
  <2>1. pc'[u] = how /\ UNCHANGED <<names, op>>
    BY <1>1 DEF Quit, Goto, TypeOK, Shape
  <2> QED BY <1>0, <1>1, <2>1, FilesStep DEF FilesInv
<1>2. ASSUME NEW u \in Updaters, Step(u) PROVE FilesInv'
  <2>1. /\ pc[u] \notin {"create", "magic"}
        /\ pc[u] # "idle" => op[u].kind = "edit"
        /\ pc[u] = "write" => names.temp = out[u]
    BY DEF FilesInv
  <2>2. CASE Begin(u)
    <3>1. PICK o \in Ops :
            /\ op' = [op EXCEPT ![u] = o]
            /\ Goto(u, IF o.kind = "quick" THEN "open" ELSE "fopen")
      BY <2>2 DEF Begin
    <3>2. o.kind = "edit"
      BY DEF Solo
    <3>3. pc'[u] = "fopen" /\ op'[u] = o /\ UNCHANGED names
      BY <2>2, <3>1, <3>2 DEF Begin, fileVars, Goto, TypeOK, Shape
    <3> QED BY <1>0, <3>2, <3>3, FilesStep
  <2>3. CASE ScanOpen(u)
    <3>1. CASE Quit(u, "failed")
      BY <1>1, <2>3, <3>1 DEF ScanOpen, At
    <3>2. CASE ~Quit(u, "failed")
      <4>1. pc[u] = "fopen" /\ pc'[u] \in {"open", "scan"} /\ UNCHANGED <<names, op>>
        BY <2>3, <3>2 DEF ScanOpen, Goto, fileVars, At, TypeOK, Shape
      <4> QED BY <1>0, <2>1, <4>1, FilesStep
    <3> QED BY <3>1, <3>2
  <2>4. CASE ScanMember(u)
    <3>1. CASE Quit(u, "failed")
      BY <1>1, <2>4, <3>1 DEF ScanMember, At
    <3>2. CASE ~Quit(u, "failed")
      <4>1. pc[u] = "scan" /\ pc'[u] \in {"open", "scan"} /\ UNCHANGED <<names, op>>
        BY <2>4, <3>2 DEF ScanMember, Goto, fileVars, At, TypeOK, Shape
      <4> QED BY <1>0, <2>1, <4>1, FilesStep
    <3> QED BY <3>1, <3>2
  <2>5. CASE OpenArchive(u)
    <3>1. pc[u] = "open" /\ pc'[u] = "lock" /\ UNCHANGED <<names, op>>
      BY <1>0, <2>5 DEF OpenArchive, Goto, fileVars, At, TypeOK, Shape
    <3> QED BY <1>0, <2>1, <3>1, FilesStep
  <2>6. ~CreateArchive(u) /\ ~WriteMagic(u)
    BY <2>1 DEF CreateArchive, WriteMagic, At
  <2>7. CASE TakeLock(u)
    <3>1. pc[u] = "lock" /\ pc'[u] = "output" /\ UNCHANGED <<names, op>>
      BY <2>7 DEF TakeLock, Goto, At, TypeOK, Shape
    <3> QED BY <1>0, <2>1, <3>1, FilesStep
  <2>8. CASE OpenOutput(u)
    <3>1. pc[u] = "output" /\ pc'[u] = "write" /\ op[u].kind = "edit" /\ UNCHANGED op
      BY <2>1, <2>8 DEF OpenOutput, Goto, At, TypeOK, Shape
    <3>2. /\ names'.archive = names.archive /\ names'.temp # names.archive
          /\ names'.temp = out'[u]
      <4>1. CASE names.temp # 0
        BY <1>0, <2>8, <3>1, <4>1 DEF OpenOutput, TypeOK, Shape
      <4>2. CASE names.temp = 0
        <5>1. NewFile("temp") /\ out' = [out EXCEPT ![u] = Len(data) + 1]
          BY <2>8, <3>1, <4>2 DEF OpenOutput
        <5>2. names'.temp = Len(data) + 1 /\ names'.archive = names.archive
          BY <5>1, NewFileType
        <5>3. out'[u] = Len(data) + 1
          BY <5>1 DEF TypeOK, Shape
        <5> QED BY <1>0, <5>2, <5>3
      <4> QED BY <4>1, <4>2
    <3> QED BY <1>0, <3>1, <3>2, FilesStep
  <2>9. CASE Write(u)
    <3>1. CASE Quit(u, "failed")
      BY <1>1, <2>9, <3>1 DEF Write, At
    <3>2. CASE ~Quit(u, "failed")
      <4>1. UNCHANGED <<names, op, pc, out>>
        BY <2>9, <3>2 DEF Write
      <4> QED BY <1>0, <2>1, <4>1, FilesStep
    <3> QED BY <3>1, <3>2
  <2>10. CASE Rename(u)
    <3>1. CASE Quit(u, "failed")
      BY <1>1, <2>10, <3>1 DEF Rename, Copied, At
    <3>2. CASE ~Quit(u, "failed")
      <4>1. /\ pc'[u] = "close" /\ UNCHANGED op /\ op[u].kind = "edit"
            /\ names.temp # 0 /\ names' = [archive |-> names.temp, temp |-> 0]
        BY <2>10, <3>2 DEF Rename, Goto, TypeOK, Shape
      <4> QED BY <4>1, FilesStep
    <3> QED BY <3>1, <3>2
  <2>11. CASE CloseArchive(u)
    BY <1>1, <2>11 DEF CloseArchive, Copied, At
  <2> QED BY <1>2, <2>2, <2>3, <2>4, <2>5, <2>6, <2>7, <2>8, <2>9, <2>10, <2>11 DEF Step
<1>3. ASSUME NEW u \in Updaters, Kill(u) PROVE FilesInv'
  BY <1>1, <1>3 DEF Kill, Running
<1>4. CASE UNCHANGED <<fileVars, updVars>>
  BY <1>4 DEF fileVars, updVars, FilesInv
<1>5. ASSUME NEW r \in Readers,
             OpenStream(r) \/ ReadOpen(r) \/ ReadMember(r) \/ ExtractNamed(r)
      PROVE  FilesInv'
  BY <1>4, <1>5, ReadersOnly
<1>6. CASE UNCHANGED vars
  BY <1>4, <1>6 DEF vars
<1> QED BY <1>2, <1>3, <1>5, <1>6 DEF Next, Finished

(* FilesInv is inductive, given TypeOK. *)
THEOREM FilesInvariant ==
  ASSUME Solo
  PROVE  Spec => []FilesInv
<1>1. Init => FilesInv
  BY InitFiles
<1>2. TypeOK /\ FilesInv /\ [Next]_vars => FilesInv'
  BY NextFiles
<1> QED BY <1>1, <1>2, TypeInvariant, PTL DEF Spec

FilesKept ==
  /\ Len(data) <= Len(data')
  /\ \A i \in 1..Len(data) : i # names.temp => i # names'.temp /\ data'[i] = data[i]

(* No step changes a version that is or was the archive. *)
LEMMA NextFilesKept ==
  ASSUME TypeOK, FilesInv, [Next]_vars
  PROVE  FilesKept
<1>1. Len(data) \in Nat /\ names \in [archive : Nat, temp : Nat]
  BY DEF TypeOK, Shape
<1>2. CASE UNCHANGED data /\ names'.temp \in {0, names.temp}
  BY <1>1, <1>2 DEF FilesKept
<1>3. ASSUME NEW u \in Updaters, Step(u) PROVE FilesKept
  <2>1. /\ pc[u] \notin {"create", "magic"}
        /\ pc[u] # "idle" => op[u].kind = "edit"
        /\ pc[u] = "write" => names.temp = out[u]
    BY DEF FilesInv
  <2>2. CASE OpenOutput(u)
    <3>1. op[u].kind = "edit"
      BY <2>1, <2>2 DEF OpenOutput, At
    <3>2. CASE names.temp # 0
      BY <1>2, <2>2, <3>1, <3>2 DEF OpenOutput
    <3>3. CASE names.temp = 0
      <4>1. NewFile("temp")
        BY <2>2, <3>1, <3>3 DEF OpenOutput
      <4>2. /\ names'.temp = Len(data) + 1 /\ Len(data') = Len(data) + 1
            /\ \A i \in 1..Len(data) : data'[i] = data[i]
        BY <4>1, NewFileType
      <4> QED BY <1>1, <4>2 DEF FilesKept
    <3> QED BY <3>2, <3>3
  <2>3. CASE Write(u)
    <3>1. CASE Quit(u, "failed")
      BY <1>2, <3>1 DEF Quit
    <3>2. CASE ~Quit(u, "failed")
      <4>1. /\ pc[u] = "write" /\ k[u] <= Len(map[u]) /\ ~ShortRead(u) /\ UNCHANGED names
            /\ data' = [data EXCEPT ![out[u]] = Put(u, data[out[u]])]
        BY <2>3, <3>2 DEF Write, At
      <4>2. out[u] = names.temp
        BY <2>1, <4>1
      <4>3. Len(data') = Len(data) /\ \A i \in 1..Len(data) : i # out[u] => data'[i] = data[i]
        BY <4>1 DEF TypeOK, Shape
      <4> QED BY <1>1, <4>1, <4>2, <4>3 DEF FilesKept
    <3> QED BY <3>1, <3>2
  <2>4. CASE Rename(u)
    BY <1>1, <1>2, <2>4 DEF Rename, Quit
  <2>5. ~CreateArchive(u) /\ ~WriteMagic(u)
    BY <2>1 DEF CreateArchive, WriteMagic, At
  <2>6. CASE UNCHANGED <<data, names>>
    BY <1>2, <2>6
  <2> QED BY <1>3, <2>2, <2>3, <2>4, <2>5, <2>6
          DEF Step, Begin, ScanOpen, ScanMember, OpenArchive, TakeLock, CloseArchive,
              Quit, fileVars
<1>4. ASSUME NEW u \in Updaters, Kill(u) PROVE FilesKept
  BY <1>2, <1>4 DEF Kill, Quit
<1>5. CASE UNCHANGED <<fileVars, updVars>>
  BY <1>2, <1>5 DEF fileVars
<1>6. ASSUME NEW r \in Readers,
             OpenStream(r) \/ ReadOpen(r) \/ ReadMember(r) \/ ExtractNamed(r)
      PROVE  FilesKept
  BY <1>5, <1>6, ReadersOnly
<1>7. CASE UNCHANGED vars
  BY <1>5, <1>7 DEF vars
<1> QED BY <1>3, <1>4, <1>6, <1>7 DEF Next, Finished

(* The file that is the archive is never changed in place while one          *)
(* invocation at a time updates it (write_archive writes another file), with *)
(* or without a stale temporary file.                                        *)
THEOREM NeverOverwrittenTheorem ==
  ASSUME Solo
  PROVE  Spec => NeverOverwritten
<1>1. TypeOK /\ FilesInv /\ [Next]_vars => [InPlace]_vars
  <2> SUFFICES ASSUME TypeOK, FilesInv, [Next]_vars PROVE InPlace
    OBVIOUS
  <2>1. FilesKept
    BY NextFilesKept
  <2>2. names.archive \in 1..Len(data) /\ names.archive # names.temp
    BY DEF TypeOK, Shape, NoDangling, FilesInv
  <2>3. data'[names.archive] = data[names.archive] /\ data[names.archive] \in Seq(Cells)
    BY <2>1, <2>2 DEF FilesKept, TypeOK, Shape
  <2>4. /\ Len(data'[names.archive]) >= Len(data[names.archive])
        /\ SubSeq(data'[names.archive], 1, Len(data[names.archive])) = data[names.archive]
    BY <2>3, AppendKeeps
  <2> QED BY <2>4 DEF InPlace
<1> QED BY <1>1, TypeInvariant, FilesInvariant, PTL DEF Spec, NeverOverwritten
-----------------------------------------------------------------------------
(***************************************************************************)
(* Readers that name no members: they scan the file they have open.        *)
(***************************************************************************)
LEMMA InitReaders == Init => ReadersInv
BY DEF Init, ReadersInv, ReaderInv

(* Steps of others leave the file a reader has open as it was. *)
LEMMA OthersReaders ==
  ASSUME TypeOK, ReadersInv, FilesKept, UNCHANGED readVars
  PROVE  ReadersInv'
<1>1. UNCHANGED <<rpc, stream, rin, rpos, got>>
  BY DEF readVars
<1>2. ASSUME NEW r \in Readers PROVE ReaderInv(r)'
  <2>1. ReaderInv(r)
    BY DEF ReadersInv
  <2>2. ASSUME rpc[r] \in {"fopen", "scan"}
        PROVE  /\ stream[r] \in 1..Len(data') /\ stream[r] # names'.temp
               /\ data'[stream[r]] = data[stream[r]]
    <3>1. stream[r] \in 1..Len(data) /\ stream[r] # names.temp
      BY <2>1, <2>2 DEF ReaderInv
    <3>2. Len(data) \in Nat /\ Len(data) <= Len(data')
      BY DEF FilesKept, TypeOK, Shape
    <3> QED BY <3>1, <3>2 DEF FilesKept
  <2> QED BY <1>1, <2>1, <2>2 DEF ReaderInv
<1> QED BY <1>1, <1>2 DEF ReadersInv

(* A step of one reader leaves the others alone. *)
LEMMA OneReader ==
  ASSUME ReadersInv, NEW r \in Readers, UNCHANGED <<data, names>>, ReaderInv(r)',
         rpc' \in [Readers -> {"idle", "none", "fopen", "scan", "done"}],
         stream' \in [Readers -> Nat], rin' \in [Readers -> Nat], rpos' \in [Readers -> Nat],
         got' = [q \in Readers |-> got'[q]],
         \A q \in Readers : q # r =>
           /\ rpc'[q] = rpc[q] /\ stream'[q] = stream[q] /\ rin'[q] = rin[q]
           /\ rpos'[q] = rpos[q] /\ got'[q] = got[q]
  PROVE  ReadersInv'
<1>1. ASSUME NEW q \in Readers, q # r PROVE ReaderInv(q)'
  <2>1. ReaderInv(q)
    BY DEF ReadersInv
  <2>2. /\ rpc'[q] = rpc[q] /\ stream'[q] = stream[q] /\ rin'[q] = rin[q]
        /\ rpos'[q] = rpos[q] /\ got'[q] = got[q]
    BY <1>1
  <2> QED BY <2>1, <2>2 DEF ReaderInv
<1> QED BY <1>1 DEF ReadersInv

(* A reader opens the version that is the archive. *)
LEMMA OpenStreamReaders ==
  ASSUME TypeOK, SoloInv, ReadersInv, NEW r \in Readers, OpenStream(r)
  PROVE  ReadersInv'
<1>1. /\ stream' = [stream EXCEPT ![r] = names.archive] /\ rpc' = [rpc EXCEPT ![r] = "fopen"]
      /\ UNCHANGED <<data, names, rin, rpos, got>>
  BY ArchiveFacts DEF OpenStream, Rgoto, fileVars
<1>2. /\ rpc \in [Readers -> {"idle", "none", "fopen", "scan", "done"}]
      /\ stream \in [Readers -> Nat] /\ rin \in [Readers -> Nat] /\ rpos \in [Readers -> Nat]
      /\ got = [q \in Readers |-> got[q]]
  BY DEF ReadersInv
<1>3. /\ names.archive \in 1..Len(data) /\ names.archive # names.temp
      /\ names.archive \in Nat /\ Whole(data[names.archive])
  BY ArchiveFacts
<1>4. rpc'[r] = "fopen" /\ stream'[r] = names.archive
  BY <1>1, <1>2
<1>5. ReaderInv(r)'
  <2>1. \A g \in got[r] : g.cells = [i \in 1..Size(g.mem) |-> Cell(g.mem, i)]
    BY DEF ReadersInv, ReaderInv
  <2> QED BY <1>1, <1>3, <1>4, <2>1 DEF ReaderInv
<1>6. /\ rpc' \in [Readers -> {"idle", "none", "fopen", "scan", "done"}]
      /\ stream' \in [Readers -> Nat]
      /\ \A q \in Readers : q # r => rpc'[q] = rpc[q] /\ stream'[q] = stream[q]
  BY <1>1, <1>2, <1>3
<1>7. got' = [q \in Readers |-> got'[q]] /\ rin' \in [Readers -> Nat] /\ rpos' \in [Readers -> Nat]
  BY <1>1, <1>2
<1> QED BY <1>1, <1>5, <1>6, <1>7, OneReader

(* A reader checks ARMAG. *)
LEMMA ReadOpenReaders ==
  ASSUME ~Named, TypeOK, SoloInv, ReadersInv, NEW r \in Readers, ReadOpen(r)
  PROVE  ReadersInv'
<1>1. /\ rpc \in [Readers -> {"idle", "none", "fopen", "scan", "done"}]
      /\ stream \in [Readers -> Nat] /\ rin \in [Readers -> Nat] /\ rpos \in [Readers -> Nat]
      /\ got = [q \in Readers |-> got[q]]
      /\ ReaderInv(r) /\ rpc[r] = "fopen"
  BY DEF ReadersInv, ReadOpen
<1>2. /\ stream[r] \in 1..Len(data) /\ stream[r] # names.temp /\ Whole(data[stream[r]])
      /\ stream[r] \in Nat /\ data[stream[r]] \in Seq(Cells)
  BY <1>1 DEF ReaderInv, TypeOK, Shape
<1>3. ~BadMagic(stream[r])
  BY <1>2 DEF BadMagic, Whole
<1>4. /\ rin' = [rin EXCEPT ![r] = stream[r]] /\ rpc' = [rpc EXCEPT ![r] = "scan"]
      /\ rpos' = [rpos EXCEPT ![r] = 2] /\ UNCHANGED <<data, names, stream, got>>
  BY <1>3 DEF ReadOpen, Rgoto, fileVars
<1>5. rpc'[r] = "scan" /\ rin'[r] = stream[r] /\ rpos'[r] = 2
  BY <1>1, <1>4
<1>6. Boundary(data[stream[r]], 2)
  <2>1. 2 \in 2..(Len(data[stream[r]]) + 1) /\ 2 - 1 = 1
    BY <1>2 DEF Whole
  <2>2. Complete(data[stream[r]][1])
    BY <1>2 DEF Whole, Complete
  <2> QED BY <2>1, <2>2 DEF Boundary
<1>7. ReaderInv(r)'
  <2>1. \A g \in got[r] : g.cells = [i \in 1..Size(g.mem) |-> Cell(g.mem, i)]
    BY <1>1 DEF ReaderInv
  <2> QED BY <1>2, <1>4, <1>5, <1>6, <2>1 DEF ReaderInv
<1>8. /\ rpc' \in [Readers -> {"idle", "none", "fopen", "scan", "done"}]
      /\ rin' \in [Readers -> Nat] /\ rpos' \in [Readers -> Nat]
      /\ \A q \in Readers : q # r => rpc'[q] = rpc[q] /\ rin'[q] = rin[q] /\ rpos'[q] = rpos[q]
  BY <1>1, <1>2, <1>4
<1>9. got' = [q \in Readers |-> got'[q]] /\ stream' \in [Readers -> Nat]
  BY <1>1, <1>4
<1> QED BY <1>4, <1>7, <1>8, <1>9, OneReader

(* The blocks of a member in a whole archive are its own. *)
LEMMA BlocksOf ==
  ASSUME NEW c \in Seq(Cells), NEW e \in Elems, MemberIn(c, e)
  PROVE  /\ ~(e.off + Size(e.mem) > Len(c))
         /\ SubSeq(c, e.off + 1, e.off + Size(e.mem)) = [i \in 1..Size(e.mem) |-> Cell(e.mem, i)]
<1>1. PICK n \in Nat, o \in Nat : n = Size(e.mem) /\ o = e.off
  BY MemberAssumption DEF Elems
<1>2. \A j \in 0..n : o + j \in 1..Len(c) /\ c[o + j] = Cell(e.mem, j)
  BY <1>1 DEF MemberIn
<1>3. o + n \in 1..Len(c) /\ o + 0 \in 1..Len(c) /\ Len(c) \in Nat
  BY <1>2
<1>4. PICK a \in Int, b \in Int : a = o + 1 /\ b = o + n
  OBVIOUS
<1>5. \A i \in a..b : c[i] \in Cells
  <2> SUFFICES ASSUME NEW i \in a..b PROVE c[i] \in Cells
    OBVIOUS
  <2>1. i \in 1..Len(c)
    BY <1>3, <1>4
  <2> QED BY <2>1
<1>6. PICK s : s = SubSeq(c, a, b)
  OBVIOUS
<1>7. /\ s \in Seq(Cells) /\ Len(s) = IF a <= b THEN b - a + 1 ELSE 0
      /\ \A i \in 1..(b - a + 1) : s[i] = c[a + i - 1]
  BY <1>5, <1>6, SubSeqProperties
<1>8. b - a + 1 = n /\ Len(s) = n
  BY <1>4, <1>7
<1>9. \A i \in 1..n : s[i] = Cell(e.mem, i)
  <2> SUFFICES ASSUME NEW i \in 1..n PROVE s[i] = Cell(e.mem, i)
    OBVIOUS
  <2>1. a + i - 1 = o + i /\ i \in 0..n
    BY <1>4
  <2> QED BY <1>2, <1>7, <1>8, <2>1
<1>10. s = [i \in 1..n |-> Cell(e.mem, i)]
  <2>1. DOMAIN s = 1..n /\ s = [i \in DOMAIN s |-> s[i]]
    BY <1>7, <1>8
  <2> QED BY <1>9, <2>1
<1>11. ~(o + n > Len(c))
  BY <1>3
<1>12. SubSeq(c, o + 1, o + n) = [i \in 1..n |-> Cell(e.mem, i)]
  BY <1>4, <1>6, <1>10
<1> QED BY <1>1, <1>11, <1>12

(* A reader is given the blocks of one member. *)
LEMMA ReadMemberReaders ==
  ASSUME ~Named, TypeOK, SoloInv, ReadersInv, NEW r \in Readers, ReadMember(r)
  PROVE  ReadersInv'
<1>1. /\ rpc \in [Readers -> {"idle", "none", "fopen", "scan", "done"}]
      /\ stream \in [Readers -> Nat] /\ rin \in [Readers -> Nat] /\ rpos \in [Readers -> Nat]
      /\ got = [q \in Readers |-> got[q]]
      /\ ReaderInv(r) /\ rpc[r] = "scan"
  BY DEF ReadersInv, ReadMember
<1>2. /\ stream[r] \in 1..Len(data) /\ stream[r] # names.temp
      /\ rin[r] = stream[r] /\ data[stream[r]] \in Seq(Cells)
      /\ Whole(data[stream[r]]) /\ Boundary(data[stream[r]], rpos[r])
      /\ \A g \in got[r] : g.cells = [i \in 1..Size(g.mem) |-> Cell(g.mem, i)]
  BY <1>1 DEF ReaderInv, TypeOK, Shape
<1>3. UNCHANGED <<data, names, stream, rin>>
  BY DEF ReadMember, fileVars
<1>4. CASE AtEof(rin[r], rpos[r])
  <2>1. rpc' = [rpc EXCEPT ![r] = "done"] /\ UNCHANGED <<rpos, got>>
    BY <1>4 DEF ReadMember, Rgoto
  <2>2. /\ rpc' \in [Readers -> {"idle", "none", "fopen", "scan", "done"}]
        /\ rpc'[r] = "done" /\ \A q \in Readers : q # r => rpc'[q] = rpc[q]
    BY <1>1, <2>1
  <2>3. ReaderInv(r)'
    BY <1>2, <2>1, <2>2 DEF ReaderInv
  <2>4. got' = [q \in Readers |-> got'[q]] /\ stream' \in [Readers -> Nat]
        /\ rin' \in [Readers -> Nat] /\ rpos' \in [Readers -> Nat]
    BY <1>1, <1>3, <2>1
  <2> QED BY <1>3, <2>1, <2>2, <2>3, <2>4, OneReader
<1>5. CASE ~AtEof(rin[r], rpos[r])
  <2> DEFINE c == data[stream[r]]
             p == rpos[r]
  <2>1. PICK e \in Elems :
          /\ e = MemberAt(rin[r], rpos[r]) /\ MemberIn(c, e)
          /\ IsHeader(rin[r], rpos[r])
          /\ Boundary(c, After(rin[r], rpos[r])) /\ After(rin[r], rpos[r]) \in Nat
    <3>1. p \in Nat /\ p <= Len(c)
      BY <1>1, <1>2, <1>5 DEF AtEof
    <3>2. p \in 2..Len(c) /\ c[p].part = 0 /\ c[p] # Magic
      BY <1>2, <3>1, BoundaryHeader
    <3>3. /\ c[p].mem \in Members /\ MemberIn(c, [mem |-> c[p].mem, off |-> p])
          /\ Boundary(c, p + 1 + Size(c[p].mem))
      BY <1>2, <3>2, MemberBody
    <3>4. MemberAt(rin[r], rpos[r]) = [mem |-> c[p].mem, off |-> p]
          /\ After(rin[r], rpos[r]) = p + 1 + Size(c[p].mem)
          /\ IsHeader(rin[r], rpos[r])
      BY <1>2, <3>2 DEF MemberAt, After, IsHeader
    <3>5. [mem |-> c[p].mem, off |-> p] \in Elems /\ p + 1 + Size(c[p].mem) \in Nat
      BY <3>1, <3>3, MemberAssumption DEF Elems
    <3> QED BY <3>3, <3>4, <3>5
  <2>2. /\ ~(e.off + Size(e.mem) > Len(c))
        /\ SubSeq(c, e.off + 1, e.off + Size(e.mem)) = [i \in 1..Size(e.mem) |-> Cell(e.mem, i)]
    BY <1>2, <2>1, BlocksOf
  <2>3. PICK g : g = [mem |-> e.mem, cells |-> SubSeq(c, e.off + 1, e.off + Size(e.mem))]
    OBVIOUS
  <2>4. /\ rpos' = [rpos EXCEPT ![r] = After(rin[r], rpos[r])]
        /\ Extract(r, e, "scan")
    BY <1>5, <2>1 DEF ReadMember
  <2>5. /\ rpc' = [rpc EXCEPT ![r] = "scan"]
        /\ got' = [got EXCEPT ![r] = got[r] \union {g}]
    BY <2>2, <2>3, <2>4 DEF Extract, Rgoto
  <2>6. /\ rpc' = rpc /\ rpos'[r] = After(rin[r], rpos[r]) /\ rpos' \in [Readers -> Nat]
        /\ \A q \in Readers : q # r => rpos'[q] = rpos[q]
    BY <1>1, <2>1, <2>4, <2>5
  <2>7. /\ got'[r] = got[r] \union {g} /\ got' = [q \in Readers |-> got'[q]]
        /\ \A q \in Readers : q # r => got'[q] = got[q]
    BY <1>1, <2>5
  <2>8. g.cells = [i \in 1..Size(g.mem) |-> Cell(g.mem, i)]
    BY <2>2, <2>3
  <2>9. \A h \in got'[r] : h.cells = [i \in 1..Size(h.mem) |-> Cell(h.mem, i)]
    BY <1>2, <2>7, <2>8
  <2>10. Boundary(data[rin[r]], rpos[r])'
    BY <1>2, <1>3, <2>1, <2>6
  <2>11. ReaderInv(r)'
    BY <1>1, <1>2, <1>3, <2>6, <2>9, <2>10 DEF ReaderInv
  <2>12. stream' \in [Readers -> Nat] /\ rin' \in [Readers -> Nat]
         /\ rpc' \in [Readers -> {"idle", "none", "fopen", "scan", "done"}]
    BY <1>1, <1>3, <2>6
  <2> QED BY <1>3, <2>6, <2>7, <2>11, <2>12, OneReader, SMTT(30)
<1> QED BY <1>4, <1>5

(* Every step keeps ReadersInv. *)
LEMMA NextReaders ==
  ASSUME ~Named, TypeOK, FilesInv, SoloInv, ReadersInv, [Next]_vars
  PROVE  ReadersInv'
<1>1. FilesKept
  BY NextFilesKept
<1>2. CASE UNCHANGED readVars
  BY <1>1, <1>2, OthersReaders
<1>3. ASSUME NEW r \in Readers,
             OpenStream(r) \/ ReadOpen(r) \/ ReadMember(r) \/ ExtractNamed(r)
      PROVE  ReadersInv'
  <2>1. ~ExtractNamed(r)
    BY DEF ExtractNamed, ReadersInv
  <2> QED BY <1>3, <2>1, OpenStreamReaders, ReadOpenReaders, ReadMemberReaders
<1>4. ASSUME NEW u \in Updaters, Step(u) \/ Kill(u) PROVE UNCHANGED readVars
  BY <1>4 DEF Step, Kill, Begin, ScanOpen, ScanMember, OpenArchive, CreateArchive,
             WriteMagic, TakeLock, OpenOutput, Write, Rename, CloseArchive, readVars
<1>5. Finished \/ UNCHANGED vars => UNCHANGED readVars
  BY DEF Finished, vars
<1> QED BY <1>2, <1>3, <1>4, <1>5 DEF Next

(* "Merely reading an archive does not require a lock": while one invocation *)
(* at a time updates the archive, a reader that names no members never takes *)
(* it for an invalid one and is given the members' own blocks, whatever the  *)
(* number of readers, updates and kills while they read, until a stale tail  *)
(* is installed.                                                             *)
THEOREM ReadersTheorem ==
  ASSUME Solo, ~Named
  PROVE  Spec => []ReadersSeeMembers
<1>1. Init => ReadersInv
  BY InitReaders
<1>2. TypeOK /\ FilesInv /\ (~overhang => SoloInv) /\ (~overhang => ReadersInv) /\ [Next]_vars
      => (~overhang => ReadersInv)'
  BY NextReaders, OverhangStays
<1>3. (~overhang => ReadersInv) => ReadersSeeMembers
  BY DEF ReadersInv, ReaderInv, ReadersSeeMembers
<1> QED BY <1>1, <1>2, <1>3, TypeInvariant, FilesInvariant, SoloInvariant, PTL DEF Spec
=============================================================================
