--------------------------- MODULE ArUpdateProofs ---------------------------
(***************************************************************************)
(* Proofs about ArUpdate for any number of invocations of ar01, any        *)
(* operations, with or without LOCKS, and kills at any moment.             *)
(*                                                                         *)
(* TypeOK says that descriptors and names point to files that exist;       *)
(* LockInv that whoever writes holds the lock on the version it works      *)
(* from, and that nobody else holds it.                                    *)
(***************************************************************************)
EXTENDS ArUpdate, NatInduct, SequenceTheorems, TLAPS

Places ==
  {"idle", "fopen", "scan", "open", "create", "magic", "lock", "output",
   "write", "close", "done", "failed", "killed"}
Elems == [mem : Members, off : Nat]
OpRecs == [kind : {"edit", "quick", "none"}, drop : SUBSET Members, add : Seq(Members)]

(* The values the variables of the files and of the updaters may take. *)
Shape ==
  /\ data \in Seq(Seq(Cells))
  /\ names \in [archive : Nat, temp : Nat]
  /\ held \subseteq Nat \X Updaters
  /\ pc \in [Updaters -> Places]
  /\ op \in [Updaters -> OpRecs]
  /\ in \in [Updaters -> Nat] /\ out \in [Updaters -> Nat]
  /\ map \in [Updaters -> Seq(Elems)]
  /\ pos \in [Updaters -> Nat]
  /\ k \in [Updaters -> Nat] /\ part \in [Updaters -> Nat]
  /\ runs \in [Updaters -> Nat]

(* Names and descriptors are of files that exist, and are set when used. *)
NoDangling ==
  /\ names.archive <= Len(data) /\ names.temp <= Len(data)
  /\ \A u \in Updaters : in[u] <= Len(data) /\ out[u] <= Len(data)
  /\ \A u \in Updaters :
       pc[u] \in {"scan", "lock", "output", "write", "close"} => in[u] # 0
  /\ \A u \in Updaters : pc[u] \in {"scan", "write"} => pos[u] # 0
  /\ \A u \in Updaters : pc[u] \in {"magic", "write"} => out[u] # 0
  /\ \A u \in Updaters :
       pc[u] \in {"lock", "output", "write", "close"} => names.archive # 0
  /\ \A u \in Updaters : runs[u] = 0 => pc[u] = "idle"

TypeOK == Shape /\ NoDangling

(***************************************************************************)
(* What the function that Kept defines computes, by induction over the     *)
(* length of its argument.                                                 *)
(***************************************************************************)
KeptUpTo(g, s, drop, n) ==
  g = [i \in 0..n |->
        IF i = 0 THEN <<>>
        ELSE IF s[i].mem \in drop THEN g[i - 1] ELSE Append(g[i - 1], s[i])]

(* The function that Kept defines exists. *)
LEMMA KeptExists ==
  ASSUME NEW s, NEW drop
  PROVE  \A n \in Nat : \E g : KeptUpTo(g, s, drop, n)
<1> DEFINE Fits(g, n) == KeptUpTo(g, s, drop, n)
           T == {n \in Nat : \E g : Fits(g, n)}
<1>1. 0 \in T
  <2> DEFINE g == [i \in 0..0 |-> <<>>]
  <2>1. Fits(g, 0)
    BY DEF KeptUpTo
  <2> QED BY <2>1
<1>2. ASSUME NEW n \in Nat, n \in T PROVE n + 1 \in T
  <2>1. PICK g : Fits(g, n)
    BY <1>2
  <2> DEFINE h == [i \in 0..(n + 1) |->
               IF i = n + 1
               THEN IF s[n + 1].mem \in drop THEN g[n] ELSE Append(g[n], s[n + 1])
               ELSE g[i]]
             e == [i \in 0..(n + 1) |->
               IF i = 0 THEN <<>>
               ELSE IF s[i].mem \in drop THEN h[i - 1] ELSE Append(h[i - 1], s[i])]
  <2>2. ASSUME NEW i \in 0..(n + 1) PROVE h[i] = e[i]
    <3>1. CASE i = 0
      <4>1. g[0] = <<>>
        BY <2>1 DEF KeptUpTo
      <4> QED BY <3>1, <4>1
    <3>2. CASE i = n + 1
      <4>1. h[n] = g[n] /\ i - 1 = n
        BY <3>2
      <4> QED BY <3>2, <4>1
    <3>3. CASE i \in 1..n
      <4>1. i \in 0..n /\ i # 0 /\ h[i] = g[i] /\ h[i - 1] = g[i - 1]
        BY <3>3
      <4>2. g[i] = IF s[i].mem \in drop THEN g[i - 1] ELSE Append(g[i - 1], s[i])
        BY <2>1, <4>1 DEF KeptUpTo
      <4> QED BY <4>1, <4>2
    <3> QED BY <3>1, <3>2, <3>3
  <2>3. h = e
    <3> HIDE DEF h, e
    <3>1. h = [i \in 0..(n + 1) |-> h[i]] /\ e = [i \in 0..(n + 1) |-> e[i]]
      BY DEF h, e
    <3> QED BY <2>2, <3>1
  <2>4. Fits(h, n + 1)
    BY <2>3 DEF KeptUpTo
  <2>5. n + 1 \in Nat /\ \E hh : Fits(hh, n + 1)
    <3> HIDE DEF h, Fits
    <3> QED BY <2>4
  <2> QED BY <2>5
<1>3. \A n \in Nat : n \in T
  <2> HIDE DEF T
  <2> QED BY <1>1, <1>2, SetInduction
<1> QED BY <1>3

(* The function that Kept chooses satisfies its equation. *)
LEMMA KeptChosen ==
  ASSUME NEW s, NEW drop, NEW g, KeptUpTo(g, s, drop, Len(s))
  PROVE  \E f : Kept(s, drop) = f[Len(s)] /\ KeptUpTo(f, s, drop, Len(s))
BY DEF Kept, KeptUpTo

(* What is kept is what is not dropped. *)
LEMMA KeptElements ==
  ASSUME NEW E, NEW s \in Seq(E), NEW drop
  PROVE  /\ Kept(s, drop) \in Seq(E)
         /\ \A i \in 1..Len(Kept(s, drop)) : \E j \in 1..Len(s) :
              Kept(s, drop)[i] = s[j] /\ s[j].mem \notin drop
         /\ \A j \in 1..Len(s) : s[j].mem \notin drop =>
              \E i \in 1..Len(Kept(s, drop)) : Kept(s, drop)[i] = s[j]
<1>a. Len(s) \in Nat
  OBVIOUS
<1>b. PICK g : KeptUpTo(g, s, drop, Len(s))
  BY <1>a, KeptExists
<1>1. PICK f : Kept(s, drop) = f[Len(s)] /\ KeptUpTo(f, s, drop, Len(s))
  BY <1>b, KeptChosen
<1>2. Len(s) \in Nat /\ f[0] = <<>>
  BY <1>1 DEF KeptUpTo
<1>3. \A i \in 1..Len(s) :
        f[i] = IF s[i].mem \in drop THEN f[i - 1] ELSE Append(f[i - 1], s[i])
  <2> TAKE i \in 1..Len(s)
  <2>1. i \in 0..Len(s) /\ i # 0
    OBVIOUS
  <2> QED BY <1>1, <2>1 DEF KeptUpTo
<1> DEFINE Good(n) ==
      /\ f[n] \in Seq(E)
      /\ \A i \in 1..Len(f[n]) : \E j \in 1..n : f[n][i] = s[j] /\ s[j].mem \notin drop
      /\ \A j \in 1..n : s[j].mem \notin drop => \E i \in 1..Len(f[n]) : f[n][i] = s[j]
    T == {n \in Nat : n <= Len(s) => Good(n)}
<1>4. 0 \in T
  <2>1. f[0] \in Seq(E) /\ Len(f[0]) = 0
    BY <1>2
  <2>2. 1..0 = {}
    OBVIOUS
  <2> QED BY <2>1, <2>2
<1>5. ASSUME NEW n \in Nat, n \in T PROVE n + 1 \in T
  <2> SUFFICES ASSUME n + 1 <= Len(s) PROVE Good(n + 1)
    OBVIOUS
  <2>1. n + 1 \in 1..Len(s) /\ (n + 1) - 1 = n /\ Good(n)
    BY <1>5
  <2>2. s[n + 1] \in E
    BY <2>1
  <2>3. f[n + 1] = IF s[n + 1].mem \in drop THEN f[n] ELSE Append(f[n], s[n + 1])
    BY <1>3, <2>1
  <2>4. \A j \in 1..(n + 1) : j \in 1..n \/ j = n + 1
    OBVIOUS
  <2>5. CASE s[n + 1].mem \in drop
    BY <2>1, <2>3, <2>4, <2>5
  <2>6. CASE s[n + 1].mem \notin drop
    <3>1. f[n + 1] = Append(f[n], s[n + 1])
      BY <2>3, <2>6
    <3>2. /\ f[n + 1] \in Seq(E) /\ Len(f[n + 1]) = Len(f[n]) + 1
          /\ Len(f[n]) \in Nat
          /\ f[n + 1][Len(f[n]) + 1] = s[n + 1]
          /\ \A i \in 1..Len(f[n]) : f[n + 1][i] = f[n][i]
      BY <2>1, <2>2, <3>1
    <3>3. ASSUME NEW i \in 1..Len(f[n + 1])
          PROVE  \E j \in 1..(n + 1) : f[n + 1][i] = s[j] /\ s[j].mem \notin drop
      <4>1. CASE i = Len(f[n]) + 1
        BY <2>1, <2>6, <3>2, <4>1
      <4>2. CASE i \in 1..Len(f[n])
        BY <2>1, <3>2, <4>2
      <4> QED BY <3>2, <4>1, <4>2
    <3>4. ASSUME NEW j \in 1..(n + 1), s[j].mem \notin drop
          PROVE  \E i \in 1..Len(f[n + 1]) : f[n + 1][i] = s[j]
      <4>1. CASE j = n + 1
        BY <3>2, <4>1
      <4>2. CASE j \in 1..n
        <5>1. PICK i \in 1..Len(f[n]) : f[n][i] = s[j]
          BY <2>1, <3>4, <4>2
        <5> QED BY <3>2, <5>1
      <4> QED BY <4>1, <4>2
    <3> QED BY <3>2, <3>3, <3>4
  <2> QED BY <2>5, <2>6
<1>6. \A n \in Nat : n \in T
  <2> HIDE DEF T
  <2> QED BY <1>4, <1>5, SetInduction
<1>7. Good(Len(s))
  <2> HIDE DEF Good
  <2> QED BY <1>2, <1>6
<1> DEFINE kk == f[Len(s)]
<1>8. /\ kk \in Seq(E)
      /\ \A i \in 1..Len(kk) : \E j \in 1..Len(s) : kk[i] = s[j] /\ s[j].mem \notin drop
      /\ \A j \in 1..Len(s) : s[j].mem \notin drop => \E i \in 1..Len(kk) : kk[i] = s[j]
  BY <1>7
<1>9. kk = Kept(s, drop)
  BY <1>1
<1> HIDE DEF kk
<1> QED BY <1>8, <1>9, Zenon

(* The files an archive of earlier runs, or none, leaves. *)
LEMMA InitTypeOK == Init => TypeOK
<1> SUFFICES ASSUME Init PROVE TypeOK
  OBVIOUS
<1>1. data \in Seq(Seq(Cells)) /\ names \in [archive : Nat, temp : Nat]
      /\ names.archive <= Len(data) /\ names.temp <= Len(data)
  <2>1. PICK b \in Bases :
          /\ data = IF b = NoFile THEN <<>> ELSE <<b>>
          /\ names = [archive |-> IF b = NoFile THEN 0 ELSE 1, temp |-> 0]
    BY DEF Init
  <2>2. CASE b = NoFile
    BY <2>1, <2>2
  <2>3. CASE b # NoFile
    <3>1. b \in Seq(Cells)
      BY <2>3, BaseAssumption
    <3>2. data = <<b>> /\ names = [archive |-> 1, temp |-> 0]
      BY <2>1, <2>3
    <3> QED BY <3>1, <3>2
  <2> QED BY <2>2, <2>3
<1>2. NoOp \in OpRecs
  BY DEF NoOp, OpRecs
<1>3. Shape
  BY <1>1, <1>2 DEF Init, Shape, Places
<1>4. NoDangling
  BY <1>1 DEF Init, NoDangling
<1> QED BY <1>3, <1>4 DEF TypeOK

(* Exit, by fatal, at the end of main or by a kill. *)
LEMMA QuitType ==
  ASSUME TypeOK, NEW u \in Updaters, NEW how \in {"done", "failed", "killed"},
         Quit(u, how), runs[u] # 0
  PROVE  TypeOK'
<1>1. Shape'
  BY DEF TypeOK, Shape, Quit, Goto, Places
<1>2. NoDangling'
  BY DEF TypeOK, Shape, NoDangling, Quit, Goto
<1> QED BY <1>1, <1>2 DEF TypeOK

(* main: the operation is chosen. *)
LEMMA BeginType ==
  ASSUME TypeOK, NEW u \in Updaters, Begin(u)
  PROVE  TypeOK'
<1>1. PICK o \in Ops :
        /\ op' = [op EXCEPT ![u] = o]
        /\ Goto(u, IF o.kind = "quick" THEN "open" ELSE "fopen")
  BY DEF Begin
<1>2. o \in OpRecs
  BY OpAssumption DEF OpRecs
<1>3. PICK w \in {"open", "fopen"} : pc' = [pc EXCEPT ![u] = w]
  BY <1>1 DEF Goto
<1>4. /\ runs' = [runs EXCEPT ![u] = runs[u] + 1]
      /\ UNCHANGED <<data, names, locks, held, in, pos, out>>
      /\ map' = [map EXCEPT ![u] = <<>>]
      /\ k' = [k EXCEPT ![u] = 0] /\ part' = [part EXCEPT ![u] = 0]
  BY DEF Begin, fileVars
<1>5. Shape'
  <2>1. op' \in [Updaters -> OpRecs]
    BY <1>1, <1>2 DEF TypeOK, Shape
  <2>2. pc' \in [Updaters -> Places] /\ map' \in [Updaters -> Seq(Elems)]
    BY <1>3, <1>4 DEF TypeOK, Shape, Places
  <2>3. runs[u] + 1 \in Nat
    BY DEF TypeOK, Shape
  <2>4. /\ runs' \in [Updaters -> Nat]
        /\ k' \in [Updaters -> Nat] /\ part' \in [Updaters -> Nat]
    BY <1>4, <2>3 DEF TypeOK, Shape
  <2> QED BY <1>4, <2>1, <2>2, <2>4 DEF TypeOK, Shape
<1>6. \A v \in Updaters :
        /\ pc'[v] = IF v = u THEN w ELSE pc[v]
        /\ runs'[v] = IF v = u THEN runs[u] + 1 ELSE runs[v]
  BY <1>3, <1>4 DEF TypeOK, Shape
<1>7. NoDangling'
  <2>1. runs[u] + 1 # 0
    BY DEF TypeOK, Shape
  <2>2. \A v \in Updaters : runs'[v] = 0 => pc'[v] = "idle"
    BY <1>6, <2>1 DEF TypeOK, NoDangling
  <2>3. w \notin {"idle", "scan", "lock", "output", "write", "close", "magic"}
    OBVIOUS
  <2> QED BY <1>4, <1>6, <2>2, <2>3 DEF TypeOK, NoDangling
<1> QED BY <1>5, <1>7 DEF TypeOK

(* scan: fopen, and the check of ARMAG. *)
LEMMA ScanOpenType ==
  ASSUME TypeOK, NEW u \in Updaters, ScanOpen(u)
  PROVE  TypeOK'
<1>1. runs[u] # 0
  BY DEF ScanOpen, At, TypeOK, NoDangling
<1>2. CASE Quit(u, "failed")
  BY <1>1, <1>2, QuitType
<1>3. CASE Goto(u, "open") /\ UNCHANGED <<fileVars, op, in, map, pos, out, k, part, runs>>
  BY <1>1, <1>3 DEF TypeOK, Shape, NoDangling, Goto, Places, fileVars
<1>4. CASE /\ names.archive # 0
           /\ Goto(u, "scan")
           /\ in' = [in EXCEPT ![u] = names.archive]
           /\ pos' = [pos EXCEPT ![u] = 2]
           /\ UNCHANGED <<fileVars, op, map, out, k, part, runs>>
  <2>1. Shape'
    BY <1>4 DEF TypeOK, Shape, Goto, Places, fileVars
  <2>2. \A v \in Updaters :
          /\ pc'[v] = IF v = u THEN "scan" ELSE pc[v]
          /\ in'[v] = IF v = u THEN names.archive ELSE in[v]
          /\ pos'[v] = IF v = u THEN 2 ELSE pos[v]
    BY <1>4 DEF TypeOK, Shape, Goto
  <2>3. UNCHANGED <<data, names, out, runs>>
    BY <1>4 DEF fileVars
  <2>4. NoDangling'
    BY <1>1, <1>4, <2>2, <2>3 DEF TypeOK, NoDangling
  <2> QED BY <2>1, <2>4 DEF TypeOK
<1> QED BY <1>2, <1>3, <1>4 DEF ScanOpen

(* A header names a member. *)
LEMMA HeaderType ==
  ASSUME TypeOK, NEW ino \in 1..Len(data), NEW p \in Nat, p # 0,
         ~AtEof(ino, p), IsHeader(ino, p)
  PROVE  MemberAt(ino, p) \in Elems /\ After(ino, p) \in Nat \ {0}
<1>1. data[ino] \in Seq(Cells)
  BY DEF TypeOK, Shape
<1>2. data[ino][p] \in Cells
  BY <1>1 DEF AtEof
<1>3. data[ino][p].mem \in Members
  BY <1>2 DEF IsHeader, Cells
<1> QED BY <1>3, MemberAssumption DEF MemberAt, After, Elems

(* scan: a member is put into the map, or the end is reached. *)
LEMMA ScanMemberType ==
  ASSUME TypeOK, NEW u \in Updaters, ScanMember(u)
  PROVE  TypeOK'
<1>1. runs[u] # 0 /\ in[u] \in 1..Len(data) /\ pos[u] # 0
  BY DEF ScanMember, At, TypeOK, Shape, NoDangling
<1>2. CASE Quit(u, "failed")
  BY <1>1, <1>2, QuitType
<1>3. CASE Goto(u, "open") /\ UNCHANGED <<fileVars, op, in, map, pos, out, k, part, runs>>
  BY <1>1, <1>3 DEF TypeOK, Shape, NoDangling, Goto, Places, fileVars
<1>4. CASE /\ ~AtEof(in[u], pos[u]) /\ IsHeader(in[u], pos[u])
           /\ map' = [map EXCEPT ![u] = Append(@, MemberAt(in[u], pos[u]))]
           /\ pos' = [pos EXCEPT ![u] = After(in[u], pos[u])]
           /\ UNCHANGED <<fileVars, pc, op, in, out, k, part, runs>>
  <2>1. MemberAt(in[u], pos[u]) \in Elems /\ After(in[u], pos[u]) \in Nat \ {0}
    BY <1>1, <1>4, HeaderType DEF TypeOK, Shape
  <2>2. map' \in [Updaters -> Seq(Elems)]
    BY <1>4, <2>1 DEF TypeOK, Shape
  <2>3. Shape'
    BY <1>4, <2>1, <2>2 DEF TypeOK, Shape, fileVars
  <2>4. NoDangling'
    BY <1>4, <2>1 DEF TypeOK, Shape, NoDangling, fileVars
  <2> QED BY <2>3, <2>4 DEF TypeOK
<1> QED BY <1>2, <1>3, <1>4 DEF ScanMember

(* A step of u that leaves the files alone but for the names they have. *)
LEMMA OpenArchiveType ==
  ASSUME TypeOK, NEW u \in Updaters, OpenArchive(u)
  PROVE  TypeOK'
<1>1. runs[u] # 0
  BY DEF OpenArchive, At, TypeOK, NoDangling
<1>2. UNCHANGED <<data, names, held, op, map, pos, out, k, part, runs>>
  BY DEF OpenArchive, fileVars
<1>3. CASE names.archive # 0 /\ in' = [in EXCEPT ![u] = names.archive] /\ Goto(u, "lock")
  <2>1. Shape'
    BY <1>2, <1>3 DEF TypeOK, Shape, Goto, Places
  <2>2. \A v \in Updaters :
          /\ pc'[v] = IF v = u THEN "lock" ELSE pc[v]
          /\ in'[v] = IF v = u THEN names.archive ELSE in[v]
    BY <1>3 DEF TypeOK, Shape, Goto
  <2>3. NoDangling'
    BY <1>1, <1>2, <1>3, <2>2 DEF TypeOK, NoDangling
  <2> QED BY <2>1, <2>3 DEF TypeOK
<1>4. CASE Goto(u, "create") /\ UNCHANGED in
  <2>1. Shape'
    BY <1>2, <1>4 DEF TypeOK, Shape, Goto, Places
  <2>2. \A v \in Updaters : pc'[v] = IF v = u THEN "create" ELSE pc[v]
    BY <1>4 DEF TypeOK, Shape, Goto
  <2>3. NoDangling'
    BY <1>1, <1>2, <1>4, <2>2 DEF TypeOK, NoDangling
  <2> QED BY <2>1, <2>3 DEF TypeOK
<1> QED BY <1>3, <1>4 DEF OpenArchive

(* A new file has the next number. *)
LEMMA NewFileType ==
  ASSUME TypeOK, NEW name \in {"archive", "temp"}, NewFile(name)
  PROVE  /\ data' \in Seq(Seq(Cells)) /\ Len(data') = Len(data) + 1
         /\ names' \in [archive : Nat, temp : Nat]
         /\ Len(data) \in Nat /\ Len(data) + 1 # 0
         /\ name = "archive" => names'.archive = Len(data) + 1 /\ names'.temp = names.temp
         /\ name = "temp" => names'.temp = Len(data) + 1 /\ names'.archive = names.archive
         /\ data'[Len(data) + 1] = <<>>
         /\ \A i \in 1..Len(data) : data'[i] = data[i]
<1>1. data \in Seq(Seq(Cells)) /\ <<>> \in Seq(Cells) /\ Len(data) \in Nat
  BY DEF TypeOK, Shape
<1>2. data' = Append(data, <<>>) /\ names' = [names EXCEPT ![name] = Len(data) + 1]
  BY DEF NewFile
<1>3. names \in [archive : Nat, temp : Nat]
  BY DEF TypeOK, Shape
<1>4. CASE name = "archive"
  BY <1>1, <1>2, <1>3, <1>4
<1>5. CASE name = "temp"
  BY <1>1, <1>2, <1>3, <1>5
<1> QED BY <1>4, <1>5

(* open_archive: creat of an archive that is not there. *)
LEMMA CreateArchiveType ==
  ASSUME TypeOK, NEW u \in Updaters, CreateArchive(u)
  PROVE  TypeOK'
<1>1. runs[u] # 0
  BY DEF CreateArchive, At, TypeOK, NoDangling
<1>2. UNCHANGED <<held, op, in, map, pos, k, part, runs>> /\ Goto(u, "magic")
  BY DEF CreateArchive
<1>3. /\ pc' \in [Updaters -> Places]
      /\ \A v \in Updaters : pc'[v] = IF v = u THEN "magic" ELSE pc[v]
  BY <1>2 DEF Goto, TypeOK, Shape, Places
<1>4. CASE NewFile("archive") /\ out' = [out EXCEPT ![u] = Len(data) + 1]
  <2>1. /\ data' \in Seq(Seq(Cells)) /\ Len(data') = Len(data) + 1
        /\ names' \in [archive : Nat, temp : Nat]
        /\ Len(data) \in Nat /\ Len(data) + 1 # 0
        /\ names'.archive = Len(data) + 1 /\ names'.temp = names.temp
    BY <1>4, NewFileType
  <2>2. /\ out' \in [Updaters -> Nat]
        /\ \A v \in Updaters : out'[v] = IF v = u THEN Len(data) + 1 ELSE out[v]
    BY <1>4, <2>1 DEF TypeOK, Shape
  <2>3. Shape'
    BY <1>2, <1>3, <2>1, <2>2 DEF TypeOK, Shape
  <2>4. \A n \in Nat : n <= Len(data) => n <= Len(data')
    BY <2>1
  <2>5. names'.archive <= Len(data') /\ names'.archive # 0 /\ names'.temp <= Len(data')
    BY <2>1, <2>4 DEF TypeOK, Shape, NoDangling
  <2>6. \A v \in Updaters : in'[v] <= Len(data') /\ out'[v] <= Len(data')
    <3> TAKE v \in Updaters
    <3>1. in[v] \in Nat /\ out[v] \in Nat /\ in[v] <= Len(data) /\ out[v] <= Len(data)
      BY DEF TypeOK, Shape, NoDangling
    <3>2. in'[v] = in[v] /\ (out'[v] = out[v] \/ out'[v] = Len(data'))
      BY <1>2, <2>1, <2>2
    <3>3. Len(data') <= Len(data')
      BY <2>1
    <3> QED BY <2>4, <3>1, <3>2, <3>3, Zenon
  <2>7. \A v \in Updaters : pc'[v] \in {"magic", "write"} => out'[v] # 0
    BY <1>3, <2>1, <2>2 DEF TypeOK, NoDangling
  <2>8. NoDangling'
    BY <1>1, <1>2, <1>3, <2>5, <2>6, <2>7 DEF TypeOK, NoDangling
  <2> QED BY <2>3, <2>8 DEF TypeOK
<1>5. CASE names.archive # 0 /\ out' = [out EXCEPT ![u] = names.archive]
           /\ UNCHANGED <<data, names>>
  <2>1. /\ out' \in [Updaters -> Nat]
        /\ \A v \in Updaters : out'[v] = IF v = u THEN names.archive ELSE out[v]
    BY <1>5 DEF TypeOK, Shape
  <2>2. Shape'
    BY <1>2, <1>3, <1>5, <2>1 DEF TypeOK, Shape
  <2>3. NoDangling'
    BY <1>1, <1>2, <1>3, <1>5, <2>1 DEF TypeOK, NoDangling
  <2> QED BY <2>2, <2>3 DEF TypeOK
<1> QED BY <1>4, <1>5 DEF CreateArchive

(* A cell put into a file. *)
LEMMA PutType ==
  ASSUME TypeOK, NEW i \in 1..Len(data), NEW c \in Seq(Cells),
         data' = [data EXCEPT ![i] = c]
  PROVE  /\ data' \in Seq(Seq(Cells)) /\ Len(data') = Len(data)
         /\ data'[i] = c
         /\ \A j \in 1..Len(data) : j # i => data'[j] = data[j]
BY DEF TypeOK, Shape

(* open_archive: ARMAG is written into it. *)
LEMMA WriteMagicType ==
  ASSUME TypeOK, NEW u \in Updaters, WriteMagic(u)
  PROVE  TypeOK'
<1>1. runs[u] # 0 /\ out[u] \in 1..Len(data)
  BY DEF WriteMagic, At, TypeOK, Shape, NoDangling
<1>2. UNCHANGED <<names, held, op, in, map, pos, out, k, part, runs>> /\ Goto(u, "open")
  BY DEF WriteMagic
<1>3. /\ pc' \in [Updaters -> Places]
      /\ \A v \in Updaters : pc'[v] = IF v = u THEN "open" ELSE pc[v]
  BY <1>2 DEF Goto, TypeOK, Shape, Places
<1>4. Magic \in Cells /\ data[out[u]] \in Seq(Cells)
  BY <1>1 DEF TypeOK, Shape, Cells
<1>5. Append(data[out[u]], Magic) \in Seq(Cells)
  BY <1>4
<1>6. data' = [data EXCEPT ![out[u]] = Append(data[out[u]], Magic)]
  BY DEF WriteMagic
<1>7. data' \in Seq(Seq(Cells)) /\ Len(data') = Len(data)
  BY <1>1, <1>5, <1>6, PutType
<1>8. Shape'
  BY <1>2, <1>3, <1>7 DEF TypeOK, Shape
<1>9. NoDangling'
  BY <1>1, <1>2, <1>3, <1>7 DEF TypeOK, NoDangling
<1> QED BY <1>8, <1>9 DEF TypeOK

(* The edited map: what was kept of the map, then the files to insert. *)
LEMMA EditedElements ==
  ASSUME TypeOK, NEW u \in Updaters
  PROVE  /\ Edited(u) \in Seq(Elems)
         /\ \A i \in 1..Len(Edited(u)) :
              \/ \E j \in 1..Len(map[u]) :
                   Edited(u)[i] = map[u][j] /\ map[u][j].mem \notin op[u].drop
              \/ \E j \in 1..Len(op[u].add) :
                   Edited(u)[i] = [mem |-> op[u].add[j], off |-> 0]
         /\ \A j \in 1..Len(op[u].add) : \E i \in 1..Len(Edited(u)) :
              Edited(u)[i] = [mem |-> op[u].add[j], off |-> 0]
<1> DEFINE kept == Kept(map[u], op[u].drop)
           new == [i \in DOMAIN op[u].add |-> [mem |-> op[u].add[i], off |-> 0]]
           e == kept \o new
<1>1. map[u] \in Seq(Elems) /\ op[u].add \in Seq(Members)
  BY DEF TypeOK, Shape, OpRecs
<1>2. /\ kept \in Seq(Elems)
      /\ \A i \in 1..Len(kept) : \E j \in 1..Len(map[u]) :
           kept[i] = map[u][j] /\ map[u][j].mem \notin op[u].drop
  BY <1>1, KeptElements, ZenonT(60)
<1>3. /\ new \in Seq(Elems) /\ Len(new) = Len(op[u].add)
      /\ \A j \in 1..Len(op[u].add) : new[j] = [mem |-> op[u].add[j], off |-> 0]
  <2>1. /\ DOMAIN op[u].add = 1..Len(op[u].add) /\ Len(op[u].add) \in Nat
        /\ \A j \in 1..Len(op[u].add) : [mem |-> op[u].add[j], off |-> 0] \in Elems
    BY <1>1 DEF Elems
  <2> QED BY <2>1
<1>4. Edited(u) = e
  BY DEF Edited
<1> HIDE DEF kept, new
<1>5. /\ e \in Seq(Elems) /\ Len(e) = Len(kept) + Len(new)
      /\ \A i \in 1..Len(kept) : e[i] = kept[i]
      /\ \A j \in 1..Len(new) : Len(kept) + j \in 1..Len(e) /\ e[Len(kept) + j] = new[j]
      /\ Len(kept) \in Nat /\ Len(new) \in Nat
  <2>1. /\ e \in Seq(Elems) /\ Len(e) = Len(kept) + Len(new)
        /\ \A i \in 1..(Len(kept) + Len(new)) :
             e[i] = IF i <= Len(kept) THEN kept[i] ELSE new[i - Len(kept)]
    <3>1. kept \in Seq(Elems) /\ new \in Seq(Elems)
      BY <1>2, <1>3
    <3> HIDE DEF e
    <3>2. e = kept \o new
      BY DEF e
    <3> QED BY <3>1, <3>2, ConcatProperties
  <2> HIDE DEF e
  <2>2. Len(kept) \in Nat /\ Len(new) \in Nat
    BY <1>2, <1>3
  <2>3. \A j \in 1..Len(new) : /\ Len(kept) + j \in 1..(Len(kept) + Len(new))
                               /\ ~(Len(kept) + j <= Len(kept))
                               /\ (Len(kept) + j) - Len(kept) = j
    BY <2>2
  <2> QED BY <2>1, <2>2, <2>3
<1> HIDE DEF e
<1>6. ASSUME NEW i \in 1..Len(e)
      PROVE  \/ \E j \in 1..Len(map[u]) : e[i] = map[u][j] /\ map[u][j].mem \notin op[u].drop
             \/ \E j \in 1..Len(op[u].add) : e[i] = [mem |-> op[u].add[j], off |-> 0]
  <2>1. CASE i \in 1..Len(kept)
    <3>1. PICK j \in 1..Len(map[u]) : kept[i] = map[u][j] /\ map[u][j].mem \notin op[u].drop
      BY <1>2, <2>1
    <3> QED BY <1>5, <2>1, <3>1
  <2>2. CASE i \notin 1..Len(kept)
    <3>1. i - Len(kept) \in 1..Len(new) /\ i = Len(kept) + (i - Len(kept))
      BY <1>5, <2>2
    <3>2. PICK j \in 1..Len(new) : i = Len(kept) + j
      BY <3>1
    <3>3. e[i] = new[j]
      BY <1>5, <3>2
    <3> QED BY <1>3, <3>2, <3>3
  <2> QED BY <2>1, <2>2
<1>7. \A j \in 1..Len(op[u].add) : \E i \in 1..Len(e) :
         e[i] = [mem |-> op[u].add[j], off |-> 0]
  BY <1>3, <1>5
<1> QED BY <1>4, <1>5, <1>6, <1>7

(* lock_for_update. *)
LEMMA TakeLockType ==
  ASSUME TypeOK, NEW u \in Updaters, TakeLock(u)
  PROVE  TypeOK'
<1>1. runs[u] # 0 /\ in[u] # 0 /\ in[u] \in Nat /\ names.archive # 0
  BY DEF TakeLock, At, TypeOK, Shape, NoDangling
<1>2. /\ UNCHANGED <<data, names, op, in, pos, out, k, part, runs>>
      /\ map' = [map EXCEPT ![u] = Edited(u)] /\ Goto(u, "output")
      /\ held' \subseteq held \union {<<in[u], u>>}
  BY DEF TakeLock
<1>3. /\ pc' \in [Updaters -> Places]
      /\ \A v \in Updaters : pc'[v] = IF v = u THEN "output" ELSE pc[v]
  BY <1>2 DEF Goto, TypeOK, Shape, Places
<1>4. map' \in [Updaters -> Seq(Elems)]
  <2>1. Edited(u) \in Seq(Elems)
    BY EditedElements
  <2>2. map \in [Updaters -> Seq(Elems)]
    BY DEF TypeOK, Shape
  <2>3. map' = [map EXCEPT ![u] = Edited(u)]
    BY <1>2
  <2> QED BY <2>1, <2>2, <2>3
<1>5. held' \subseteq Nat \X Updaters
  <2>1. held \subseteq Nat \X Updaters
    BY DEF TypeOK, Shape
  <2>2. <<in[u], u>> \in Nat \X Updaters
    BY <1>1
  <2> QED BY <1>2, <2>1, <2>2
<1>6. Shape'
  BY <1>2, <1>3, <1>4, <1>5 DEF TypeOK, Shape
<1>7. NoDangling'
  BY <1>1, <1>2, <1>3 DEF TypeOK, NoDangling
<1> QED BY <1>6, <1>7 DEF TypeOK

(* write_archive: open of the temporary file. *)
LEMMA OpenOutputType ==
  ASSUME TypeOK, NEW u \in Updaters, OpenOutput(u)
  PROVE  TypeOK'
<1>1. /\ runs[u] # 0 /\ in[u] # 0 /\ names.archive # 0 /\ names.archive \in Nat
      /\ names.temp \in Nat /\ Len(data) \in Nat
  BY DEF OpenOutput, At, TypeOK, Shape, NoDangling
<1>2. /\ UNCHANGED <<held, op, in, map, part, runs>>
      /\ pos' = [pos EXCEPT ![u] = 1] /\ Goto(u, "write")
  BY DEF OpenOutput
<1>3. /\ pc' \in [Updaters -> Places] /\ pos' \in [Updaters -> Nat]
      /\ \A v \in Updaters : pc'[v] = IF v = u THEN "write" ELSE pc[v]
      /\ \A v \in Updaters : pos'[v] = IF v = u THEN 1 ELSE pos[v]
  BY <1>2 DEF Goto, TypeOK, Shape, Places
<1>4. k' \in [Updaters -> Nat]
  <2>1. k' = k \/ k' = [k EXCEPT ![u] = 1]
    BY DEF OpenOutput
  <2>2. k \in [Updaters -> Nat]
    BY DEF TypeOK, Shape
  <2> QED BY <2>1, <2>2
<1>5. CASE UNCHANGED <<data, names>>
  <2>1. PICK o \in Nat : out' = [out EXCEPT ![u] = o] /\ o # 0 /\ o <= Len(data)
    <3>1. CASE out' = [out EXCEPT ![u] = names.archive]
      BY <1>1, <3>1 DEF TypeOK, NoDangling
    <3>2. CASE out' = [out EXCEPT ![u] = names.temp] /\ names.temp # 0
      BY <1>1, <3>2 DEF TypeOK, NoDangling
    <3>3. CASE NewFile("temp")
      <4>1. Len(data') = Len(data) + 1
        BY <3>3, NewFileType
      <4> QED BY <1>1, <1>5, <4>1
    <3> QED BY <3>1, <3>2, <3>3 DEF OpenOutput
  <2>2. /\ out' \in [Updaters -> Nat]
        /\ \A v \in Updaters : out'[v] = IF v = u THEN o ELSE out[v]
    <3>1. out \in [Updaters -> Nat]
      BY DEF TypeOK, Shape
    <3>2. out' = [out EXCEPT ![u] = o]
      BY <2>1
    <3> QED BY <3>1, <3>2
  <2>3. Shape'
    BY <1>2, <1>3, <1>4, <1>5, <2>2 DEF TypeOK, Shape
  <2>4. NoDangling'
    BY <1>1, <1>2, <1>3, <1>5, <2>1, <2>2, SMTT(30) DEF TypeOK, NoDangling
  <2> QED BY <2>3, <2>4 DEF TypeOK
<1>6. CASE NewFile("temp") /\ out' = [out EXCEPT ![u] = Len(data) + 1]
  <2>1. /\ data' \in Seq(Seq(Cells)) /\ Len(data') = Len(data) + 1
        /\ names' \in [archive : Nat, temp : Nat]
        /\ Len(data) + 1 # 0
        /\ names'.temp = Len(data) + 1 /\ names'.archive = names.archive
    BY <1>6, NewFileType
  <2>2. /\ out' \in [Updaters -> Nat]
        /\ \A v \in Updaters : out'[v] = IF v = u THEN Len(data) + 1 ELSE out[v]
    BY <1>1, <1>6 DEF TypeOK, Shape
  <2>3. Shape'
    BY <1>2, <1>3, <1>4, <2>1, <2>2 DEF TypeOK, Shape
  <2>4. \A n \in Nat : n <= Len(data) => n <= Len(data')
    BY <1>1, <2>1
  <2>5. names'.archive <= Len(data') /\ names'.archive # 0 /\ names'.temp <= Len(data')
    BY <1>1, <2>1, <2>4 DEF TypeOK, NoDangling
  <2>6. ASSUME NEW v \in Updaters
        PROVE  in'[v] <= Len(data') /\ out'[v] <= Len(data')
    <3>1. in[v] \in Nat /\ out[v] \in Nat /\ in[v] <= Len(data) /\ out[v] <= Len(data)
      BY DEF TypeOK, Shape, NoDangling
    <3>2. in'[v] = in[v] /\ (out'[v] = out[v] \/ out'[v] = Len(data'))
      BY <1>2, <2>1, <2>2
    <3>3. Len(data') <= Len(data')
      BY <1>1, <2>1
    <3> QED BY <2>4, <3>1, <3>2, <3>3, Zenon
  <2>7. \A v \in Updaters : pc'[v] \in {"magic", "write"} => out'[v] # 0
    BY <1>3, <2>1, <2>2 DEF TypeOK, NoDangling
  <2>8. NoDangling'
    BY <1>1, <1>2, <1>3, <2>5, <2>6, <2>7 DEF TypeOK, NoDangling
  <2> QED BY <2>3, <2>8 DEF TypeOK
<1> QED BY <1>5, <1>6 DEF OpenOutput

(* The cell that is written is one: ARMAG, or of the member of the map, or  *)
(* what the old archive has at the place the map tells.                     *)
LEMMA NextCellType ==
  ASSUME TypeOK, NEW u \in Updaters, At(u, "write"), k[u] <= Len(map[u]), ~ShortRead(u)
  PROVE  NextCell(u) \in Cells
<1>1. /\ in[u] \in 1..Len(data) /\ map[u] \in Seq(Elems)
      /\ k[u] \in Nat /\ part[u] \in Nat
  BY DEF At, TypeOK, Shape, NoDangling
<1>2. CASE k[u] = 0
  BY <1>2 DEF NextCell, Cells
<1>3. CASE k[u] # 0
  <2>1. k[u] \in 1..Len(map[u])
    BY <1>1, <1>3
  <2>2. map[u][k[u]] \in Elems
    BY <1>1, <2>1
  <2>3. CASE FromOld(u)
    <3>1. data[in[u]] \in Seq(Cells)
      BY <1>1 DEF TypeOK, Shape
    <3>2. map[u][k[u]].off \in Nat /\ map[u][k[u]].off > 0
      BY <2>2, <2>3 DEF FromOld, Elems
    <3>3. OldPos(u) \in Nat /\ OldPos(u) >= 1
      BY <1>1, <3>2 DEF OldPos
    <3>4. ~(OldPos(u) > Len(data[in[u]])) /\ Len(data[in[u]]) \in Nat
      BY <2>3, <3>1 DEF ShortRead
    <3>5. OldPos(u) \in 1..Len(data[in[u]])
      BY <3>3, <3>4
    <3>6. NextCell(u) = data[in[u]][OldPos(u)]
      BY <1>3, <2>3 DEF NextCell
    <3> QED BY <3>1, <3>5, <3>6
  <2>4. CASE ~FromOld(u)
    <3>1. NextCell(u) = Cell(map[u][k[u]].mem, part[u])
      BY <1>3, <2>4 DEF NextCell
    <3> QED BY <1>1, <2>2, <3>1 DEF Cell, Cells, Elems
  <2> QED BY <2>3, <2>4
<1> QED BY <1>2, <1>3

(* copy_out_member and its like: one write. *)
LEMMA WriteType ==
  ASSUME TypeOK, NEW u \in Updaters, Write(u)
  PROVE  TypeOK'
<1>1. /\ runs[u] # 0 /\ out[u] \in 1..Len(data) /\ pos[u] \in Nat /\ pos[u] # 0
      /\ k[u] \in Nat /\ part[u] \in Nat /\ data[out[u]] \in Seq(Cells)
  BY DEF Write, At, TypeOK, Shape, NoDangling
<1>2. CASE Quit(u, "failed")
  BY <1>1, <1>2, QuitType
<1>3. CASE ~ShortRead(u) /\ ~Quit(u, "failed")
  <2>1. /\ data' = [data EXCEPT ![out[u]] = Put(u, data[out[u]])]
        /\ pos' = [pos EXCEPT ![u] = pos[u] + 1]
        /\ UNCHANGED <<names, held, pc, op, in, map, out, runs>>
        /\ \E n \in {k[u], k[u] + 1} : k' = [k EXCEPT ![u] = n]
        /\ \E n \in {0, part[u] + 1} : part' = [part EXCEPT ![u] = n]
    BY <1>3 DEF Write
  <2>2. NextCell(u) \in Cells
    BY <1>3, NextCellType DEF Write
  <2>3. Put(u, data[out[u]]) \in Seq(Cells)
    BY <1>1, <2>2 DEF Put
  <2>4. data' \in Seq(Seq(Cells)) /\ Len(data') = Len(data)
    <3>1. data \in Seq(Seq(Cells))
      BY DEF TypeOK, Shape
    <3> QED BY <1>1, <2>1, <2>3, <3>1
  <2>5. pos[u] + 1 \in Nat /\ k[u] + 1 \in Nat /\ part[u] + 1 \in Nat /\ pos[u] + 1 # 0
    BY <1>1, SMTT(30)
  <2>6. /\ pos' \in [Updaters -> Nat]
        /\ k' \in [Updaters -> Nat] /\ part' \in [Updaters -> Nat]
        /\ \A v \in Updaters : pos'[v] = IF v = u THEN pos[u] + 1 ELSE pos[v]
    <3>1. pos \in [Updaters -> Nat] /\ k \in [Updaters -> Nat] /\ part \in [Updaters -> Nat]
      BY DEF TypeOK, Shape
    <3>2. k' \in [Updaters -> Nat]
      BY <1>1, <2>1, <2>5, <3>1
    <3>3. part' \in [Updaters -> Nat]
      BY <2>1, <2>5, <3>1
    <3> QED BY <2>1, <2>5, <3>1, <3>2, <3>3
  <2>7. Shape'
    BY <2>1, <2>4, <2>6 DEF TypeOK, Shape
  <2>8. NoDangling'
    BY <2>1, <2>4, <2>5, <2>6 DEF TypeOK, NoDangling
  <2> QED BY <2>7, <2>8 DEF TypeOK
<1> QED BY <1>2, <1>3 DEF Write

(* write_archive: rename. *)
LEMMA RenameType ==
  ASSUME TypeOK, NEW u \in Updaters, Rename(u)
  PROVE  TypeOK'
<1>1. runs[u] # 0 /\ in[u] # 0 /\ names \in [archive : Nat, temp : Nat]
      /\ Len(data) \in Nat
  BY DEF Rename, Copied, At, TypeOK, Shape, NoDangling
<1>2. CASE Quit(u, "failed")
  BY <1>1, <1>2, QuitType
<1>3. CASE /\ names.temp # 0 /\ names' = [archive |-> names.temp, temp |-> 0]
           /\ Goto(u, "close")
           /\ UNCHANGED <<data, held, op, in, map, pos, out, k, part, runs>>
  <2>1. /\ pc' \in [Updaters -> Places]
        /\ \A v \in Updaters : pc'[v] = IF v = u THEN "close" ELSE pc[v]
    BY <1>3 DEF Goto, TypeOK, Shape, Places
  <2>2. /\ names' \in [archive : Nat, temp : Nat]
        /\ names'.archive = names.temp /\ names'.temp = 0
        /\ names'.archive <= Len(data') /\ names'.temp <= Len(data')
    BY <1>1, <1>3 DEF TypeOK, NoDangling
  <2>3. Shape'
    BY <1>3, <2>1, <2>2 DEF TypeOK, Shape
  <2>4. NoDangling'
    BY <1>1, <1>3, <2>1, <2>2 DEF TypeOK, NoDangling
  <2> QED BY <2>3, <2>4 DEF TypeOK
<1> QED BY <1>2, <1>3 DEF Rename

(* close_archive. *)
LEMMA CloseType ==
  ASSUME TypeOK, NEW u \in Updaters, CloseArchive(u)
  PROVE  TypeOK'
<1>1. runs[u] # 0 /\ Quit(u, "done")
  BY DEF CloseArchive, Copied, At, TypeOK, NoDangling
<1> QED BY <1>1, QuitType

(* A kill between two system calls. *)
LEMMA KillType ==
  ASSUME TypeOK, NEW u \in Updaters, Kill(u)
  PROVE  TypeOK'
<1>1. runs[u] # 0 /\ Quit(u, "killed")
  BY DEF Kill, Running, TypeOK, NoDangling
<1> QED BY <1>1, QuitType

(* Reading changes neither the files nor an updater's state. *)
LEMMA ReadersOnly ==
  ASSUME NEW r \in Readers,
         OpenStream(r) \/ ReadOpen(r) \/ ReadMember(r) \/ ExtractNamed(r)
  PROVE  UNCHANGED <<fileVars, updVars>>
BY DEF OpenStream, ReadOpen, ReadMember, ExtractNamed

(* Steps that leave the files and the updaters alone. *)
LEMMA UnchangedType ==
  ASSUME TypeOK, UNCHANGED <<fileVars, updVars>>
  PROVE  TypeOK'
BY DEF TypeOK, Shape, NoDangling, fileVars, updVars

(* Every step keeps the types. *)
LEMMA NextTypeOK ==
  ASSUME TypeOK, [Next]_vars
  PROVE  TypeOK'
<1>1. ASSUME NEW u \in Updaters, Step(u) PROVE TypeOK'
  BY <1>1, BeginType, ScanOpenType, ScanMemberType, OpenArchiveType, CreateArchiveType,
     WriteMagicType, TakeLockType, OpenOutputType, WriteType, RenameType, CloseType
     DEF Step
<1>2. ASSUME NEW u \in Updaters, Kill(u) PROVE TypeOK'
  BY <1>2, KillType
<1>4. ASSUME NEW r \in Readers,
             OpenStream(r) \/ ReadOpen(r) \/ ReadMember(r) \/ ExtractNamed(r)
      PROVE  TypeOK'
  BY <1>4, ReadersOnly, UnchangedType
<1>5. CASE UNCHANGED vars
  BY <1>5, UnchangedType DEF vars
<1> QED BY <1>1, <1>2, <1>4, <1>5 DEF Next, Finished

(* Every descriptor an invocation uses is of a file that exists and every    *)
(* position it reads or writes at is one: no step of scan, write_archive or  *)
(* quick_append is undefined, whatever the others do or whoever is killed.   *)
THEOREM TypeInvariant == Spec => []TypeOK
<1>1. Init => TypeOK
  BY InitTypeOK
<1>2. TypeOK /\ [Next]_vars => TypeOK'
  BY NextTypeOK
<1> QED BY <1>1, <1>2, PTL DEF Spec
-----------------------------------------------------------------------------
(***************************************************************************)
(* The lock.  Whoever writes a new version holds the lock on the version   *)
(* it works from, and of one version only one invocation holds it.         *)
(***************************************************************************)
Writing == {"output", "write", "close"}
WriterHolds == \A u \in Updaters : pc[u] \in Writing => <<in[u], u>> \in held
OneHolder == \A g, h \in held : g[1] = h[1] => g[2] = h[2]
LockInv == locks => WriterHolds /\ OneHolder

(* At the start nobody writes. *)
LEMMA InitLock == Init => LockInv
BY DEF Init, LockInv, WriterHolds, OneHolder, Writing

(* Nobody begins to write, and no lock is taken or given back. *)
LEMMA NoLockStep ==
  ASSUME LockInv, UNCHANGED <<locks, held>>,
         \A v \in Updaters : pc'[v] \in Writing => pc[v] \in Writing /\ in'[v] = in[v]
  PROVE  LockInv'
BY DEF LockInv, WriterHolds, OneHolder

(* Exit gives back only the locks of the invocation that exits. *)
LEMMA QuitLock ==
  ASSUME TypeOK, LockInv, NEW u \in Updaters, NEW how \in {"done", "failed", "killed"},
         Quit(u, how)
  PROVE  LockInv'
<1>1. \A v \in Updaters : pc'[v] = IF v = u THEN how ELSE pc[v]
  BY DEF Quit, Goto, TypeOK, Shape
<1>2. UNCHANGED <<locks, in>> /\ held' = {h \in held : h[2] # u}
  BY DEF Quit
<1>3. how \notin Writing
  BY DEF Writing
<1>4. WriterHolds => WriterHolds'
  BY <1>1, <1>2, <1>3 DEF WriterHolds
<1>5. OneHolder => OneHolder'
  BY <1>2 DEF OneHolder
<1> QED BY <1>2, <1>4, <1>5 DEF LockInv

(* fcntl(F_SETLKW) waits until nobody else holds the lock. *)
LEMMA TakeLockLock ==
  ASSUME TypeOK, LockInv, NEW u \in Updaters, TakeLock(u)
  PROVE  LockInv'
<1> SUFFICES ASSUME locks' PROVE WriterHolds' /\ OneHolder'
  BY DEF LockInv
<1>1. /\ locks /\ LockFree(u) /\ held' = held \union {<<in[u], u>>}
      /\ UNCHANGED in /\ Goto(u, "output")
  BY DEF TakeLock
<1>2. WriterHolds /\ OneHolder
  BY <1>1 DEF LockInv
<1>3. \A v \in Updaters : pc'[v] = IF v = u THEN "output" ELSE pc[v]
  BY <1>1 DEF Goto, TypeOK, Shape
<1>4. WriterHolds'
  BY <1>1, <1>2, <1>3 DEF WriterHolds
<1>5. OneHolder'
  BY <1>1, <1>2 DEF OneHolder, LockFree
<1> QED BY <1>4, <1>5

(* Every step of an updater keeps the lock invariant. *)
LEMMA StepLock ==
  ASSUME TypeOK, LockInv, NEW u \in Updaters, Step(u)
  PROVE  LockInv'
<1> DEFINE Keeps == \A v \in Updaters : pc'[v] \in Writing => pc[v] \in Writing /\ in'[v] = in[v]
<1>1. pc \in [Updaters -> Places] /\ in \in [Updaters -> Nat]
  BY DEF TypeOK, Shape
<1>2. CASE Begin(u)
  <2>1. UNCHANGED <<locks, held, in>> /\ \E w \in {"open", "fopen"} : Goto(u, w)
    BY <1>2 DEF Begin, fileVars
  <2>2. Keeps
    BY <1>1, <2>1 DEF Goto, Writing
  <2> QED BY <2>1, <2>2, NoLockStep
<1>3. CASE ScanOpen(u)
  <2>1. CASE Quit(u, "failed")
    BY <2>1, QuitLock
  <2>2. CASE ~Quit(u, "failed")
    <3>1. /\ UNCHANGED <<locks, held>> /\ \E w \in {"open", "scan"} : Goto(u, w)
          /\ in' = in \/ in' = [in EXCEPT ![u] = names.archive]
      BY <1>3, <2>2 DEF ScanOpen, fileVars
    <3>2. Keeps
      BY <1>1, <3>1 DEF Goto, Writing
    <3> QED BY <3>1, <3>2, NoLockStep
  <2> QED BY <2>1, <2>2
<1>4. CASE ScanMember(u)
  <2>1. CASE Quit(u, "failed")
    BY <2>1, QuitLock
  <2>2. CASE ~Quit(u, "failed")
    <3>1. UNCHANGED <<locks, held, in>> /\ (pc' = pc \/ Goto(u, "open"))
      BY <1>4, <2>2 DEF ScanMember, fileVars
    <3>2. Keeps
      BY <1>1, <3>1 DEF Goto, Writing
    <3> QED BY <3>1, <3>2, NoLockStep
  <2> QED BY <2>1, <2>2
<1>5. CASE OpenArchive(u)
  <2>1. /\ UNCHANGED <<locks, held>> /\ \E w \in {"lock", "create"} : Goto(u, w)
        /\ in' = in \/ in' = [in EXCEPT ![u] = names.archive]
    BY <1>5 DEF OpenArchive, fileVars
  <2>2. Keeps
    BY <1>1, <2>1 DEF Goto, Writing
  <2> QED BY <2>1, <2>2, NoLockStep
<1>6. CASE CreateArchive(u) \/ WriteMagic(u)
  <2>1. UNCHANGED <<locks, held, in>> /\ \E w \in {"magic", "open"} : Goto(u, w)
    BY <1>6 DEF CreateArchive, WriteMagic
  <2>2. Keeps
    BY <1>1, <2>1 DEF Goto, Writing
  <2> QED BY <2>1, <2>2, NoLockStep
<1>7. CASE TakeLock(u)
  BY <1>7, TakeLockLock
<1>8. CASE OpenOutput(u)
  <2>1. UNCHANGED <<locks, held, in>> /\ Goto(u, "write") /\ pc[u] = "output"
    BY <1>8 DEF OpenOutput, At
  <2>2. Keeps
    BY <1>1, <2>1 DEF Goto, Writing
  <2> QED BY <2>1, <2>2, NoLockStep
<1>9. CASE Write(u)
  <2>1. CASE Quit(u, "failed")
    BY <2>1, QuitLock
  <2>2. CASE ~Quit(u, "failed")
    <3>1. UNCHANGED <<locks, held, in, pc>>
      BY <1>9, <2>2 DEF Write
    <3> QED BY <3>1, NoLockStep
  <2> QED BY <2>1, <2>2
<1>10. CASE Rename(u)
  <2>1. CASE Quit(u, "failed")
    BY <2>1, QuitLock
  <2>2. CASE ~Quit(u, "failed")
    <3>1. UNCHANGED <<locks, held, in>> /\ Goto(u, "close") /\ pc[u] = "write"
      BY <1>10, <2>2 DEF Rename, Copied, At
    <3>2. Keeps
      BY <1>1, <3>1 DEF Goto, Writing
    <3> QED BY <3>1, <3>2, NoLockStep
  <2> QED BY <2>1, <2>2
<1>11. CASE CloseArchive(u)
  BY <1>11, QuitLock DEF CloseArchive
<1> QED BY <1>2, <1>3, <1>4, <1>5, <1>6, <1>7, <1>8, <1>9, <1>10, <1>11 DEF Step

(* Every step keeps the lock invariant. *)
LEMMA NextLock ==
  ASSUME TypeOK, LockInv, [Next]_vars
  PROVE  LockInv'
<1>1. ASSUME NEW u \in Updaters, Step(u) PROVE LockInv'
  BY <1>1, StepLock
<1>2. ASSUME NEW u \in Updaters, Kill(u) PROVE LockInv'
  BY <1>2, QuitLock DEF Kill
<1>4. CASE UNCHANGED <<fileVars, updVars>>
  BY <1>4, NoLockStep DEF fileVars, updVars
<1>5. ASSUME NEW r \in Readers,
             OpenStream(r) \/ ReadOpen(r) \/ ReadMember(r) \/ ExtractNamed(r)
      PROVE  LockInv'
  BY <1>4, <1>5, ReadersOnly
<1>6. CASE UNCHANGED vars
  BY <1>4, <1>6 DEF vars
<1> QED BY <1>1, <1>2, <1>5, <1>6 DEF Next, Finished

(* With LOCKS, who writes holds the lock of the version it works from, and *)
(* a lock has one holder: lock_for_update comes before write_archive, and  *)
(* only close_archive and exit give the lock back.                         *)
THEOREM LockInvariant == Spec => []LockInv
<1>1. Init => LockInv
  BY InitLock
<1>2. TypeOK /\ LockInv /\ [Next]_vars => LockInv'
  BY NextLock
<1> QED BY <1>1, <1>2, TypeInvariant, PTL DEF Spec

(* With LOCKS, of the invocations that work from one version of the archive  *)
(* only one at a time writes a new one, whatever the number of invocations   *)
(* and whoever is killed in between (lock_for_update, write_archive).        *)
THEOREM OneWriterTheorem == Spec => []OneWriterPerVersion
<1>1. LockInv => OneWriterPerVersion
  <2> SUFFICES ASSUME LockInv, locks, NEW u \in Updaters, NEW v \in Updaters,
                      WritesTemp(u), WritesTemp(v), in[u] = in[v]
               PROVE  u = v
    BY DEF OneWriterPerVersion
  <2>1. <<in[u], u>> \in held /\ <<in[v], v>> \in held
    BY DEF LockInv, WriterHolds, Writing, WritesTemp, At
  <2>2. \A g, h \in held : g[1] = h[1] => g[2] = h[2]
    BY DEF LockInv, OneHolder
  <2> QED BY <2>1, <2>2
<1> QED BY <1>1, LockInvariant, PTL
-----------------------------------------------------------------------------
(***************************************************************************)
(* Quick appends only ever append.                                         *)
(***************************************************************************)
(* A file that is appended to keeps what it had. *)
LEMMA AppendKeeps ==
  ASSUME NEW S, NEW c \in Seq(S), NEW d, d = c \/ \E e \in S : d = Append(c, e)
  PROVE  Len(d) >= Len(c) /\ SubSeq(d, 1, Len(c)) = c
<1>1. CASE d = c
  BY <1>1
<1>2. CASE \E e \in S : d = Append(c, e)
  <2>1. PICK e \in S : d = Append(c, e)
    BY <1>2
  <2>2. Len(c) \in Nat /\ Len(d) = Len(c) + 1 /\ d \in Seq(S)
    BY <2>1
  <2>3. \A i \in 1..Len(c) : d[i] = c[i]
    BY <2>1
  <2>4. SubSeq(d, 1, Len(c)) = c
    BY <2>2, <2>3
  <2> QED BY <2>2, <2>4
<1> QED BY <1>1, <1>2

(* Files are made, and only added to. *)
Grows ==
  \A i \in 1..Len(data) :
    data'[i] = data[i] \/ \E c \in Cells : data'[i] = Append(data[i], c)

(* A file only added to is not overwritten. *)
LEMMA GrowsInPlace ==
  ASSUME TypeOK, Grows
  PROVE  InPlace
<1> SUFFICES ASSUME NEW i \in DOMAIN data
             PROVE  Len(data'[i]) >= Len(data[i]) /\ SubSeq(data'[i], 1, Len(data[i])) = data[i]
  BY DEF InPlace
<1>1. data \in Seq(Seq(Cells))
  BY DEF TypeOK, Shape
<1>2. i \in 1..Len(data) /\ data[i] \in Seq(Cells)
  BY <1>1
<1>3. data'[i] = data[i] \/ \E c \in Cells : data'[i] = Append(data[i], c)
  BY <1>2 DEF Grows
<1> QED BY <1>2, <1>3, AppendKeeps

(* Every step but the write to the temporary file only adds to files. *)
LEMMA StepGrows ==
  ASSUME TypeOK, NEW u \in Updaters, Step(u),
         pc[u] = "write" => op[u].kind # "edit"
  PROVE  Grows
<1>1. CASE UNCHANGED data
  BY <1>1 DEF Grows
<1>2. CASE NewFile("archive") \/ NewFile("temp")
  BY <1>2, NewFileType DEF Grows
<1>3. CASE WriteMagic(u)
  <2>1. out[u] \in 1..Len(data) /\ Magic \in Cells /\ data \in Seq(Seq(Cells))
    BY <1>3 DEF WriteMagic, At, TypeOK, Shape, NoDangling, Cells
  <2>2. data' = [data EXCEPT ![out[u]] = Append(data[out[u]], Magic)]
    BY <1>3 DEF WriteMagic
  <2>3. \A i \in 1..Len(data) : data'[i] = data[i] \/ data'[i] = Append(data[i], Magic)
    BY <2>1, <2>2
  <2> QED BY <2>1, <2>3 DEF Grows
<1>4. CASE Write(u) /\ ~Quit(u, "failed")
  <2>1. /\ At(u, "write") /\ k[u] <= Len(map[u]) /\ ~ShortRead(u)
        /\ data' = [data EXCEPT ![out[u]] = Put(u, data[out[u]])]
    BY <1>4 DEF Write
  <2>2. out[u] \in 1..Len(data) /\ data \in Seq(Seq(Cells))
    BY <2>1 DEF At, TypeOK, Shape, NoDangling
  <2>3. NextCell(u) \in Cells
    BY <2>1, NextCellType
  <2>4. Put(u, data[out[u]]) = Append(data[out[u]], NextCell(u))
    BY <2>1 DEF Put, At
  <2>5. \A i \in 1..Len(data) : data'[i] = data[i] \/ data'[i] = Append(data[i], NextCell(u))
    BY <2>1, <2>2, <2>4
  <2> QED BY <2>3, <2>5 DEF Grows
<1>5. UNCHANGED data \/ NewFile("archive") \/ NewFile("temp") \/ WriteMagic(u)
      \/ (Write(u) /\ ~Quit(u, "failed"))
  BY DEF Step, Begin, ScanOpen, ScanMember, OpenArchive, CreateArchive, TakeLock,
         OpenOutput, Write, Rename, CloseArchive, Quit, fileVars
<1> QED BY <1>1, <1>2, <1>3, <1>4, <1>5

(* While every run so far is a quick append, nothing that is in the archive  *)
(* is lost or moved, also when several of them create it or append to it at  *)
(* once, or are killed (quick_append, O_APPEND).                             *)
THEOREM QuickKeepsTheorem == Spec => QuickKeeps
<1> DEFINE Quick == \A u \in Updaters : runs[u] = 0 \/ op[u].kind = "quick"
<1>1. TypeOK /\ [Next]_vars => [Quick => InPlace]_vars
  <2> SUFFICES ASSUME TypeOK, Next, Quick PROVE InPlace
    OBVIOUS
  <2>1. ASSUME NEW u \in Updaters, Step(u) PROVE Grows
    <3>1. pc[u] = "write" => op[u].kind # "edit"
      BY DEF TypeOK, NoDangling
    <3> QED BY <2>1, <3>1, StepGrows
  <2>2. UNCHANGED data => Grows
    BY DEF Grows
  <2>3. Grows
    <3>1. ASSUME NEW u \in Updaters, Kill(u) PROVE UNCHANGED data
      BY <3>1 DEF Kill, Quit
    <3>2. ASSUME NEW r \in Readers,
                 OpenStream(r) \/ ReadOpen(r) \/ ReadMember(r) \/ ExtractNamed(r)
          PROVE  UNCHANGED data
      BY <3>2, ReadersOnly DEF fileVars
    <3>3. Finished => UNCHANGED data
      BY DEF Finished, vars, fileVars
    <3> QED BY <2>1, <2>2, <3>1, <3>2, <3>3 DEF Next
  <2> QED BY <2>3, GrowsInPlace
<1> QED BY <1>1, TypeInvariant, PTL DEF Spec, QuickKeeps
=============================================================================
