---------------------------- MODULE ArMapProofs ----------------------------
(***************************************************************************)
(* Proofs about the member map of ar01: d, r and q keep it one list that   *)
(* holds every element, d and r take out the members they are asked to,    *)
(* keep the others in order and put the files at their place, and m asked  *)
(* to move members in the middle does that and loses none.                 *)
(***************************************************************************)
EXTENDS ArMap, NatInduct, Integers, SequenceTheorems, TLAPS

Pcs == {"start", "position", "edit", "index", "write", "install",
        "done", "exit", "crash", "hang"}
(* The map has been made, and ar01 has not failed. *)
Live == pc \in {"position", "edit", "index", "write", "install", "done"}
(* Elements 2 to Old are the members of the archive found. *)
Old == Len(arch) + 1
(* write_archive made an element for the index, which is last and not on    *)
(* the list from mapstart; the other elements are.                          *)
Made == symdef # 0 /\ src[symdef] = 0
Count == IF Made THEN Len(next) - 1 ELSE Len(next)

(* The pointers are elements or null, and every element has an info. *)
Pointers == Len(next) \in Nat /\ next \in Seq(0..Len(next))
Shape ==
  /\ pc \in Pcs
  /\ Pointers /\ Len(next) > 0
  /\ name = [e \in 1..Len(next) |-> name[e]]
  /\ date = [e \in 1..Len(next) |-> date[e]]
  /\ src = [e \in 1..Len(next) |-> src[e]]
  /\ body = [e \in 1..Len(next) |-> body[e]]
  /\ map \in 0..Len(next) /\ after \in 0..Len(next)
  /\ tail \in 0..Len(next) /\ symdef \in 0..Len(next)
  /\ argn \in Nat /\ argn > 0
  /\ Len(out) \in Nat /\ out = [i \in 1..Len(out) |-> out[i]]

(* What the command line, the archive and the disk may be. *)
Fixed ==
  /\ cmd \in Commands
  /\ arch \in Archives \union {<<>>}
  /\ \E p \in Present : present \subseteq p

(* What is true before the map is made ... *)
Begun ==
  pc = "start" =>
    /\ next = <<0>> /\ name = <<NoName>> /\ date = <<0>> /\ src = <<0>>
    /\ symdef = 0 /\ argn = 1 /\ tail = 0 /\ out = <<>>
(* ... when it has just been made ... *)
JustMade ==
  pc = "position" =>
    /\ cmd.op \in {"r", "m"} /\ argn = 1
    /\ Len(next) = Old
    /\ \A e \in 1..Old : next[e] = (IF e = Old THEN 0 ELSE e + 1)
    /\ \A e \in 2..Old : name[e] = arch[e - 1].name
    /\ map = (IF Old = 1 THEN 0 ELSE 2)
(* ... and later. *)
Progress ==
  /\ pc \in {"position", "edit", "index"} => symdef = 0 /\ out = <<>>
  /\ pc \in {"index", "write", "install", "done"} => argn > Len(cmd.files)
  /\ pc = "index" => tail = WriteFrom
  /\ pc = "edit" /\ cmd.op = "m" => after # 0

(* Where the elements come from. *)
FromArg(e) == \E a \in 1..(argn - 1) : a \in Args /\ name[e] = cmd.files[a]
Sourced ==
  IF cmd.op = "q" THEN \A e \in 1..Len(next) : src[e] = 0
  ELSE /\ Old <= Count
       /\ \A e \in 1..Len(next) : src[e] = IF e <= Old THEN e - 1 ELSE 0
MadeRight ==
  Made => /\ symdef = Len(next) /\ name[symdef] = Symdef /\ Len(next) > 1
          /\ cmd.op # "m" => next[symdef] = next[1]
Elems ==
  Live =>
    /\ name[1] = NoName /\ Sourced /\ MadeRight
    /\ \A e \in 2..Count : src[e] = 0 => name[e] = NoName \/ FromArg(e)

Basic == Shape /\ Fixed /\ Begun /\ JustMade /\ Progress /\ Elems
-----------------------------------------------------------------------------
(***************************************************************************)
(* Following next: what the function that Nth defines computes.            *)
(***************************************************************************)
Follow(g, e, n) ==
  g = [k \in 0..n |->
        IF k = 0 THEN e ELSE IF g[k - 1] = 0 THEN 0 ELSE next[g[k - 1]]]

(* The function that Nth defines exists. *)
LEMMA FollowExists ==
  ASSUME NEW e
  PROVE  \A n \in Nat : \E g : Follow(g, e, n)
<1> DEFINE Fits(g, n) == Follow(g, e, n)
           T == {n \in Nat : \E g : Fits(g, n)}
<1>1. 0 \in T
  <2> DEFINE g == [k \in 0..0 |-> e]
  <2>1. Fits(g, 0)
    BY DEF Follow
  <2> QED BY <2>1
<1>2. ASSUME NEW n \in Nat, n \in T PROVE n + 1 \in T
  <2>1. PICK g : Fits(g, n)
    BY <1>2
  <2> DEFINE h == [k \in 0..(n + 1) |->
               IF k = n + 1 THEN IF g[n] = 0 THEN 0 ELSE next[g[n]] ELSE g[k]]
             f == [k \in 0..(n + 1) |->
               IF k = 0 THEN e ELSE IF h[k - 1] = 0 THEN 0 ELSE next[h[k - 1]]]
  <2>2. ASSUME NEW k \in 0..(n + 1) PROVE h[k] = f[k]
    <3>1. CASE k = 0
      <4>1. g[0] = e
        BY <2>1 DEF Follow
      <4> QED BY <3>1, <4>1
    <3>2. CASE k = n + 1
      <4>1. h[n] = g[n] /\ k - 1 = n
        BY <3>2
      <4> QED BY <3>2, <4>1
    <3>3. CASE k \in 1..n
      <4>1. k \in 0..n /\ k # 0 /\ h[k] = g[k] /\ h[k - 1] = g[k - 1]
        BY <3>3
      <4>2. g[k] = IF g[k - 1] = 0 THEN 0 ELSE next[g[k - 1]]
        BY <2>1, <4>1 DEF Follow
      <4> QED BY <4>1, <4>2
    <3> QED BY <3>1, <3>2, <3>3
  <2>3. h = f
    <3> HIDE DEF h, f
    <3>1. h = [k \in 0..(n + 1) |-> h[k]] /\ f = [k \in 0..(n + 1) |-> f[k]]
      BY DEF h, f
    <3> QED BY <2>2, <3>1
  <2>4. Fits(h, n + 1)
    BY <2>3 DEF Follow
  <2>5. n + 1 \in Nat /\ \E hh : Fits(hh, n + 1)
    <3> HIDE DEF h, Fits
    <3> QED BY <2>4
  <2> QED BY <2>5
<1>3. \A n \in Nat : n \in T
  <2> HIDE DEF T
  <2> QED BY <1>1, <1>2, SetInduction
<1> QED BY <1>3

(* The function that Nth chooses satisfies its equation. *)
LEMMA NthFollows ==
  ASSUME NEW e, Len(next) \in Nat
  PROVE  /\ DOMAIN Nth(e) = 0..Len(next)
         /\ Nth(e)[0] = e
         /\ \A k \in 1..Len(next) :
              Nth(e)[k] = IF Nth(e)[k - 1] = 0 THEN 0 ELSE next[Nth(e)[k - 1]]
<1>1. PICK n \in Nat : n = Len(next)
  OBVIOUS
<1>2. Follow(Nth(e), e, Len(next))
  <2>1. \E g : Follow(g, e, n)
    BY FollowExists
  <2>2. \E g : g = [k \in 0..Len(next) |->
                    IF k = 0 THEN e ELSE IF g[k - 1] = 0 THEN 0 ELSE next[g[k - 1]]]
    BY <1>1, <2>1, Zenon DEF Follow
  <2> QED BY <2>2, ZenonT(30) DEF Nth, Follow
<1>3. PICK f : f = Nth(e)
  OBVIOUS
<1>4. Follow(f, e, Len(next))
  BY <1>2, <1>3
<1>5. DOMAIN f = 0..Len(next) /\ f[0] = e
  BY <1>4 DEF Follow
<1>6. \A k \in 1..Len(next) : f[k] = IF f[k - 1] = 0 THEN 0 ELSE next[f[k - 1]]
  <2> TAKE k \in 1..Len(next)
  <2>1. k \in 0..Len(next) /\ k # 0
    OBVIOUS
  <2> QED BY <1>4, <2>1 DEF Follow
<1> QED BY <1>3, <1>5, <1>6

(* Whatever is reached is an element or null. *)
LEMMA NthType ==
  ASSUME Pointers, NEW e \in 0..Len(next)
  PROVE  \A k \in 0..Len(next) : Nth(e)[k] \in 0..Len(next)
<1>1. PICK f : f = Nth(e)
  OBVIOUS
<1>2. f[0] = e /\ \A k \in 1..Len(next) : f[k] = IF f[k - 1] = 0 THEN 0 ELSE next[f[k - 1]]
  BY <1>1, NthFollows DEF Pointers
<1> DEFINE T == {k \in Nat : k <= Len(next) => f[k] \in 0..Len(next)}
<1>3. 0 \in T
  BY <1>2
<1>4. ASSUME NEW k \in Nat, k \in T PROVE k + 1 \in T
  <2> SUFFICES ASSUME k + 1 <= Len(next) PROVE f[k + 1] \in 0..Len(next)
    OBVIOUS
  <2>1. k + 1 \in 1..Len(next) /\ (k + 1) - 1 = k /\ f[k] \in 0..Len(next)
    BY <1>4 DEF Pointers
  <2>2. f[k + 1] = IF f[k] = 0 THEN 0 ELSE next[f[k]]
    BY <1>2, <2>1
  <2>3. f[k] # 0 => next[f[k]] \in 0..Len(next)
    BY <2>1 DEF Pointers
  <2> QED BY <2>1, <2>2, <2>3
<1>5. \A k \in Nat : k \in T
  <2> HIDE DEF T
  <2> QED BY <1>3, <1>4, SetInduction
<1> QED BY <1>1, <1>5 DEF Pointers

(* L lists c elements from mapstart to null, each once, by the pointers nx. *)
OnList(L, c) == c \in Nat /\ c > 0 /\ L \in [1..c -> 1..c] /\ L[1] = Mapstart
EachOnce(L, c) ==
  /\ \A i, j \in 1..c : L[i] = L[j] => i = j
  /\ \A e \in 1..c : \E i \in 1..c : L[i] = e
InOrder(L, nx, c) == (\A i \in 1..(c - 1) : nx[L[i]] = L[i + 1]) /\ nx[L[c]] = 0
IsList(L, nx, c) == OnList(L, c) /\ EachOnce(L, c) /\ InOrder(L, nx, c)

(* Nth follows the list. *)
LEMMA NthList ==
  ASSUME Pointers, NEW L, NEW c \in 1..Len(next), IsList(L, next, c), NEW p \in 1..c
  PROVE  \A k \in 0..Len(next) : Nth(L[p])[k] = IF p + k <= c THEN L[p + k] ELSE 0
<1>1. PICK f : f = Nth(L[p])
  OBVIOUS
<1>2. f[0] = L[p] /\ \A k \in 1..Len(next) : f[k] = IF f[k - 1] = 0 THEN 0 ELSE next[f[k - 1]]
  BY <1>1, NthFollows DEF Pointers
<1>3. /\ c \in Nat /\ \A i \in 1..c : L[i] \in 1..c /\ L[i] # 0
      /\ \A i \in 1..(c - 1) : next[L[i]] = L[i + 1]
      /\ next[L[c]] = 0
  BY DEF IsList, OnList, InOrder
<1> DEFINE T == {k \in Nat : k <= Len(next) => f[k] = IF p + k <= c THEN L[p + k] ELSE 0}
<1>4. 0 \in T
  BY <1>2, <1>3
<1>5. ASSUME NEW k \in Nat, k \in T PROVE k + 1 \in T
  <2> SUFFICES ASSUME k + 1 <= Len(next)
               PROVE  f[k + 1] = IF p + (k + 1) <= c THEN L[p + (k + 1)] ELSE 0
    OBVIOUS
  <2>1. k + 1 \in 1..Len(next) /\ (k + 1) - 1 = k
    BY DEF Pointers
  <2>2. f[k] = IF p + k <= c THEN L[p + k] ELSE 0
    BY <1>5, <2>1 DEF Pointers
  <2>3. f[k + 1] = IF f[k] = 0 THEN 0 ELSE next[f[k]]
    BY <1>2, <2>1
  <2>4. CASE p + k < c
    <3>1. p + k \in 1..(c - 1) /\ (p + k) + 1 = p + (k + 1) /\ p + k \in 1..c
      BY <1>3, <2>4
    <3> QED BY <1>3, <2>2, <2>3, <3>1
  <2>5. CASE p + k = c
    <3>1. f[k] = L[p + k] /\ ~(p + (k + 1) <= c) /\ c \in 1..c
      BY <1>3, <2>2, <2>5
    <3>2. f[k] = L[c] /\ L[c] # 0
      BY <1>3, <2>5, <3>1
    <3> QED BY <1>3, <2>3, <3>1, <3>2
  <2>6. CASE p + k > c
    BY <1>3, <2>2, <2>3, <2>6
  <2> QED BY <1>3, <2>4, <2>5, <2>6
<1>6. \A k \in Nat : k \in T
  <2> HIDE DEF T
  <2> QED BY <1>4, <1>5, SetInduction
<1> QED BY <1>1, <1>6 DEF Pointers

(* find_mapelt finds an element that matches, or none. *)
LEMMA FindType ==
  ASSUME Pointers, NEW e \in 0..Len(next), NEW n
  PROVE  /\ find_mapelt(e, n) \in 0..Len(next)
         /\ find_mapelt(e, n) # 0 => Matches(name[find_mapelt(e, n)], n)
<1>1. PICK f : f = Nth(e)
  OBVIOUS
<1>2. DOMAIN f = 0..Len(next) /\ \A k \in 0..Len(next) : f[k] \in 0..Len(next)
  BY <1>1, NthType, NthFollows DEF Pointers
<1>3. PICK hits : hits = {k \in DOMAIN f : f[k] # 0 /\ Matches(name[f[k]], n)}
  OBVIOUS
<1>4. find_mapelt(e, n) =
        IF hits = {} THEN 0 ELSE f[CHOOSE k \in hits : \A j \in hits : k <= j]
  BY <1>1, <1>3 DEF find_mapelt, First
<1>5. CASE hits # {}
  <2>1. \E k \in hits : \A j \in hits : k <= j
    <3>1. hits \subseteq Nat
      BY <1>2, <1>3 DEF Pointers
    <3> QED BY <1>5, <3>1, LeastNat
  <2>2. PICK k \in hits : find_mapelt(e, n) = f[k]
    BY <1>4, <1>5, <2>1
  <2> QED BY <1>2, <1>3, <2>2
<1> QED BY <1>4, <1>5 DEF Pointers

(* On a list, find_mapelt finds the first element that matches. *)
LEMMA FindInList ==
  ASSUME Pointers, NEW L, NEW c \in 1..Len(next), IsList(L, next, c), NEW p \in 1..c, NEW n
  PROVE  \/ /\ find_mapelt(L[p], n) = 0
            /\ \A i \in p..c : ~Matches(name[L[i]], n)
         \/ \E i \in p..c : /\ find_mapelt(L[p], n) = L[i] /\ Matches(name[L[i]], n)
                            /\ \A j \in p..(i - 1) : ~Matches(name[L[j]], n)
<1>1. PICK f : f = Nth(L[p])
  OBVIOUS
<1>2. /\ DOMAIN f = 0..Len(next)
      /\ \A k \in 0..Len(next) : f[k] = IF p + k <= c THEN L[p + k] ELSE 0
  BY <1>1, NthList, NthFollows DEF Pointers
<1>3. PICK hits : hits = {k \in DOMAIN f : f[k] # 0 /\ Matches(name[f[k]], n)}
  OBVIOUS
<1>4. find_mapelt(L[p], n) =
        IF hits = {} THEN 0 ELSE f[CHOOSE k \in hits : \A j \in hits : k <= j]
  BY <1>1, <1>3 DEF find_mapelt, First
<1>5. \A i \in 1..c : L[i] # 0
  BY DEF IsList, OnList
<1>6. \A i \in p..c : i - p \in 0..Len(next) /\ f[i - p] = L[i] /\ L[i] # 0
  <2> TAKE i \in p..c
  <2>1. i - p \in 0..Len(next) /\ p + (i - p) = i /\ i <= c /\ i \in 1..c
    BY DEF Pointers
  <2> QED BY <1>2, <1>5, <2>1
<1>7. CASE hits = {}
  <2>1. \A i \in p..c : ~Matches(name[L[i]], n)
    BY <1>2, <1>3, <1>6, <1>7
  <2> QED BY <1>4, <1>7, <2>1
<1>8. CASE hits # {}
  <2>1. hits \subseteq Nat
    BY <1>2, <1>3 DEF Pointers
  <2>2. \E k \in hits : \A j \in hits : k <= j
    BY <1>8, <2>1, LeastNat
  <2>3. PICK k \in hits : find_mapelt(L[p], n) = f[k] /\ \A j \in hits : k <= j
    BY <1>4, <1>8, <2>2
  <2>4. k \in 0..Len(next) /\ f[k] # 0 /\ Matches(name[f[k]], n)
    BY <1>2, <1>3, <2>3
  <2>5. p + k <= c /\ f[k] = L[p + k]
    BY <1>2, <2>4
  <2>6. PICK i \in p..c : i = p + k
    BY <2>4, <2>5 DEF Pointers
  <2>7. ASSUME NEW j \in p..(i - 1) PROVE ~Matches(name[L[j]], n)
    <3>1. j \in p..c /\ j - p < k
      BY <2>4, <2>6 DEF Pointers
    <3>2. j - p \notin hits
      BY <2>1, <2>3, <3>1
    <3> QED BY <1>2, <1>3, <1>6, <3>1, <3>2
  <2> QED BY <2>3, <2>4, <2>5, <2>6, <2>7
<1> QED BY <1>7, <1>8

(* On a list, last_mapelt finds its end. *)
LEMMA LastInList ==
  ASSUME Pointers, NEW L, NEW c \in 1..Len(next), IsList(L, next, c)
  PROVE  last_mapelt(Mapstart) = L[c]
<1>1. PICK f : f = Nth(L[1])
  OBVIOUS
<1>0. Mapstart = L[1] /\ c \in Nat /\ 1 \in 1..c
  BY DEF IsList, OnList
<1>2. /\ DOMAIN f = 0..Len(next)
      /\ \A k \in 0..Len(next) : f[k] = IF 1 + k <= c THEN L[1 + k] ELSE 0
  BY <1>0, <1>1, NthList, NthFollows DEF Pointers
<1>3. PICK hits : hits = {k \in DOMAIN f : f[k] # 0 /\ next[f[k]] = 0}
  OBVIOUS
<1>4. last_mapelt(Mapstart) =
        IF hits = {} THEN 0 ELSE f[CHOOSE k \in hits : \A j \in hits : k <= j]
  BY <1>0, <1>1, <1>3 DEF last_mapelt, First
<1>5. /\ \A i \in 1..c : L[i] # 0
      /\ \A i \in 1..(c - 1) : next[L[i]] = L[i + 1]
      /\ next[L[c]] = 0
  BY DEF IsList, OnList, InOrder
<1>6. ASSUME NEW k \in 0..Len(next) PROVE k \in hits <=> k = c - 1
  <2>1. CASE 1 + k < c
    <3>1. 1 + k \in 1..(c - 1) /\ (1 + k) + 1 \in 1..c
      BY <1>0, <2>1
    <3> QED BY <1>2, <1>3, <1>5, <2>1, <3>1
  <2>2. CASE 1 + k = c
    BY <1>0, <1>2, <1>3, <1>5, <2>2
  <2>3. CASE 1 + k > c
    BY <1>0, <1>2, <1>3, <2>3
  <2> QED BY <1>0, <2>1, <2>2, <2>3
<1>7. c - 1 \in 0..Len(next) /\ c - 1 \in Nat
  BY <1>0 DEF Pointers
<1>8. hits = {c - 1}
  BY <1>2, <1>3, <1>6, <1>7
<1>9. (CHOOSE k \in hits : \A j \in hits : k <= j) = c - 1
  BY <1>7, <1>8
<1> QED BY <1>0, <1>2, <1>4, <1>7, <1>8, <1>9

(* On a list, prev_mapelt finds the element before. *)
LEMMA PrevInList ==
  ASSUME Pointers, NEW L, NEW c \in 1..Len(next), IsList(L, next, c), NEW i \in 2..c
  PROVE  prev_mapelt(Mapstart, L[i]) = L[i - 1]
<1>1. PICK f : f = Nth(L[1])
  OBVIOUS
<1>0. Mapstart = L[1] /\ c \in Nat /\ 1 \in 1..c /\ i \in 1..c
  BY DEF IsList, OnList
<1>2. /\ DOMAIN f = 0..Len(next)
      /\ \A k \in 0..Len(next) : f[k] = IF 1 + k <= c THEN L[1 + k] ELSE 0
  BY <1>0, <1>1, NthList, NthFollows DEF Pointers
<1>3. PICK hits : hits = {k \in DOMAIN f : f[k] # 0 /\ (next[f[k]] = L[i] /\ L[i] # 0)}
  OBVIOUS
<1>4. prev_mapelt(Mapstart, L[i]) =
        IF hits = {} THEN 0 ELSE f[CHOOSE k \in hits : \A j \in hits : k <= j]
  BY <1>0, <1>1, <1>3 DEF prev_mapelt, First
<1>5. /\ \A j \in 1..c : L[j] # 0
      /\ \A j \in 1..(c - 1) : next[L[j]] = L[j + 1]
      /\ next[L[c]] = 0
  BY DEF IsList, OnList, InOrder
<1>6. \A j \in 1..c : L[j] = L[i] => j = i
  BY <1>0 DEF IsList, EachOnce
<1>7. ASSUME NEW k \in 0..Len(next) PROVE k \in hits <=> k = i - 2
  <2>1. CASE 1 + k < c
    <3>1. 1 + k \in 1..(c - 1) /\ (1 + k) + 1 \in 1..c /\ 1 + k \in 1..c
      BY <1>0, <2>1
    <3>2. f[k] = L[1 + k] /\ f[k] # 0 /\ next[f[k]] = L[(1 + k) + 1]
      BY <1>2, <1>5, <2>1, <3>1
    <3>3. L[(1 + k) + 1] = L[i] <=> (1 + k) + 1 = i
      BY <1>6, <3>1
    <3> QED BY <1>0, <1>2, <1>3, <1>5, <3>1, <3>2, <3>3
  <2>2. CASE 1 + k = c
    BY <1>0, <1>2, <1>3, <1>5, <2>2
  <2>3. CASE 1 + k > c
    BY <1>0, <1>2, <1>3, <2>3
  <2> QED BY <1>0, <2>1, <2>2, <2>3
<1>8. i - 2 \in 0..Len(next) /\ i - 2 \in Nat /\ 1 + (i - 2) = i - 1 /\ i - 1 <= c
  BY <1>0 DEF Pointers
<1>9. hits = {i - 2}
  BY <1>2, <1>3, <1>7, <1>8
<1>10. (CHOOSE k \in hits : \A j \in hits : k <= j) = i - 2
  BY <1>8, <1>9
<1>11. f[i - 2] = L[i - 1]
  BY <1>2, <1>8
<1> QED BY <1>4, <1>9, <1>10, <1>11

(* Before null there is nothing. *)
LEMMA PrevOfNull == prev_mapelt(Mapstart, 0) = 0
BY DEF prev_mapelt, First

(* Null has no members. *)
LEMMA FindFromNull ==
  ASSUME Pointers, NEW n
  PROVE  find_mapelt(0, n) = 0
<1>1. PICK f : f = Nth(0)
  OBVIOUS
<1>2. /\ DOMAIN f = 0..Len(next) /\ f[0] = 0
      /\ \A k \in 1..Len(next) : f[k] = IF f[k - 1] = 0 THEN 0 ELSE next[f[k - 1]]
  BY <1>1, NthFollows DEF Pointers
<1> DEFINE T == {k \in Nat : k <= Len(next) => f[k] = 0}
<1>3. 0 \in T
  BY <1>2
<1>4. ASSUME NEW k \in Nat, k \in T PROVE k + 1 \in T
  <2> SUFFICES ASSUME k + 1 <= Len(next) PROVE f[k + 1] = 0
    OBVIOUS
  <2>1. k + 1 \in 1..Len(next) /\ (k + 1) - 1 = k /\ f[k] = 0
    BY <1>4 DEF Pointers
  <2> QED BY <1>2, <2>1
<1>5. \A k \in Nat : k \in T
  <2> HIDE DEF T
  <2> QED BY <1>3, <1>4, SetInduction
<1>6. \A k \in 0..Len(next) : f[k] = 0
  BY <1>5 DEF Pointers
<1>7. {k \in DOMAIN f : f[k] # 0 /\ Matches(name[f[k]], n)} = {}
  BY <1>2, <1>6
<1> QED BY <1>1, <1>7 DEF find_mapelt, First

(* last_mapelt and prev_mapelt find elements. *)
LEMMA PlacesType ==
  ASSUME Pointers, NEW e \in 0..Len(next), NEW this
  PROVE  prev_mapelt(e, this) \in 0..Len(next) /\ last_mapelt(e) \in 0..Len(next)
<1>1. PICK f : f = Nth(e)
  OBVIOUS
<1>2. DOMAIN f = 0..Len(next) /\ \A k \in 0..Len(next) : f[k] \in 0..Len(next)
  BY <1>1, NthType, NthFollows DEF Pointers
<1>3. ASSUME NEW hits, hits \subseteq DOMAIN f
      PROVE  (IF hits = {} THEN 0 ELSE f[CHOOSE k \in hits : \A j \in hits : k <= j]) \in 0..Len(next)
  <2>1. CASE hits # {}
    <3>1. hits \subseteq Nat
      BY <1>2, <1>3 DEF Pointers
    <3>2. \E k \in hits : \A j \in hits : k <= j
      BY <2>1, <3>1, LeastNat
    <3>3. PICK k \in hits : k = CHOOSE m \in hits : \A j \in hits : m <= j
      BY <3>2
    <3>4. f[k] \in 0..Len(next)
      BY <1>2, <1>3, <3>3
    <3> QED BY <2>1, <3>3, <3>4
  <2> QED BY <2>1 DEF Pointers
<1>4. prev_mapelt(e, this) \in 0..Len(next)
  <2>1. PICK hits : hits = {k \in DOMAIN f : f[k] # 0 /\ (next[f[k]] = this /\ this # 0)}
    OBVIOUS
  <2>2. prev_mapelt(e, this) = IF hits = {} THEN 0 ELSE f[CHOOSE k \in hits : \A j \in hits : k <= j]
    BY <1>1, <2>1 DEF prev_mapelt, First
  <2> QED BY <1>3, <2>1, <2>2
<1>5. last_mapelt(e) \in 0..Len(next)
  <2>1. PICK hits : hits = {k \in DOMAIN f : f[k] # 0 /\ next[f[k]] = 0}
    OBVIOUS
  <2>2. last_mapelt(e) = IF hits = {} THEN 0 ELSE f[CHOOSE k \in hits : \A j \in hits : k <= j]
    BY <1>1, <2>1 DEF last_mapelt, First
  <2> QED BY <1>3, <2>1, <2>2
<1> QED BY <1>4, <1>5

-----------------------------------------------------------------------------
(***************************************************************************)
(* The types, and where elements come from.                                *)
(***************************************************************************)
(* What Append does to a sequence whose elements have no type. *)
LEMMA AppendAny ==
  ASSUME NEW s, NEW n \in Nat, s = [e \in 1..n |-> s[e]], NEW x
  PROVE  /\ Len(s) = n /\ Len(Append(s, x)) = n + 1
         /\ Append(s, x) = [e \in 1..(n + 1) |-> Append(s, x)[e]]
         /\ Append(s, x)[n + 1] = x
         /\ \A e \in 1..n : Append(s, x)[e] = s[e]
<1>1. PICK S : S = {s[e] : e \in 1..n} \union {x}
  OBVIOUS
<1>2. s \in [1..n -> S]
  BY <1>1
<1>3. s \in Seq(S) /\ x \in S
  BY <1>1, <1>2, SeqDef
<1>4. Len(s) = n
  BY <1>2, <1>3, LenProperties
<1>5. /\ Append(s, x) \in Seq(S) /\ Len(Append(s, x)) = n + 1
      /\ Append(s, x)[n + 1] = x
      /\ \A e \in 1..n : Append(s, x)[e] = s[e]
  BY <1>3, <1>4, AppendProperties
<1>6. PICK t \in Seq(S) : t = Append(s, x)
  BY <1>5
<1>7. t = [e \in 1..Len(t) |-> t[e]]
  OBVIOUS
<1> QED BY <1>4, <1>5, <1>6, <1>7

(* What the assumptions say of the command line and the archive. *)
LEMMA CommandFacts ==
  ASSUME Fixed
  PROVE  /\ cmd.op \in {"d", "m", "r", "q"} /\ (cmd.newer => cmd.op = "r")
         /\ cmd.postype \in {"default", "after", "before"}
         /\ Len(cmd.files) \in Nat /\ Args = 1..Len(cmd.files)
         /\ \A a \in Args : /\ cmd.files[a] # NoName
                            /\ cmd.files[a].dir = "" /\ cmd.files[a].pre = Symdef.pre
                                 => cmd.files[a] = Symdef
<1>1. cmd \in Commands
  BY DEF Fixed
<1>2. /\ cmd.op \in {"d", "m", "r", "q"} /\ (cmd.newer => cmd.op = "r")
      /\ cmd.postype \in {"default", "after", "before"}
      /\ cmd.files \in Seq(ToSet(cmd.files))
      /\ \A n \in ToSet(cmd.files) :
           n # NoName /\ (n.dir = "" /\ n.pre = Symdef.pre => n = Symdef)
  BY <1>1, CommandAssumption
<1>3. Len(cmd.files) \in Nat /\ DOMAIN cmd.files = 1..Len(cmd.files)
  <2>1. cmd.files \in Seq(ToSet(cmd.files))
    BY <1>2
  <2> QED BY <2>1, LenProperties
<1>4. \A a \in DOMAIN cmd.files : cmd.files[a] \in ToSet(cmd.files)
  BY DEF ToSet
<1> QED BY <1>2, <1>3, <1>4 DEF Args

(* What the assumptions say of the archive and of the files on the disk. *)
LEMMA ArchFacts ==
  ASSUME Fixed
  PROVE  /\ Len(arch) \in Nat /\ DOMAIN arch = 1..Len(arch)
         /\ \A k \in 1..Len(arch) : /\ arch[k].name # NoName
                                     /\ arch[k].name = Stored(arch[k].name)
                                     /\ arch[k].date \in Nat
<1>1. CASE arch = <<>>
  <2>1. Len(arch) = 0 /\ DOMAIN arch = {} /\ 1..0 = {}
    BY <1>1
  <2> QED BY <2>1
<1>2. CASE arch \in Archives
  <2>1. /\ arch \in Seq(ToSet(arch))
        /\ \A m \in ToSet(arch) : m.name # NoName /\ m.name = Stored(m.name) /\ m.date \in Nat
    BY <1>2, ArchiveAssumption
  <2>2. Len(arch) \in Nat /\ DOMAIN arch = 1..Len(arch)
    BY <2>1
  <2>3. \A k \in DOMAIN arch : arch[k] \in ToSet(arch)
    BY DEF ToSet
  <2> QED BY <2>1, <2>2, <2>3
<1> QED BY <1>1, <1>2 DEF Fixed

(* The initial states. *)
LEMMA InitBasic == Init => Basic
<1> SUFFICES ASSUME Init PROVE Basic
  OBVIOUS
<1>1. /\ next = <<0>> /\ name = <<NoName>> /\ date = <<0>> /\ src = <<0>> /\ body = <<NoBody>>
      /\ map = 0 /\ after = 0 /\ argn = 1 /\ tail = 0 /\ out = <<>> /\ symdef = 0 /\ pc = "start"
  BY DEF Init
<1>2. Len(next) = 1 /\ next \in Seq(0..1)
  BY <1>1
<1>3. ASSUME NEW x PROVE <<x>> = [e \in 1..1 |-> <<x>>[e]]
  OBVIOUS
<1>4. Len(out) = 0 /\ out = [i \in 1..Len(out) |-> out[i]]
  BY <1>1
<1>5. Shape
  BY <1>1, <1>2, <1>3, <1>4 DEF Shape, Pcs, Pointers
<1>6. Fixed
  BY DEF Init, Fixed
<1> QED BY <1>1, <1>5, <1>6 DEF Basic, Begun, JustMade, Progress, Elems, Live

(* ar01 ends with a message, in a crash or in a loop. *)
LEMMA QuitBasic ==
  ASSUME Basic, pc' \in {"exit", "crash", "hang"},
         UNCHANGED <<envVars, arch, eltVars, map, after, argn, tail, out, symdef>>
  PROVE  Basic'
<1>1. Shape'
  BY DEF Basic, Shape, Pcs, Pointers, eltVars
<1>2. Fixed'
  BY DEF Basic, Fixed, envVars
<1> QED BY <1>1, <1>2 DEF Basic, Begun, JustMade, Progress, Elems, Live

(* What a list of elements is, given by a function on 1..m. *)
LEMMA SeqFromFunction ==
  ASSUME NEW S, NEW m \in Nat, NEW f \in [1..m -> S]
  PROVE  f \in Seq(S) /\ Len(f) = m
<1>1. f \in Seq(S)
  BY SeqDef
<1> QED BY <1>1, LenProperties

(* make_map: the members of the archive become the elements after mapstart. *)
LEMMA MapMade ==
  ASSUME Fixed, make_map
  PROVE  /\ Len(next') = Old /\ next' \in Seq(0..Old) /\ Old \in Nat /\ Old > 0
         /\ \A e \in 1..Old : next'[e] = (IF e = Old THEN 0 ELSE e + 1)
         /\ name' = [e \in 1..Old |-> name'[e]] /\ date' = [e \in 1..Old |-> date'[e]]
         /\ src' = [e \in 1..Old |-> src'[e]] /\ body' = [e \in 1..Old |-> body'[e]]
         /\ name'[1] = NoName
         /\ \A e \in 2..Old : name'[e] = arch[e - 1].name /\ date'[e] = arch[e - 1].date
         /\ \A e \in 1..Old : src'[e] = e - 1
         /\ map' = (IF Old = 1 THEN 0 ELSE 2)
<1>1. Len(arch) \in Nat
  BY ArchFacts
<1>2. PICK m \in Nat : m = Old /\ m = Len(arch) + 1 /\ m > 0
  BY <1>1 DEF Old
<1>3. next' = [e \in 1..m |-> IF e = m THEN 0 ELSE e + 1]
  BY <1>2 DEF make_map
<1>4. next' \in [1..m -> 0..m]
  BY <1>2, <1>3
<1>5. next' \in Seq(0..m) /\ Len(next') = m
  BY <1>2, <1>4, SeqFromFunction
<1>6. /\ name' = [e \in 1..m |-> IF e = 1 THEN NoName ELSE arch[e - 1].name]
      /\ date' = [e \in 1..m |-> IF e = 1 THEN 0 ELSE arch[e - 1].date]
      /\ src' = [e \in 1..m |-> e - 1]
      /\ body' = [e \in 1..m |-> IF e = 1 THEN NoBody ELSE arch[e - 1].body]
      /\ map' = IF Len(arch) = 0 THEN 0 ELSE 2
  BY <1>2 DEF make_map
<1>7. /\ name' = [e \in 1..m |-> name'[e]] /\ date' = [e \in 1..m |-> date'[e]]
      /\ src' = [e \in 1..m |-> src'[e]] /\ body' = [e \in 1..m |-> body'[e]]
  BY <1>6
<1>8. \A e \in 1..m : next'[e] = (IF e = m THEN 0 ELSE e + 1) /\ src'[e] = e - 1
  BY <1>3, <1>6
<1>9. /\ name'[1] = NoName
      /\ \A e \in 2..m : name'[e] = arch[e - 1].name /\ date'[e] = arch[e - 1].date
  BY <1>2, <1>6
<1>10. map' = IF m = 1 THEN 0 ELSE 2
  BY <1>1, <1>2, <1>6
<1> QED BY <1>2, <1>5, <1>7, <1>8, <1>9, <1>10

(* make_map, or the start of q. *)
LEMMA StartBasic ==
  ASSUME Basic, Start
  PROVE  Basic'
<1>1. CASE pc' = "exit"
  BY <1>1, QuitBasic DEF Start, Exit, idxVars
<1>2. CASE pc' # "exit"
  <2>1. /\ pc = "start" /\ exists' = TRUE
        /\ pc' = IF cmd.op \in {"r", "m"} THEN "position" ELSE "edit"
        /\ IF cmd.op = "q" THEN after' = Mapstart /\ UNCHANGED <<eltVars, map>>
           ELSE make_map /\ UNCHANGED after
        /\ UNCHANGED <<envVars, arch, argn, changed, tail, out, idxVars>>
    BY <1>2 DEF Start, Exit
  <2>2. /\ next = <<0>> /\ name = <<NoName>> /\ date = <<0>> /\ src = <<0>>
        /\ symdef = 0 /\ argn = 1 /\ tail = 0 /\ out = <<>> /\ Fixed /\ Shape
    BY <2>1 DEF Basic, Begun
  <2>3. /\ symdef' = 0 /\ argn' = 1 /\ tail' = 0 /\ out' = <<>> /\ arch' = arch
        /\ cmd' = cmd /\ present' = present
    BY <2>1, <2>2 DEF idxVars, envVars
  <2>4. Fixed'
    BY <2>2, <2>3 DEF Fixed
  <2>5. Len(out') = 0 /\ out' = [i \in 1..Len(out') |-> out'[i]]
    BY <2>3
  <2>6. ~Made' /\ Count' = Len(next')
    BY <2>3 DEF Made, Count
  <2>7. CASE cmd.op = "q"
    <3>1. after' = 1 /\ UNCHANGED <<eltVars, map>> /\ pc' = "edit"
      BY <2>1, <2>7 DEF Mapstart
    <3>2. Len(next) = 1 /\ Len(next') = 1
      BY <2>2, <3>1 DEF eltVars
    <3>3. Shape'
      BY <2>2, <2>3, <2>5, <3>1, <3>2 DEF Shape, Pointers, eltVars, Pcs
    <3>4. name'[1] = NoName /\ Sourced'
      BY <2>2, <2>3, <2>7, <3>1, <3>2 DEF eltVars, Sourced
    <3>5. Elems'
      BY <2>6, <3>2, <3>4 DEF Elems, MadeRight
    <3> QED BY <2>3, <2>4, <2>7, <3>1, <3>3, <3>5 DEF Basic, Begun, JustMade, Progress
  <2>8. CASE cmd.op # "q"
    <3>1. make_map /\ after' = after /\ pc' \in {"position", "edit"}
      BY <2>1, <2>8
    <3>2. /\ Len(next') = Old /\ next' \in Seq(0..Old) /\ Old \in Nat /\ Old > 0
          /\ \A e \in 1..Old : next'[e] = (IF e = Old THEN 0 ELSE e + 1)
          /\ name' = [e \in 1..Old |-> name'[e]] /\ date' = [e \in 1..Old |-> date'[e]]
          /\ src' = [e \in 1..Old |-> src'[e]] /\ body' = [e \in 1..Old |-> body'[e]]
          /\ name'[1] = NoName
          /\ \A e \in 2..Old : name'[e] = arch[e - 1].name
          /\ \A e \in 1..Old : src'[e] = e - 1
          /\ map' = (IF Old = 1 THEN 0 ELSE 2)
      BY <2>2, <3>1, MapMade
    <3>3. Old' = Old
      BY <2>3 DEF Old
    <3>4. after' \in 0..Old
      <4>1. Len(next) = 1 /\ after \in 0..Len(next)
        BY <2>2 DEF Shape
      <4> QED BY <3>1, <3>2, <4>1
    <3>5. Shape'
      BY <2>3, <2>5, <3>1, <3>2, <3>4 DEF Shape, Pointers, Pcs
    <3>6. Sourced'
      BY <2>3, <2>6, <2>8, <3>2, <3>3 DEF Sourced
    <3>7. \A e \in 2..Old : src'[e] # 0
      BY <3>2
    <3>8. Elems'
      BY <2>6, <3>2, <3>6, <3>7 DEF Elems, MadeRight
    <3>9. JustMade'
      <4>1. pc' = "position" => cmd.op \in {"r", "m"}
        BY <2>1
      <4> QED BY <2>3, <3>2, <3>3, <4>1 DEF JustMade
    <3>10. Begun' /\ Progress'
      <4>1. cmd.op = "m" => pc' = "position"
        BY <2>1
      <4> QED BY <2>3, <3>1, <4>1 DEF Begun, Progress
    <3> QED BY <2>4, <3>5, <3>8, <3>9, <3>10 DEF Basic
  <2> QED BY <2>7, <2>8
<1> QED BY <1>1, <1>2

(* The position switch finds an element or null. *)
LEMMA PositionType ==
  ASSUME Shape, Fixed
  PROVE  PositionElt \in 0..Len(next)
<1>1. Pointers /\ map \in 0..Len(next) /\ Mapstart \in 0..Len(next)
  BY DEF Shape, Pointers, Mapstart
<1>2. cmd.postype \in {"default", "after", "before"}
  BY CommandFacts
<1>3. find_mapelt(map, cmd.posname) \in 0..Len(next)
  BY <1>1, FindType
<1>4. last_mapelt(Mapstart) \in 0..Len(next)
  BY <1>1, PlacesType
<1>5. prev_mapelt(Mapstart, find_mapelt(map, cmd.posname)) \in 0..Len(next)
  BY <1>1, PlacesType
<1>6. CASE cmd.postype = "default"
  BY <1>4, <1>6 DEF PositionElt
<1>7. CASE cmd.postype = "after"
  BY <1>3, <1>7 DEF PositionElt
<1>8. CASE cmd.postype = "before"
  BY <1>5, <1>8 DEF PositionElt
<1> QED BY <1>2, <1>6, <1>7, <1>8

(* Finding the element named by posname. *)
LEMMA PositionBasic ==
  ASSUME Basic, FindPosition
  PROVE  Basic'
<1>1. CASE pc' = "exit"
  BY <1>1, QuitBasic DEF FindPosition, Exit, idxVars
<1>2. CASE pc' # "exit"
  <2>1. /\ pc = "position" /\ PositionElt # 0 /\ after' = PositionElt /\ pc' = "edit"
        /\ UNCHANGED <<envVars, arch, exists, eltVars, map, argn, changed, tail, out, idxVars>>
    BY <1>2 DEF FindPosition, Exit
  <2>2. after' \in 0..Len(next) /\ after' # 0
    BY <2>1, PositionType DEF Basic
  <2>3. Shape'
    BY <2>1, <2>2 DEF Basic, Shape, Pointers, Pcs, eltVars, idxVars
  <2>4. Fixed'
    BY <2>1 DEF Basic, Fixed, envVars
  <2>5. Elems'
    BY <2>1 DEF Basic, Elems, Live, Sourced, MadeRight, Made, Count, Old, FromArg, Args,
                eltVars, idxVars, envVars
  <2>6. Begun' /\ JustMade' /\ Progress'
    BY <2>1, <2>2 DEF Basic, Begun, JustMade, Progress, idxVars
  <2> QED BY <2>3, <2>4, <2>5, <2>6 DEF Basic
<1> QED BY <1>1, <1>2

(* Naming a file that was handled leaves the earlier ones handled. *)
LEMMA ArgsGrow ==
  ASSUME Basic, argn' = argn + 1, cmd' = cmd, NEW e, FromArg(e), name'[e] = name[e]
  PROVE  FromArg(e)'
<1>1. PICK a \in 1..(argn - 1) : a \in Args /\ name[e] = cmd.files[a]
  BY DEF FromArg
<1>2. a \in 1..(argn' - 1)
  BY DEF Basic, Shape
<1> QED BY <1>1, <1>2 DEF FromArg, Args

(* Edits that only cancel a name, or nothing. *)
LEMMA CancelBasic ==
  ASSUME Basic, Editing, argn' = argn + 1,
         name' = name \/ \E this : name' = [e \in Elts |-> IF e = this THEN NoName ELSE name[e]],
         UNCHANGED <<pc, envVars, arch, next, date, src, body, map, after, tail, out, idxVars>>
  PROVE  Basic'
<1>1. DOMAIN next = 1..Len(next) /\ Len(next) \in Nat
  BY DEF Basic, Shape, Pointers
<1>2. /\ name' = [e \in 1..Len(next) |-> name'[e]]
      /\ \A e \in 1..Len(next) : name'[e] = name[e] \/ name'[e] = NoName
  <2>1. CASE name' = name
    BY <2>1 DEF Basic, Shape
  <2>2. ASSUME NEW this, name' = [e \in Elts |-> IF e = this THEN NoName ELSE name[e]]
        PROVE  <1>2!1 /\ <1>2!2
    BY <1>1, <2>2 DEF Elts
  <2> QED BY <2>1, <2>2
<1>3. pc = "edit" /\ pc' = "edit" /\ symdef = 0 /\ symdef' = 0
  BY DEF Editing, Basic, Progress, idxVars
<1>4. Shape'
  BY <1>2 DEF Basic, Shape, Pointers, idxVars
<1>5. Fixed'
  BY DEF Basic, Fixed, envVars
<1>6. Live /\ name[1] = NoName /\ Sourced /\ Count = Len(next)
  BY <1>3 DEF Basic, Elems, Live, Count, Made
<1>7. name'[1] = NoName /\ Sourced' /\ MadeRight' /\ Count' = Len(next)
  <2>1. 1 \in 1..Len(next)
    BY <1>1 DEF Basic, Shape
  <2>2. Count' = Len(next) /\ ~Made'
    BY <1>3 DEF Count, Made
  <2> QED BY <1>2, <1>6, <2>1, <2>2 DEF Sourced, MadeRight, Old, envVars
<1>8. ASSUME NEW e \in 2..Count', src'[e] = 0 PROVE (name[e] = NoName \/ FromArg(e))'
  <2>1. e \in 2..Len(next) /\ e \in 1..Len(next) /\ src[e] = 0
    BY <1>1, <1>7, <1>8
  <2>2. CASE name'[e] = name[e]
    <3>1. name[e] = NoName \/ FromArg(e)
      BY <1>3, <1>6, <2>1 DEF Basic, Elems
    <3> QED BY <2>2, <3>1, ArgsGrow DEF envVars
  <2> QED BY <1>2, <2>1, <2>2
<1>9. Elems'
  BY <1>7, <1>8 DEF Elems
<1>10. Begun' /\ JustMade' /\ Progress'
  BY <1>3 DEF Basic, Begun, JustMade, Progress, envVars, idxVars
<1> QED BY <1>4, <1>5, <1>9, <1>10 DEF Basic

(* delete_members cancels a name. *)
LEMMA DeleteBasic ==
  ASSUME Basic, DeleteArg
  PROVE  Basic'
BY CancelBasic DEF DeleteArg

(* An argument of r that does nothing. *)
LEMMA SkipBasic ==
  ASSUME Basic, SkipArg
  PROVE  Basic'
BY CancelBasic DEF SkipArg, eltVars

(* An assignment through a pointer keeps the pointers elements. *)
LEMMA StoreType ==
  ASSUME NEW m \in Nat, NEW nx \in [1..m -> 0..m], NEW i, NEW x \in 0..m
  PROVE  [nx EXCEPT ![i] = x] \in [1..m -> 0..m]
OBVIOUS

(* move_in_map relinks an element. *)
LEMMA MoveBasic ==
  ASSUME Basic, MoveArg
  PROVE  Basic'
<1>a. PICK this : this = find_mapelt(Mapstart, Arg)
  OBVIOUS
<1>b. PICK n1 : n1 = [next EXCEPT ![prev_mapelt(Mapstart, this)] = next[this]]
  OBVIOUS
<1>c. PICK n2 : n2 = [n1 EXCEPT ![this] = n1[after]]
  OBVIOUS
<1>d. PICK n3 : n3 = [n2 EXCEPT ![after] = this]
  OBVIOUS
<1>1. \/ this = 0 /\ UNCHANGED <<next, after>>
      \/ this # 0 /\ next' = n3 /\ after' = n3[after]
  BY <1>a, <1>b, <1>c, <1>d DEF MoveArg
<1>2. /\ Editing /\ cmd.op = "m" /\ argn' = argn + 1
      /\ UNCHANGED <<pc, envVars, arch, exists, name, date, src, body, map, changed,
                     tail, out, idxVars>>
  BY DEF MoveArg
<1>3. CASE this = 0
  <2>1. UNCHANGED <<next, after>>
    BY <1>1, <1>3
  <2> QED BY <1>2, <2>1, CancelBasic
<1>4. CASE this # 0
  <2>1. PICK m \in Nat : m = Len(next) /\ m > 0
    BY DEF Basic, Shape, Pointers
  <2>2. /\ Pointers /\ next \in [1..m -> 0..m] /\ Mapstart \in 0..Len(next)
        /\ after \in 0..m
    BY <2>1 DEF Basic, Shape, Pointers, Mapstart
  <2>3. after \in 1..m
    BY <1>2, <2>1, <2>2 DEF Basic, Progress, Editing
  <2>4. this \in 1..m
    <3>1. this \in 0..Len(next)
      BY <1>a, <2>2, FindType
    <3> QED BY <1>4, <2>1, <3>1
  <2>5. n1 \in [1..m -> 0..m]
    <3>1. next[this] \in 0..m
      BY <2>2, <2>4
    <3> QED BY <1>b, <2>2, <3>1, StoreType
  <2>6. n2 \in [1..m -> 0..m]
    <3>1. n1[after] \in 0..m
      BY <2>3, <2>5
    <3> QED BY <1>c, <2>5, <3>1, StoreType
  <2>7. n3 \in [1..m -> 0..m] /\ n3[after] = this
    <3>1. this \in 0..m
      BY <2>4
    <3> QED BY <1>d, <2>3, <2>6, <3>1
  <2>8. next' \in Seq(0..m) /\ Len(next') = m /\ after' \in 1..m
    <3>1. next' = n3 /\ after' = this
      BY <1>1, <1>4, <2>7
    <3> QED BY <2>4, <2>7, <3>1, SeqFromFunction
  <2>9. pc = "edit" /\ pc' = "edit" /\ symdef = 0 /\ symdef' = 0 /\ cmd' = cmd /\ arch' = arch
    BY <1>2 DEF Editing, Basic, Progress, idxVars, envVars
  <2>10. Shape'
    BY <1>2, <2>1, <2>8 DEF Basic, Shape, Pointers, idxVars
  <2>11. Fixed'
    BY <1>2 DEF Basic, Fixed, envVars
  <2>12. /\ ~Made /\ ~Made' /\ Count = m /\ Count' = m /\ Len(next') = Len(next)
    BY <2>1, <2>8, <2>9 DEF Made, Count
  <2>13. Live /\ name[1] = NoName /\ Sourced
    BY <2>9 DEF Basic, Elems, Live
  <2>14. name'[1] = NoName /\ Sourced' /\ MadeRight'
    BY <1>2, <2>9, <2>12, <2>13 DEF Sourced, MadeRight, Old
  <2>15. ASSUME NEW e \in 2..Count', src'[e] = 0 PROVE (name[e] = NoName \/ FromArg(e))'
    <3>1. e \in 2..Count /\ src[e] = 0 /\ name'[e] = name[e]
      BY <1>2, <2>12, <2>15
    <3>2. name[e] = NoName \/ FromArg(e)
      BY <2>13, <3>1 DEF Basic, Elems
    <3> QED BY <1>2, <2>9, <3>1, <3>2, ArgsGrow
  <2>16. Elems'
    BY <2>14, <2>15 DEF Elems
  <2>17. Begun' /\ JustMade' /\ Progress'
    BY <1>2, <2>8, <2>9 DEF Basic, Begun, JustMade, Progress
  <2> QED BY <2>10, <2>11, <2>16, <2>17 DEF Basic
<1> QED BY <1>3, <1>4

(* insert_in_map: one more element, with the file's info, and the element   *)
(* found before is cancelled.                                               *)
At == IF Arg = Symdef THEN Mapstart ELSE after
NewElement ==
  LET m == Len(next)
      old == find_mapelt(Mapstart, Arg)
  IN  /\ Len(next') = m + 1 /\ next' \in Seq(0..(m + 1))
      /\ name' = [e \in 1..(m + 1) |-> name'[e]] /\ date' = [e \in 1..(m + 1) |-> date'[e]]
      /\ src' = [e \in 1..(m + 1) |-> src'[e]] /\ body' = [e \in 1..(m + 1) |-> body'[e]]
      /\ name'[m + 1] = Arg /\ date'[m + 1] = FileDate(Arg) /\ src'[m + 1] = 0
      /\ \A e \in 1..m : /\ name'[e] = IF e = old THEN NoName ELSE name[e]
                         /\ date'[e] = date[e] /\ src'[e] = src[e]
NewLink ==
  LET m == Len(next)
  IN  /\ after # 0 /\ At \in 1..m /\ pc' = pc
      /\ next'[At] = m + 1 /\ next'[m + 1] = next[At]
      /\ \A e \in 1..m : e # At => next'[e] = next[e]
      /\ after' = next'[after] /\ after' \in 0..(m + 1)

(* What insert_in_map appends, cancels and links. *)
LEMMA InsertEffect ==
  ASSUME Basic, InsertArg
  PROVE  /\ NewElement
         /\ (pc' = "crash" /\ after' = after) \/ NewLink
<1>1. PICK m \in Nat : m = Len(next) /\ m > 0
  BY DEF Basic, Shape, Pointers
<1>2. /\ Pointers /\ next \in [1..m -> 0..m] /\ after \in 0..m /\ DOMAIN next = 1..m
      /\ name = [e \in 1..m |-> name[e]] /\ date = [e \in 1..m |-> date[e]]
      /\ src = [e \in 1..m |-> src[e]] /\ body = [e \in 1..m |-> body[e]]
  BY <1>1 DEF Basic, Shape, Pointers
<1>3. PICK old : old = find_mapelt(Mapstart, Arg)
  OBVIOUS
<1>4. PICK was : was = [e \in 1..m |-> IF e = old THEN NoName ELSE name[e]]
  OBVIOUS
<1>5. /\ name' = Append(was, Arg) /\ date' = Append(date, FileDate(Arg))
      /\ src' = Append(src, 0) /\ body' = Append(body, File(Arg).body)
  BY <1>2, <1>3, <1>4 DEF InsertArg, Cancelled, Elts
<1>6. /\ name' = [e \in 1..(m + 1) |-> name'[e]]
      /\ name'[m + 1] = Arg /\ \A e \in 1..m : name'[e] = was[e]
  <2>1. was = [e \in 1..m |-> was[e]]
    BY <1>4
  <2> QED BY <1>5, <2>1, AppendAny
<1>7. /\ date' = [e \in 1..(m + 1) |-> date'[e]]
      /\ date'[m + 1] = FileDate(Arg) /\ \A e \in 1..m : date'[e] = date[e]
  BY <1>2, <1>5, AppendAny
<1>8. /\ src' = [e \in 1..(m + 1) |-> src'[e]]
      /\ src'[m + 1] = 0 /\ \A e \in 1..m : src'[e] = src[e]
  BY <1>2, <1>5, AppendAny
<1>9. body' = [e \in 1..(m + 1) |-> body'[e]]
  BY <1>2, <1>5, AppendAny
<1>10. ASSUME Len(next') = m + 1, next' \in Seq(0..(m + 1))
       PROVE  NewElement
  BY <1>1, <1>3, <1>4, <1>6, <1>7, <1>8, <1>9, <1>10 DEF NewElement
<1>11. CASE after = 0
  <2>1. next' = Append(next, 0) /\ pc' = "crash" /\ after' = after
    BY <1>11 DEF InsertArg
  <2>2. next \in Seq(0..(m + 1))
    BY <1>1, <1>2, SeqFromFunction
  <2>3. next' \in Seq(0..(m + 1)) /\ Len(next') = m + 1
    BY <1>1, <2>1, <2>2
  <2> QED BY <1>10, <2>1, <2>3
<1>12. CASE after # 0
  <2>1. PICK at \in 1..m : at = At
    BY <1>1, <1>2, <1>12 DEF At, Mapstart
  <2>2. PICK n1 : n1 = [next EXCEPT ![at] = m + 1]
    OBVIOUS
  <2>3. next' = Append(n1, next[at]) /\ after' = next'[after] /\ pc' = pc
    <3>1. Linked(Len(next) + 1) = Append(n1, next[at])
      BY <1>1, <2>1, <2>2 DEF Linked, At
    <3> QED BY <1>12, <3>1 DEF InsertArg
  <2>4. n1 \in [1..m -> 0..(m + 1)] /\ next[at] \in 0..(m + 1)
    BY <1>2, <2>1, <2>2
  <2>5. n1 \in Seq(0..(m + 1)) /\ Len(n1) = m
    BY <2>4, SeqFromFunction
  <2>6. /\ next' \in Seq(0..(m + 1)) /\ Len(next') = m + 1 /\ next'[m + 1] = next[at]
        /\ \A e \in 1..m : next'[e] = n1[e]
    <3>1. PICK x \in 0..(m + 1) : x = next[at]
      BY <2>4
    <3>2. next' = Append(n1, x)
      BY <2>3, <3>1
    <3>3. /\ Append(n1, x) \in Seq(0..(m + 1)) /\ Len(Append(n1, x)) = m + 1
          /\ Append(n1, x)[m + 1] = x
          /\ \A e \in 1..m : Append(n1, x)[e] = n1[e]
      BY <2>5, AppendProperties
    <3> QED BY <3>1, <3>2, <3>3
  <2>7. after \in 1..m
    BY <1>2, <1>12
  <2>8. after' \in 0..(m + 1)
    BY <2>3, <2>6, <2>7
  <2>9. next'[at] = m + 1 /\ \A e \in 1..m : e # at => next'[e] = next[e]
    BY <1>2, <2>1, <2>2, <2>6
  <2>10. NewLink
    BY <1>1, <1>12, <2>1, <2>3, <2>6, <2>8, <2>9 DEF NewLink
  <2> QED BY <1>10, <2>6, <2>10
<1> QED BY <1>11, <1>12

(* insert_in_map. *)
LEMMA InsertBasic ==
  ASSUME Basic, InsertArg
  PROVE  Basic'
<1>1. PICK m \in Nat : m = Len(next) /\ m > 0
  BY DEF Basic, Shape, Pointers
<1>2. /\ pc = "edit" /\ cmd.op \in {"r", "q"} /\ argn' = argn + 1 /\ argn <= Len(cmd.files)
      /\ UNCHANGED <<envVars, arch, exists, map, tail, out, idxVars>>
  BY DEF InsertArg, Editing
<1>3. symdef = 0 /\ symdef' = 0 /\ cmd' = cmd /\ arch' = arch /\ out = <<>> /\ out' = out
  BY <1>2 DEF Basic, Progress, idxVars, envVars
<1>4. /\ Len(next') = m + 1 /\ next' \in Seq(0..(m + 1))
      /\ name' = [e \in 1..(m + 1) |-> name'[e]] /\ date' = [e \in 1..(m + 1) |-> date'[e]]
      /\ src' = [e \in 1..(m + 1) |-> src'[e]] /\ body' = [e \in 1..(m + 1) |-> body'[e]]
      /\ name'[m + 1] = Arg /\ src'[m + 1] = 0
      /\ \A e \in 1..m : /\ name'[e] = name[e] \/ name'[e] = NoName
                         /\ src'[e] = src[e]
  BY <1>1, InsertEffect DEF NewElement
<1>5. after' \in 0..(m + 1) /\ pc' \in {"edit", "crash"}
  <2>1. after \in 0..m
    BY <1>1 DEF Basic, Shape
  <2> QED BY <1>1, <1>2, <2>1, InsertEffect DEF NewLink
<1>6. Shape'
  BY <1>1, <1>2, <1>3, <1>4, <1>5 DEF Basic, Shape, Pointers, Pcs
<1>7. Fixed'
  BY <1>2 DEF Basic, Fixed, envVars
<1>8. Live /\ name[1] = NoName /\ Sourced /\ Count = m
  BY <1>1, <1>2, <1>3 DEF Basic, Elems, Live, Count, Made
<1>9. Old \in Nat
  BY ArchFacts DEF Basic, Old
<1>10. Count' = m + 1 /\ ~Made' /\ Old' = Old
  BY <1>3, <1>4 DEF Count, Made, Old
<1>11. \A e \in 1..(m + 1) : e \in 1..m \/ e = m + 1
  BY <1>1
<1>12. Sourced'
  <2>1. Len(next') = m + 1 /\ src'[m + 1] = 0 /\ \A e \in 1..m : src'[e] = src[e]
    BY <1>4
  <2>2. CASE cmd.op = "q"
    BY <1>1, <1>3, <1>8, <1>11, <2>1, <2>2 DEF Sourced
  <2>3. CASE cmd.op # "q"
    <3>1. Old <= m /\ \A e \in 1..m : src[e] = IF e <= Old THEN e - 1 ELSE 0
      BY <1>1, <1>8, <2>3 DEF Sourced
    <3>2. Old <= m + 1 /\ ~(m + 1 <= Old)
      BY <1>1, <1>9, <3>1
    <3>3. \A e \in 1..(m + 1) : src'[e] = IF e <= Old THEN e - 1 ELSE 0
      BY <1>11, <2>1, <3>1, <3>2
    <3> QED BY <1>3, <1>10, <2>1, <2>3, <3>2, <3>3 DEF Sourced
  <2> QED BY <2>2, <2>3
<1>13. name'[1] = NoName
  <2>1. 1 \in 1..m
    BY <1>1
  <2> QED BY <1>4, <1>8, <2>1
<1>14. ASSUME NEW e \in 2..Count', src'[e] = 0 PROVE (name[e] = NoName \/ FromArg(e))'
  <2>1. CASE e = m + 1
    <3>0. argn \in Nat /\ argn > 0 /\ Args = 1..Len(cmd.files) /\ Len(cmd.files) \in Nat
      BY CommandFacts DEF Basic, Shape
    <3>1. argn \in 1..(argn' - 1) /\ argn \in Args
      BY <1>2, <3>0
    <3> QED BY <1>3, <1>4, <2>1, <3>1 DEF FromArg, Arg, Args
  <2>2. CASE e \in 2..m
    <3>1. e \in 1..m /\ src[e] = 0
      BY <1>4, <1>14, <2>2
    <3>2. name[e] = NoName \/ FromArg(e)
      BY <1>8, <2>2, <3>1 DEF Basic, Elems
    <3>3. CASE name'[e] = name[e]
      BY <1>2, <1>3, <3>2, <3>3, ArgsGrow
    <3> QED BY <1>4, <3>1, <3>3
  <2> QED BY <1>10, <2>1, <2>2
<1>15. Elems'
  BY <1>10, <1>12, <1>13, <1>14 DEF Elems, MadeRight
<1>16. Begun' /\ JustMade' /\ Progress'
  BY <1>2, <1>3, <1>5 DEF Basic, Begun, JustMade, Progress
<1> QED BY <1>6, <1>7, <1>15, <1>16 DEF Basic

(* Steps that leave the map alone, once it has been edited. *)
LEMMA AfterEditBasic ==
  ASSUME Basic, Live, pc # "position", pc' \in {"index", "write", "install", "done"},
         argn > Len(cmd.files), pc' = "index" => symdef = 0 /\ out' = <<>> /\ tail' = WriteFrom,
         tail' \in 0..Len(next), Len(out') \in Nat, out' = [i \in 1..Len(out') |-> out'[i]],
         UNCHANGED <<cmd, present, arch, eltVars, map, after, argn, symdef>>
  PROVE  Basic'
<1>1. Shape'
  BY DEF Basic, Shape, Pointers, Pcs, eltVars
<1>2. Fixed'
  BY DEF Basic, Fixed
<1>3. Elems'
  BY DEF Basic, Elems, Live, Sourced, MadeRight, Made, Count, Old, FromArg, Args, eltVars
<1>4. Progress'
  <2>1. WriteFrom' = WriteFrom
    BY DEF WriteFrom, eltVars
  <2> QED BY <2>1 DEF Progress
<1>5. Begun' /\ JustMade'
  BY DEF Begun, JustMade
<1> QED BY <1>1, <1>2, <1>3, <1>4, <1>5 DEF Basic

(* After the last argument. *)
LEMMA EndEditBasic ==
  ASSUME Basic, EndEdit
  PROVE  Basic'
<1>1. /\ pc = "edit" /\ argn > Len(cmd.files) /\ pc' \in {"done", "index", "write"}
      /\ tail' \in {tail, WriteFrom} /\ (pc' = "index" => tail' = WriteFrom)
      /\ UNCHANGED <<envVars, arch, exists, eltVars, map, after, argn, changed, out, idxVars>>
  BY DEF EndEdit
<1>2. symdef = 0 /\ out = <<>>
  BY <1>1 DEF Basic, Progress
<1>3. WriteFrom \in 0..Len(next) /\ tail \in 0..Len(next)
  BY DEF WriteFrom, Mapstart, Basic, Shape, Pointers
<1>4. Len(out) \in Nat /\ out = [i \in 1..Len(out) |-> out[i]]
  BY DEF Basic, Shape
<1> QED BY <1>1, <1>2, <1>3, <1>4, AfterEditBasic DEF Live, envVars, idxVars

(* The end of write_archive. *)
LEMMA InstallBasic ==
  ASSUME Basic, Install
  PROVE  Basic'
<1>1. pc = "install" /\ pc' = "done" /\ argn > Len(cmd.files)
  BY DEF Install, Basic, Progress
<1>2. Len(out) \in Nat /\ out = [i \in 1..Len(out) |-> out[i]] /\ tail \in 0..Len(next)
  BY DEF Basic, Shape
<1> QED BY <1>1, <1>2, AfterEditBasic DEF Live, Install, envVars

(* copy_out_member. *)
LEMMA CopyOutBasic ==
  ASSUME Basic, CopyOut
  PROVE  Basic'
<1>1. /\ pc = "write" /\ argn > Len(cmd.files)
      /\ UNCHANGED <<envVars, arch, exists, eltVars, map, after, argn, changed, idxVars>>
  BY DEF CopyOut, Basic, Progress
<1>2. /\ Len(out) \in Nat /\ out = [i \in 1..Len(out) |-> out[i]] /\ tail \in 0..Len(next)
      /\ Pointers
  BY DEF Basic, Shape
<1>3. CASE pc' = "exit"
  BY <1>1, <1>3, QuitBasic DEF CopyOut, idxVars
<1>4. CASE pc' = "install" /\ UNCHANGED <<tail, out>>
  BY <1>1, <1>2, <1>4, AfterEditBasic DEF Live, envVars, idxVars
<1>5. CASE /\ tail # 0 /\ pc' = pc /\ tail' = next[tail]
           /\ out' = IF Copied(tail) THEN Append(out, OutMember(tail)) ELSE out
  <2>1. tail' \in 0..Len(next)
    BY <1>2, <1>5 DEF Pointers
  <2>2. Len(out') \in Nat /\ out' = [i \in 1..Len(out') |-> out'[i]]
    <3>1. CASE out' = out
      BY <1>2, <3>1
    <3>2. CASE out' = Append(out, OutMember(tail))
      <4>1. PICK m \in Nat : m = Len(out) /\ out = [i \in 1..m |-> out[i]]
        BY <1>2
      <4>2. PICK x : x = OutMember(tail)
        OBVIOUS
      <4>3. Len(Append(out, x)) = m + 1 /\ Append(out, x) = [i \in 1..(m + 1) |-> Append(out, x)[i]]
        BY <4>1, AppendAny
      <4>4. Len(out') = m + 1 /\ out' = [i \in 1..(m + 1) |-> out'[i]] /\ m + 1 \in Nat
        BY <3>2, <4>2, <4>3
      <4> QED BY <4>4
    <3> QED BY <1>5, <3>1, <3>2
  <2> QED BY <1>1, <1>5, <2>1, <2>2, AfterEditBasic DEF Live, envVars, idxVars
<1> QED BY <1>1, <1>3, <1>4, <1>5 DEF CopyOut

(* Another program removes a file. *)
LEMMA VanishBasic ==
  ASSUME Basic, Vanish
  PROVE  Basic'
<1>1. Shape'
  BY DEF Vanish, Basic, Shape, Pointers, eltVars, idxVars
<1>2. Fixed'
  <2>1. PICK p \in Present : present \subseteq p
    BY DEF Basic, Fixed
  <2>2. present' \subseteq p
    BY <2>1 DEF Vanish
  <2> QED BY <2>1, <2>2 DEF Vanish, Basic, Fixed
<1>3. Elems'
  BY DEF Vanish, Basic, Elems, Live, Sourced, MadeRight, Made, Count, Old, FromArg, Args,
         eltVars, idxVars
<1>4. Begun' /\ JustMade'
  BY DEF Vanish, Basic, Begun, JustMade, Old, eltVars, idxVars
<1>5. Progress'
  BY DEF Vanish, Basic, Progress, WriteFrom, eltVars, idxVars
<1> QED BY <1>1, <1>2, <1>3, <1>4, <1>5 DEF Basic

(* The index that was found is a member of the old archive: no argument is  *)
(* named __.SYMDEF.                                                         *)
LEMMA OldIndexIs ==
  ASSUME Basic, pc = "index", SymdefExists, OldIndex # 0
  PROVE  OldIndex \in 1..Len(next) /\ src[OldIndex] # 0
<1>1. /\ Pointers /\ tail \in 0..Len(next) /\ Len(next) \in Nat /\ Fixed /\ Live
      /\ symdef = 0 /\ argn \in Nat
  BY DEF Basic, Shape, Pointers, Progress, Live
<1>2. PICK e : e = OldIndex
  OBVIOUS
<1>3. e \in 1..Len(next) /\ Matches(name[e], Symdef)
  BY <1>1, <1>2, FindType DEF OldIndex
<1>4. name[e] # NoName /\ name[e].dir = "" /\ name[e].pre = Symdef.pre
  BY <1>3 DEF Matches
<1>5. Count = Len(next)
  BY <1>1 DEF Count, Made
<1>6. e # 1
  BY <1>1, <1>4 DEF Basic, Elems
<1>7. ASSUME src[e] = 0 PROVE FALSE
  <2>1. e \in 2..Count
    BY <1>1, <1>3, <1>5, <1>6
  <2>2. FromArg(e)
    BY <1>1, <1>4, <1>7, <2>1 DEF Basic, Elems
  <2>3. PICK a \in Args : name[e] = cmd.files[a]
    BY <2>2 DEF FromArg
  <2>4. cmd.files[a] = Symdef
    BY <1>1, <1>4, <2>3, CommandFacts
  <2> QED BY <2>3, <2>4 DEF SymdefExists, Args
<1> QED BY <1>2, <1>3, <1>7

(* write_archive makes an element for the index: it is last, and points to  *)
(* what was the start of the list.                                          *)
IndexMade ==
  LET m == Len(next)
  IN  /\ symdef' = m + 1 /\ tail' = m + 1
      /\ Len(next') = m + 1 /\ next' \in Seq(0..(m + 1)) /\ next'[m + 1] = tail
      /\ name' = [e \in 1..(m + 1) |-> name'[e]] /\ date' = [e \in 1..(m + 1) |-> date'[e]]
      /\ src' = [e \in 1..(m + 1) |-> src'[e]] /\ body' = [e \in 1..(m + 1) |-> body'[e]]
      /\ name'[m + 1] = Symdef /\ src'[m + 1] = 0
      /\ \A e \in 1..m : /\ next'[e] = next[e] /\ name'[e] = name[e]
                         /\ src'[e] = src[e] /\ date'[e] = date[e]
IndexKept ==
  /\ symdef' \in 1..Len(next) /\ src[symdef'] # 0
  /\ body' = [e \in 1..Len(next) |-> body'[e]]
  /\ UNCHANGED <<next, name, date, src, tail>>

(* An element for the index is made, or the old one is kept. *)
LEMMA IndexEffect ==
  ASSUME Basic, MakeIndex, pc' \notin {"hang", "crash", "exit"}
  PROVE  pc' = "write" /\ (IndexMade \/ IndexKept)
<1>1. PICK m \in Nat : m = Len(next) /\ m > 0
  BY DEF Basic, Shape, Pointers
<1>2. /\ next \in [1..m -> 0..m] /\ tail \in 0..m /\ next \in Seq(0..m)
      /\ name = [e \in 1..m |-> name[e]] /\ date = [e \in 1..m |-> date[e]]
      /\ src = [e \in 1..m |-> src[e]] /\ body = [e \in 1..m |-> body[e]]
  BY <1>1 DEF Basic, Shape, Pointers
<1>3. PICK contents :
        /\ pc' = "write" /\ ~IndexLost
        /\ IF SymdefExists
           THEN /\ symdef' = OldIndex
                /\ body' = [body EXCEPT ![OldIndex] = contents]
                /\ UNCHANGED <<next, name, date, src, tail>>
           ELSE /\ symdef' = m + 1
                /\ body' = Append(body, contents)
                /\ next' = Append(next, tail)
                /\ name' = Append(name, Symdef)
                /\ date' = Append(date, 0)
                /\ src' = Append(src, 0)
                /\ tail' = symdef'
  <2> HIDE DEF Cyclic, Elements, OldTable, update_symdefs, IndexLost, OldIndex, SymdefExists
  <2> QED BY <1>1 DEF MakeIndex
<1>4. CASE SymdefExists
  <2>1. OldIndex \in 1..m /\ src[OldIndex] # 0
    BY <1>1, <1>3, <1>4, OldIndexIs DEF IndexLost, MakeIndex
  <2>2. body' = [e \in 1..m |-> body'[e]]
    BY <1>2, <1>3, <1>4, <2>1
  <2> QED BY <1>1, <1>3, <1>4, <2>1, <2>2 DEF IndexKept
<1>5. CASE ~SymdefExists
  <2>1. /\ name' = [e \in 1..(m + 1) |-> name'[e]]
        /\ name'[m + 1] = Symdef /\ \A e \in 1..m : name'[e] = name[e]
    BY <1>2, <1>3, <1>5, AppendAny
  <2>2. /\ date' = [e \in 1..(m + 1) |-> date'[e]] /\ \A e \in 1..m : date'[e] = date[e]
    BY <1>2, <1>3, <1>5, AppendAny
  <2>3. /\ src' = [e \in 1..(m + 1) |-> src'[e]]
        /\ src'[m + 1] = 0 /\ \A e \in 1..m : src'[e] = src[e]
    BY <1>2, <1>3, <1>5, AppendAny
  <2>4. body' = [e \in 1..(m + 1) |-> body'[e]]
    BY <1>2, <1>3, <1>5, AppendAny
  <2>5. next \in Seq(0..(m + 1)) /\ tail \in 0..(m + 1) /\ next' = Append(next, tail)
    BY <1>1, <1>2, <1>3, <1>5
  <2>6. /\ next' \in Seq(0..(m + 1)) /\ Len(next') = m + 1 /\ next'[m + 1] = tail
        /\ \A e \in 1..m : next'[e] = next[e]
    BY <1>1, <2>5, AppendProperties
  <2>7. symdef' = m + 1 /\ tail' = m + 1
    BY <1>3, <1>5
  <2> QED BY <1>1, <1>3, <2>1, <2>2, <2>3, <2>4, <2>6, <2>7 DEF IndexMade
<1> QED BY <1>4, <1>5

(* The start of write_archive. *)
LEMMA MakeIndexBasic ==
  ASSUME Basic, MakeIndex
  PROVE  Basic'
<1>1. /\ pc = "index"
      /\ UNCHANGED <<envVars, arch, exists, map, after, argn, changed, out, stray>>
  BY DEF MakeIndex
<1>2. CASE pc' \in {"hang", "crash", "exit"}
  <2>1. UNCHANGED <<eltVars, tail, symdef, toc>>
    BY <1>2 DEF MakeIndex
  <2> QED BY <1>1, <1>2, <2>1, QuitBasic
<1>3. CASE pc' \notin {"hang", "crash", "exit"}
  <2>1. PICK m \in Nat : m = Len(next) /\ m > 0
    BY DEF Basic, Shape, Pointers
  <2>2. /\ symdef = 0 /\ tail = WriteFrom /\ argn > Len(cmd.files)
        /\ cmd' = cmd /\ arch' = arch /\ out' = out /\ argn' = argn /\ ~Made /\ Count = m
    BY <1>1, <2>1 DEF Basic, Progress, envVars, Made, Count
  <2>3. pc' = "write" /\ (IndexMade \/ IndexKept)
    BY <1>3, IndexEffect
  <2>4. Fixed'
    BY <1>1 DEF Basic, Fixed, envVars
  <2>5. Live /\ name[1] = NoName /\ Sourced
    BY <1>1 DEF Basic, Elems, Live
  <2>6. Begun' /\ JustMade' /\ Progress'
    BY <2>2, <2>3 DEF Begun, JustMade, Progress
  <2>7. Old' = Old /\ Old \in Nat
    BY <2>2, ArchFacts DEF Old, Basic
  <2>8. CASE IndexKept
    <3>1. ~Made' /\ Count' = m /\ Len(next') = m
      BY <2>1, <2>8 DEF IndexKept, Made, Count
    <3>2. Shape'
      BY <1>1, <2>1, <2>3, <2>8 DEF Basic, Shape, Pointers, Pcs, IndexKept
    <3>3. Sourced'
      BY <2>1, <2>2, <2>5, <2>7, <2>8, <3>1 DEF Sourced, IndexKept
    <3>4. Elems'
      BY <2>2, <2>5, <2>8, <3>1, <3>3 DEF Basic, Elems, MadeRight, FromArg, Args, IndexKept
    <3> QED BY <2>4, <2>6, <3>2, <3>4 DEF Basic
  <2>9. CASE IndexMade
    <3>1. /\ symdef' = m + 1 /\ tail' = m + 1
          /\ Len(next') = m + 1 /\ next' \in Seq(0..(m + 1)) /\ next'[m + 1] = tail
          /\ name'[m + 1] = Symdef /\ src'[m + 1] = 0
          /\ \A e \in 1..m : next'[e] = next[e] /\ name'[e] = name[e] /\ src'[e] = src[e]
      BY <2>1, <2>9 DEF IndexMade
    <3>2. Made' /\ Count' = m
      BY <2>1, <3>1 DEF Made, Count
    <3>3. Shape'
      <4>1. /\ map' \in 0..(m + 1) /\ after' \in 0..(m + 1) /\ tail' \in 0..(m + 1)
            /\ symdef' \in 0..(m + 1) /\ argn' \in Nat /\ argn' > 0
            /\ Len(out') \in Nat /\ out' = [i \in 1..Len(out') |-> out'[i]]
        BY <1>1, <2>1, <3>1 DEF Basic, Shape
      <4> QED BY <2>1, <2>3, <2>9, <3>1, <4>1 DEF Shape, Pointers, Pcs, IndexMade
    <3>4. \A e \in 1..(m + 1) : e \in 1..m \/ e = m + 1
      BY <2>1
    <3>5. Sourced'
      <4>1. CASE cmd.op = "q"
        BY <2>1, <2>2, <2>5, <3>1, <3>4, <4>1 DEF Sourced
      <4>2. CASE cmd.op # "q"
        <5>1. Old <= m /\ \A e \in 1..m : src[e] = IF e <= Old THEN e - 1 ELSE 0
          BY <2>1, <2>2, <2>5, <4>2 DEF Sourced
        <5>2. ~(m + 1 <= Old)
          BY <2>1, <2>7, <5>1
        <5>3. \A e \in 1..(m + 1) : src'[e] = IF e <= Old THEN e - 1 ELSE 0
          BY <3>1, <3>4, <5>1, <5>2
        <5> QED BY <2>2, <2>7, <3>1, <3>2, <4>2, <5>1, <5>3 DEF Sourced
      <4> QED BY <4>1, <4>2
    <3>6. MadeRight' /\ name'[1] = NoName
      <4>1. 1 \in 1..m /\ m + 1 > 1
        BY <2>1
      <4>2. cmd.op # "m" => tail = next[1]
        BY <2>2 DEF WriteFrom, Mapstart
      <4> QED BY <2>2, <2>5, <3>1, <4>1, <4>2 DEF MadeRight
    <3>7. ASSUME NEW e \in 2..Count', src'[e] = 0 PROVE (name[e] = NoName \/ FromArg(e))'
      <4>1. e \in 2..Count /\ e \in 1..m /\ src[e] = 0 /\ name'[e] = name[e]
        BY <2>2, <3>1, <3>2, <3>7
      <4>2. name[e] = NoName \/ FromArg(e)
        BY <2>5, <4>1 DEF Basic, Elems
      <4> QED BY <2>2, <4>1, <4>2 DEF FromArg, Args
    <3>8. Elems'
      BY <3>5, <3>6, <3>7 DEF Elems
    <3> QED BY <2>4, <2>6, <3>3, <3>8 DEF Basic
  <2> QED BY <2>3, <2>8, <2>9
<1> QED BY <1>2, <1>3

(* Every step keeps the types. *)
LEMMA NextBasic ==
  ASSUME Basic, [Next]_vars
  PROVE  Basic'
<1>1. CASE UNCHANGED vars
  <2>0. UNCHANGED <<pc, cmd, present, arch, exists, next, name, date, src, body>>
        /\ UNCHANGED <<map, after, argn, changed, tail, out, symdef, toc, stray>>
    BY <1>1 DEF vars, envVars, eltVars, idxVars
  <2>1. Shape'
    BY <2>0 DEF Basic, Shape, Pointers
  <2>3. Live' = Live /\ Count' = Count /\ Old' = Old /\ Made' = Made
    BY <2>0 DEF Live, Count, Old, Made
  <2>7. Fixed' /\ Begun'
    BY <2>0 DEF Basic, Fixed, Begun
  <2>8. JustMade'
    BY <2>0, <2>3 DEF Basic, JustMade
  <2>2. Fixed' /\ Begun' /\ JustMade'
    BY <2>7, <2>8
  <2>4. Progress'
    BY <2>0, <2>3 DEF Basic, Progress, WriteFrom, Args
  <2>5. Sourced' = Sourced /\ MadeRight' = MadeRight /\ \A e : FromArg(e)' = FromArg(e)
    BY <2>0, <2>3 DEF Sourced, MadeRight, FromArg, Args
  <2>6. Elems'
    BY <2>0, <2>3, <2>5 DEF Basic, Elems
  <2> QED BY <2>1, <2>2, <2>4, <2>6 DEF Basic
<1>2. CASE Step
  BY <1>2, StartBasic, PositionBasic, DeleteBasic, MoveBasic, SkipBasic, InsertBasic,
     EndEditBasic, MakeIndexBasic, CopyOutBasic, InstallBasic, ZenonT(40) DEF Step
<1> QED BY <1>1, <1>2, VanishBasic, ZenonT(40) DEF Next, Finished

-----------------------------------------------------------------------------
(***************************************************************************)
(* The list.  It is given by its elements in order, L.                     *)
(***************************************************************************)
(* The members of the old archive stand in their order. *)
Sorted(L, sc, c) ==
  \A i, j \in 1..c : i < j /\ sc[L[i]] > 0 /\ sc[L[j]] > 0 => sc[L[i]] < sc[L[j]]

(* make_map's pointers are a list. *)
Straight(n) == [i \in 1..n |-> i]
(* make_map links the members in the order of the archive. *)
LEMMA StraightList ==
  ASSUME NEW n \in Nat, n > 0, NEW nx, \A e \in 1..n : nx[e] = (IF e = n THEN 0 ELSE e + 1)
  PROVE  IsList(Straight(n), nx, n)
<1>1. PICK L : L = Straight(n)
  OBVIOUS
<1>2. L \in [1..n -> 1..n] /\ \A i \in 1..n : L[i] = i
  BY <1>1 DEF Straight
<1>3. OnList(L, n)
  BY <1>2 DEF OnList, Mapstart
<1>4. EachOnce(L, n)
  BY <1>2 DEF EachOnce
<1>5. InOrder(L, nx, n)
  BY <1>2 DEF InOrder
<1> QED BY <1>1, <1>3, <1>4, <1>5 DEF IsList

(* Linking a new element after the p-th one gives a list. *)
Widened(L, m, p) == [i \in 1..(m + 1) |-> IF i <= p THEN L[i] ELSE IF i = p + 1 THEN m + 1 ELSE L[i - 1]]
Wide(K, L, m, p) ==
  /\ \A i \in 1..p : K[i] = L[i]
  /\ K[p + 1] = m + 1
  /\ \A i \in (p + 1)..m : K[i + 1] = L[i]
(* The definition of Widened, and its type. *)
LEMMA WidenedIs ==
  ASSUME NEW L, NEW m \in Nat, NEW p \in 1..m, OnList(L, m)
  PROVE  Wide(Widened(L, m, p), L, m, p) /\ Widened(L, m, p) \in [1..(m + 1) -> 1..(m + 1)]
<1>1. L \in [1..m -> 1..m]
  BY DEF OnList
<1>2. \A i \in 1..p : Widened(L, m, p)[i] = L[i]
  BY DEF Widened
<1>3. Widened(L, m, p)[p + 1] = m + 1
  BY DEF Widened
<1>4. \A i \in (p + 1)..m : Widened(L, m, p)[i + 1] = L[i]
  BY DEF Widened
<1>5. Widened(L, m, p) \in [1..(m + 1) -> 1..(m + 1)]
  BY <1>1 DEF Widened
<1> QED BY <1>2, <1>3, <1>4, <1>5 DEF Wide

(* Its elements are the new one and the old ones. *)
Shifted(a, b, p) == (b <= p /\ a = b) \/ (b > p /\ a = b + 1)
(* Every element of the new list is the new one or an old one. *)
LEMMA WideAt ==
  ASSUME NEW K, NEW L, NEW m \in Nat, NEW p \in 1..m, OnList(L, m), Wide(K, L, m, p),
         NEW a \in 1..(m + 1)
  PROVE  \/ a = p + 1 /\ K[a] = m + 1
         \/ \E b \in 1..m : K[a] = L[b] /\ K[a] # m + 1 /\ L[b] \in 1..m /\ Shifted(a, b, p)
<1>1. \A i \in 1..m : L[i] \in 1..m /\ L[i] # m + 1
  BY DEF OnList
<1>2. CASE a <= p
  <2>1. a \in 1..p
    BY <1>2
  <2>3. a \in 1..m
    BY <2>1
  <2>2. K[a] = L[a]
    BY <2>1 DEF Wide
  <2>4. Shifted(a, a, p)
    BY <1>2 DEF Shifted
  <2> QED BY <1>1, <2>2, <2>3, <2>4
<1>3. CASE a = p + 1
  BY <1>3 DEF Wide
<1>4. CASE a > p + 1
  <2>1. PICK b \in (p + 1)..m : a = b + 1 /\ b \in 1..m /\ b > p
    BY <1>4
  <2>2. K[a] = L[b]
    BY <2>1 DEF Wide
  <2>3. Shifted(a, b, p)
    BY <2>1 DEF Shifted
  <2> QED BY <1>1, <2>1, <2>2, <2>3
<1> QED BY <1>2, <1>3, <1>4

(* The pointers after the new element was linked after element at. *)
LinkedIn(ny, nx, m, at) ==
  /\ ny[at] = m + 1 /\ ny[m + 1] = nx[at]
  /\ \A e \in 1..m : e # at => ny[e] = nx[e]
(* The element is linked in behind place p, so the list is one again. *)
LEMMA WidenedList ==
  ASSUME NEW L, NEW m \in Nat, NEW p \in 1..m, NEW nx, NEW ny, IsList(L, nx, m),
         LinkedIn(ny, nx, m, L[p]), NEW K, K \in [1..(m + 1) -> 1..(m + 1)], Wide(K, L, m, p)
  PROVE  IsList(K, ny, m + 1)
<1>0. OnList(L, m) /\ EachOnce(L, m) /\ InOrder(L, nx, m)
  BY DEF IsList
<1>1. \A i \in 1..m : L[i] \in 1..m
  BY <1>0 DEF OnList
<1>3. OnList(K, m + 1)
  <2>1. L[1] = Mapstart /\ 1 \in 1..p
    BY <1>0 DEF OnList
  <2>2. K[1] = Mapstart
    BY <2>1 DEF Wide
  <2>3. m + 1 \in Nat /\ m + 1 > 0
    OBVIOUS
  <2>4. K \in [1..(m + 1) -> 1..(m + 1)]
    OBVIOUS
  <2> QED BY <2>2, <2>3, <2>4, Zenon DEF OnList
<1>4. EachOnce(K, m + 1)
  <2>1. ASSUME NEW i \in 1..(m + 1), NEW j \in 1..(m + 1), K[i] = K[j] PROVE i = j
    <3>0. \A a, b \in 1..m : L[a] = L[b] => a = b
      BY <1>0 DEF EachOnce
    <3>1. \/ i = p + 1 /\ K[i] = m + 1
          \/ \E b \in 1..m : K[i] = L[b] /\ K[i] # m + 1 /\ L[b] \in 1..m /\ Shifted(i, b, p)
      BY <1>0, WideAt
    <3>2. \/ j = p + 1 /\ K[j] = m + 1
          \/ \E b \in 1..m : K[j] = L[b] /\ K[j] # m + 1 /\ L[b] \in 1..m /\ Shifted(j, b, p)
      BY <1>0, WideAt
    <3>3. CASE K[i] = m + 1
      BY <2>1, <3>1, <3>2, <3>3
    <3>4. CASE K[i] # m + 1
      <4>1. PICK a \in 1..m : K[i] = L[a] /\ Shifted(i, a, p)
        BY <3>1, <3>4
      <4>2. PICK b \in 1..m : K[j] = L[b] /\ Shifted(j, b, p)
        BY <2>1, <3>2, <3>4
      <4>3. a = b
        BY <2>1, <3>0, <4>1, <4>2
      <4>4. Shifted(i, a, p) /\ Shifted(j, a, p)
        BY <4>1, <4>2, <4>3
      <4> QED BY <4>4 DEF Shifted
    <3> QED BY <3>3, <3>4
  <2>2. ASSUME NEW e \in 1..(m + 1) PROVE \E i \in 1..(m + 1) : K[i] = e
    <3>1. CASE e = m + 1
      <4>1. p + 1 \in 1..(m + 1)
        OBVIOUS
      <4> QED BY <3>1, <4>1 DEF Wide
    <3>2. CASE e \in 1..m
      <4>1. PICK i \in 1..m : L[i] = e
        BY <1>0, <3>2 DEF EachOnce
      <4>2. CASE i <= p
        <5>1. i \in 1..p /\ i \in 1..(m + 1)
          BY <4>2
        <5> QED BY <4>1, <5>1 DEF Wide
      <4>3. CASE i > p
        <5>1. i \in (p + 1)..m /\ i + 1 \in 1..(m + 1)
          BY <4>3
        <5> QED BY <4>1, <5>1 DEF Wide
      <4> QED BY <4>2, <4>3
    <3> QED BY <3>1, <3>2
  <2> QED BY <2>1, <2>2 DEF EachOnce
<1>5. InOrder(K, ny, m + 1)
  <2>0. /\ \A i \in 1..(m - 1) : nx[L[i]] = L[i + 1]
        /\ nx[L[m]] = 0
        /\ \A i \in 1..m : i # p => ny[L[i]] = nx[L[i]]
    <3>1. \A i \in 1..m : L[i] = L[p] => i = p
      BY <1>0 DEF EachOnce
    <3> QED BY <1>0, <1>1, <3>1 DEF InOrder, LinkedIn
  <2>1. ASSUME NEW i \in 1..((m + 1) - 1) PROVE ny[K[i]] = K[i + 1]
    <3>1. CASE i < p
      <4>1. i \in 1..p /\ i + 1 \in 1..p /\ i \in 1..(m - 1) /\ i \in 1..m /\ i # p
        BY <3>1
      <4>2. K[i] = L[i] /\ K[i + 1] = L[i + 1]
        BY <4>1 DEF Wide
      <4> QED BY <2>0, <4>1, <4>2
    <3>2. CASE i = p
      <4>1. K[p] = L[p] /\ K[p + 1] = m + 1
        BY DEF Wide
      <4> QED BY <3>2, <4>1 DEF LinkedIn
    <3>3. CASE i = p + 1
      <4>1. p \in 1..(m - 1) /\ p + 1 \in (p + 1)..m
        BY <3>3
      <4>2. ny[K[i]] = L[p + 1]
        BY <2>0, <3>3, <4>1 DEF Wide, LinkedIn
      <4>3. K[(p + 1) + 1] = L[p + 1]
        BY <4>1 DEF Wide
      <4> QED BY <3>3, <4>2, <4>3
    <3>4. CASE i > p + 1
      <4>1. PICK j \in 1..(m - 1) : i = j + 1 /\ j > p /\ j # p
        BY <3>4
      <4>2. j \in (p + 1)..m /\ j + 1 \in (p + 1)..m /\ j \in 1..m
        BY <4>1
      <4>3. K[i] = L[j] /\ K[i + 1] = L[j + 1]
        BY <4>1, <4>2 DEF Wide
      <4> QED BY <2>0, <4>1, <4>2, <4>3
    <3> QED BY <3>1, <3>2, <3>3, <3>4
  <2>2. ny[K[m + 1]] = 0
    <3>1. CASE p = m
      BY <2>0, <3>1 DEF Wide, LinkedIn
    <3>2. CASE p # m
      <4>1. m \in (p + 1)..m /\ m \in 1..m
        BY <3>2
      <4> QED BY <2>0, <3>2, <4>1 DEF Wide
    <3> QED BY <3>1, <3>2
  <2> QED BY <2>1, <2>2 DEF InOrder
<1> QED BY <1>3, <1>4, <1>5 DEF IsList

(* An element that does not come from the old archive keeps them sorted. *)
LEMMA WidenedSorted ==
  ASSUME NEW L, NEW m \in Nat, NEW p \in 1..m, NEW sc, NEW sd, OnList(L, m),
         Sorted(L, sc, m), sd[m + 1] = 0, \A e \in 1..m : sd[e] = sc[e],
         NEW K, Wide(K, L, m, p)
  PROVE  Sorted(K, sd, m + 1)
<1>1. ASSUME NEW a \in 1..(m + 1), sd[K[a]] > 0
      PROVE  \E b \in 1..m : sd[K[a]] = sc[L[b]] /\ Shifted(a, b, p)
  <2>1. K[a] # m + 1
    BY <1>1
  <2>2. PICK b \in 1..m : K[a] = L[b] /\ L[b] \in 1..m /\ Shifted(a, b, p)
    BY <2>1, WideAt
  <2> QED BY <2>2
<1>2. ASSUME NEW i \in 1..(m + 1), NEW j \in 1..(m + 1), i < j, sd[K[i]] > 0, sd[K[j]] > 0
      PROVE  sd[K[i]] < sd[K[j]]
  <2>1. PICK a \in 1..m : sd[K[i]] = sc[L[a]] /\ Shifted(i, a, p)
    BY <1>1, <1>2
  <2>2. PICK b \in 1..m : sd[K[j]] = sc[L[b]] /\ Shifted(j, b, p)
    BY <1>1, <1>2
  <2>3. a < b
    BY <1>2, <2>1, <2>2 DEF Shifted
  <2> QED BY <1>2, <2>1, <2>2, <2>3 DEF Sorted
<1> QED BY <1>2 DEF Sorted

-----------------------------------------------------------------------------
(* The files r inserted stand after the members up to the place asked for,  *)
(* and after points to the last of them.                                    *)
Split(L, c, o, pl) ==
  \A i, j \in 1..c : L[i] > o /\ L[j] \in 2..o => (j < i <=> L[j] - 1 <= pl)
Upto(L, c, o, pl, q) ==
  \A i \in 1..c : i <= q <=> L[i] > o \/ L[i] - 1 <= pl
Placed(L) ==
  cmd.op = "r" /\ Symdef \notin {cmd.files[a] : a \in Args} =>
    /\ Split(L, Count, Old, Place)
    /\ pc = "edit" => \E q \in 1..Count : after = L[q] /\ Upto(L, Count, Old, Place, q)

(* The members written come from the elements at increasing positions w of  *)
(* the list before t, all those that are neither cancelled nor gone; 1      *)
(* stands for the index that was made.                                      *)
Kept(e) == name[e] # NoName /\ (src[e] = 0 => Exists(name[e]))
Rising(w, n) == \A i, j \in 1..n : i < j => w[i] < w[j]
Wrote(L, w, i) ==
  /\ out[i].src = src[L[w[i]]]
  /\ w[i] = 1 => out[i].from = Symdef
  /\ w[i] > 1 => name[L[w[i]]] # NoName
Found(L, w, p) ==
  \E i \in 1..Len(out) : w[i] = p /\ (src[L[p]] = 0 => out[i].from = name[L[p]])
TraceBy(L, t, w) ==
  /\ w \in [1..Len(out) -> 1..(t - 1)] /\ Rising(w, Len(out))
  /\ \A i \in 1..Len(out) : Wrote(L, w, i)
  /\ \A p \in 2..(t - 1) : Kept(L[p]) => Found(L, w, p)
Trace(L, t) == \E w : TraceBy(L, t, w)
AtPlace(L, t) ==
  /\ t = 1 => Made
  /\ tail = IF t = 1 THEN symdef ELSE IF t = Count + 1 THEN 0 ELSE L[t]
Copying(L) ==
  /\ pc = "write" => \E t \in 1..(Count + 1) : AtPlace(L, t) /\ Trace(L, t)
  /\ pc = "install" \/ Written => Trace(L, Count + 1)

ListWith(L) ==
  IsList(L, next, Count) /\ Sorted(L, src, Count) /\ Placed(L) /\ Copying(L)
ListInv == Live /\ cmd.op # "m" => \E L : ListWith(L)

(* Steps that leave the list as it is. *)
LEMMA ListStays ==
  ASSUME NEW L, ListWith(L), UNCHANGED <<arch, cmd>>, Count' = Count,
         IsList(L, next', Count), Sorted(L, src', Count),
         pc' = "edit" => pc = "edit" /\ after' = after, Copying(L)'
  PROVE  ListWith(L)'
<1>1. Old' = Old /\ Args' = Args
  BY DEF Old, Args
<1>2. Place' = Place
  BY DEF Place, FirstMatch
<1>3. Placed(L)'
  <2>1. Placed(L)
    BY DEF ListWith
  <2> QED BY <1>1, <1>2, <2>1 DEF Placed
<1> QED BY <1>3 DEF ListWith

(* A step that changes neither pointers nor origins keeps the list. *)
LEMMA SameList ==
  ASSUME NEW L, ListWith(L), UNCHANGED <<next, src, symdef, arch, cmd>>,
         pc' = "edit" => pc = "edit" /\ after' = after, Copying(L)'
  PROVE  ListWith(L)'
<1>1. Count' = Count
  BY DEF Count, Made
<1>2. IsList(L, next', Count) /\ Sorted(L, src', Count)
  BY DEF ListWith
<1> QED BY <1>1, <1>2, ListStays

(* make_map makes a list. *)
LEMMA StartList ==
  ASSUME Basic, Start
  PROVE  ListInv'
<1> SUFFICES ASSUME Live', cmd'.op # "m" PROVE (\E L : ListWith(L))'
  BY DEF ListInv
<1>1. /\ pc = "start" /\ exists' = TRUE
      /\ pc' = IF cmd.op \in {"r", "m"} THEN "position" ELSE "edit"
      /\ IF cmd.op = "q" THEN after' = Mapstart /\ UNCHANGED <<eltVars, map>>
         ELSE make_map /\ UNCHANGED after
      /\ UNCHANGED <<envVars, arch, argn, changed, tail, out, idxVars>>
  BY DEF Start, Exit, Live
<1>2. /\ next = <<0>> /\ src = <<0>> /\ symdef = 0 /\ symdef' = 0 /\ Fixed
      /\ cmd' = cmd /\ arch' = arch
  BY <1>1 DEF Basic, Begun, idxVars, envVars
<1>3. Count' = Len(next') /\ Old' = Old
  BY <1>2 DEF Made, Count, Old
<1>4. PICK n \in Nat :
        /\ n > 0 /\ Len(next') = n /\ (cmd.op # "q" => n = Old)
        /\ \A e \in 1..n : next'[e] = (IF e = n THEN 0 ELSE e + 1) /\ src'[e] = e - 1
  <2>1. CASE cmd.op = "q"
    <3>1. next' = <<0>> /\ src' = <<0>> /\ Len(next') = 1
      BY <1>1, <1>2, <2>1 DEF eltVars
    <3>2. \A e \in 1..1 : next'[e] = (IF e = 1 THEN 0 ELSE e + 1) /\ src'[e] = e - 1
      BY <3>1
    <3> QED BY <2>1, <3>1, <3>2
  <2>2. CASE cmd.op # "q"
    BY <1>1, <1>2, <2>2, MapMade
  <2> QED BY <2>1, <2>2
<1>5. PICK L : L = Straight(n)
  OBVIOUS
<1>6. IsList(L, next, Count)'
  <2>1. IsList(L, next', n)
    BY <1>4, <1>5, StraightList
  <2> QED BY <1>3, <1>4, <2>1
<1>7. \A i \in 1..n : L[i] = i /\ src'[L[i]] = i - 1
  BY <1>4, <1>5 DEF Straight
<1>8. Sorted(L, src, Count)'
  BY <1>3, <1>4, <1>7 DEF Sorted
<1>9. Placed(L)'
  <2>1. SUFFICES ASSUME cmd.op = "r"
                 PROVE  \A i \in 1..n : ~(L[i] > Old)
    BY <1>1, <1>2, <1>3, <1>4 DEF Placed, Split
  <2> QED BY <1>4, <1>7, <2>1
<1>10. Copying(L)'
  <2>1. pc' \in {"position", "edit"}
    BY <1>1
  <2> QED BY <2>1 DEF Copying, Written
<1>11. ListWith(L)'
  BY <1>6, <1>8, <1>9, <1>10 DEF ListWith
<1> QED BY <1>11

(* FirstMatch is the first member that matches. *)
LEMMA FirstMatchIs ==
  ASSUME Fixed, NEW n
  PROVE  \/ FirstMatch(n) = 0 /\ \A k \in 1..Len(arch) : ~Matches(arch[k].name, n)
         \/ /\ FirstMatch(n) \in 1..Len(arch) /\ Matches(arch[FirstMatch(n)].name, n)
            /\ \A k \in 1..Len(arch) : Matches(arch[k].name, n) => FirstMatch(n) <= k
<1>1. DOMAIN arch = 1..Len(arch) /\ Len(arch) \in Nat
  BY ArchFacts
<1>2. PICK hits : hits = {k \in DOMAIN arch : Matches(arch[k].name, n)}
  OBVIOUS
<1>3. FirstMatch(n) = IF hits = {} THEN 0 ELSE CHOOSE k \in hits : \A j \in hits : k <= j
  BY <1>2 DEF FirstMatch
<1>4. CASE hits = {}
  BY <1>1, <1>2, <1>3, <1>4
<1>5. CASE hits # {}
  <2>1. hits \subseteq Nat
    BY <1>1, <1>2
  <2>2. \E k \in hits : \A j \in hits : k <= j
    BY <1>5, <2>1, LeastNat
  <2>3. PICK k \in hits : FirstMatch(n) = k /\ \A j \in hits : k <= j
    BY <1>3, <1>5, <2>2
  <2> QED BY <1>1, <1>2, <2>3
<1> QED BY <1>4, <1>5

(* The position switch finds the element of the member asked for. *)
LEMMA PositionIsPlace ==
  ASSUME Basic, pc = "position", PositionElt # 0
  PROVE  PositionElt = Place + 1 /\ Place \in 0..Len(arch)
<1>1. /\ Fixed /\ Pointers /\ Len(next) = Old
      /\ \A e \in 1..Old : next[e] = (IF e = Old THEN 0 ELSE e + 1)
      /\ \A e \in 2..Old : name[e] = arch[e - 1].name
      /\ map = (IF Old = 1 THEN 0 ELSE 2)
  BY DEF Basic, Shape, JustMade
<1>2. PICK n \in Nat : n = Old /\ n = Len(arch) + 1 /\ n > 0 /\ Len(arch) \in Nat
  BY <1>1, ArchFacts DEF Old
<1>3. PICK L : L = Straight(n)
  OBVIOUS
<1>4. IsList(L, next, n) /\ n \in 1..Len(next)
  BY <1>1, <1>2, <1>3, StraightList
<1>5. \A i \in 1..n : L[i] = i
  BY <1>3 DEF Straight
<1>6. last_mapelt(Mapstart) = n
  BY <1>1, <1>2, <1>4, <1>5, LastInList
<1>7. PICK f : f = find_mapelt(map, cmd.posname)
  OBVIOUS
<1>8. f # 0 => f \in 2..n /\ f - 1 = FirstMatch(cmd.posname)
  <2> SUFFICES ASSUME f # 0 PROVE f \in 2..n /\ f - 1 = FirstMatch(cmd.posname)
    OBVIOUS
  <2>1. map # 0
    BY <1>1, <1>7, FindFromNull
  <2>2. n \in 2..n /\ map = 2 /\ 2 \in 1..n /\ L[2] = 2
    BY <1>1, <1>2, <1>5, <2>1
  <2>3. PICK i \in 2..n : /\ f = L[i] /\ Matches(name[L[i]], cmd.posname)
                          /\ \A j \in 2..(i - 1) : ~Matches(name[L[j]], cmd.posname)
    <3>1. PICK p \in 1..n : p = 2 /\ f = find_mapelt(L[p], cmd.posname)
      BY <1>7, <2>2
    <3>2. \E i \in p..n : /\ f = L[i] /\ Matches(name[L[i]], cmd.posname)
                          /\ \A j \in p..(i - 1) : ~Matches(name[L[j]], cmd.posname)
      BY <1>1, <1>4, <3>1, FindInList
    <3> QED BY <3>1, <3>2
  <2>4. f = i /\ name[i] = arch[i - 1].name /\ Matches(arch[i - 1].name, cmd.posname)
    BY <1>1, <1>2, <1>5, <2>3
  <2>5. ASSUME NEW k \in 1..(i - 2) PROVE ~Matches(arch[k].name, cmd.posname)
    <3>1. k + 1 \in 2..(i - 1) /\ k + 1 \in 2..n /\ k + 1 \in 1..n /\ (k + 1) - 1 = k
      BY <2>3
    <3>2. L[k + 1] = k + 1 /\ name[k + 1] = arch[(k + 1) - 1].name
      BY <1>1, <1>2, <1>5, <3>1
    <3> QED BY <2>3, <3>1, <3>2
  <2>6. i - 1 \in 1..Len(arch)
    BY <1>2, <2>3
  <2>7. PICK g : g = FirstMatch(cmd.posname)
    OBVIOUS
  <2>8. /\ g \in 1..Len(arch) /\ Matches(arch[g].name, cmd.posname) /\ g <= i - 1
    BY <1>1, <2>4, <2>6, <2>7, FirstMatchIs
  <2>9. g \notin 1..(i - 2)
    BY <2>5, <2>8
  <2> QED BY <1>2, <2>4, <2>7, <2>8, <2>9
<1>9. CASE cmd.postype = "default"
  BY <1>2, <1>6, <1>9 DEF PositionElt, Place
<1>10. CASE cmd.postype = "after"
  <2>1. PositionElt = f /\ Place = FirstMatch(cmd.posname)
    BY <1>7, <1>10 DEF PositionElt, Place
  <2> QED BY <1>2, <1>8, <2>1
<1>11. CASE cmd.postype = "before"
  <2>1. PositionElt = prev_mapelt(Mapstart, f) /\ Place = FirstMatch(cmd.posname) - 1
    BY <1>7, <1>11 DEF PositionElt, Place
  <2>2. f # 0
    BY <2>1, PrevOfNull
  <2>3. f \in 1..n /\ f - 1 \in 1..n /\ L[f] = f /\ L[f - 1] = f - 1
    BY <1>2, <1>5, <1>8, <2>2
  <2>4. prev_mapelt(Mapstart, f) = f - 1
    <3>1. f \in 2..n
      BY <1>8, <2>2
    <3>2. prev_mapelt(Mapstart, L[f]) = L[f - 1]
      BY <1>1, <1>4, <3>1, PrevInList
    <3> QED BY <2>3, <3>2
  <2> QED BY <1>2, <1>8, <2>1, <2>2, <2>4
<1> QED BY <1>1, <1>9, <1>10, <1>11, CommandFacts

(* FindPosition sets after to the place the files go to. *)
LEMMA PositionList ==
  ASSUME Basic, FindPosition
  PROVE  ListInv'
<1> SUFFICES ASSUME Live', cmd'.op # "m" PROVE (\E L : ListWith(L))'
  BY DEF ListInv
<1>1. /\ pc = "position" /\ PositionElt # 0 /\ after' = PositionElt /\ pc' = "edit"
      /\ UNCHANGED <<envVars, arch, exists, eltVars, map, argn, changed, tail, out, idxVars>>
  BY DEF FindPosition, Exit, Live
<1>2. /\ Fixed /\ Len(next) = Old /\ symdef' = 0 /\ next' = next /\ src' = src /\ cmd' = cmd
      /\ arch' = arch /\ cmd.op = "r" /\ Live /\ Sourced
      /\ \A e \in 1..Old : next[e] = (IF e = Old THEN 0 ELSE e + 1)
  BY <1>1 DEF Basic, JustMade, Progress, idxVars, envVars, eltVars, Elems, Live
<1>3. PICK n \in Nat : n = Old /\ n > 0 /\ n = Len(arch) + 1 /\ Len(arch) \in Nat
  BY <1>2, ArchFacts DEF Old
<1>4. Count' = n /\ Old' = n
  BY <1>2, <1>3 DEF Made, Count, Old
<1>5. PICK L : L = Straight(n)
  OBVIOUS
<1>6. IsList(L, next, Count)'
  BY <1>2, <1>3, <1>4, <1>5, StraightList
<1>7. \A i \in 1..n : L[i] = i /\ src[L[i]] = i - 1
  BY <1>2, <1>3, <1>5 DEF Straight, Sourced
<1>8. Sorted(L, src, Count)'
  BY <1>2, <1>3, <1>4, <1>7 DEF Sorted
<1>9. Placed(L)'
  <2>1. PICK q \in 1..n : q = Place + 1 /\ after' = q /\ Place \in 0..Len(arch)
    BY <1>1, <1>3, PositionIsPlace
  <2>2. Place' = Place
    BY <1>2 DEF Place, FirstMatch
  <2>3. Upto(L, n, n, Place', q)
    <3>1. ASSUME NEW i \in 1..n PROVE i <= q <=> L[i] > n \/ L[i] - 1 <= Place
      <4>1. L[i] = i
        BY <1>7
      <4> QED BY <2>1, <4>1
    <3> QED BY <2>2, <3>1 DEF Upto
  <2>4. after' = L[q] /\ Split(L, n, n, Place')
    <3>1. after' = L[q]
      BY <1>7, <2>1
    <3>2. ASSUME NEW i \in 1..n PROVE ~(L[i] > n)
      BY <1>7
    <3> QED BY <3>1, <3>2 DEF Split
  <2> QED BY <1>4, <2>3, <2>4 DEF Placed
<1>10. Copying(L)'
  BY <1>1 DEF Copying, Written
<1>11. ListWith(L)'
  BY <1>6, <1>8, <1>9, <1>10 DEF ListWith
<1> QED BY <1>11

(* Linking the new element after after keeps the files where they belong. *)
LEMMA WidenedPlaced ==
  ASSUME NEW L, NEW m \in Nat, NEW q \in 1..m, OnList(L, m), NEW K, Wide(K, L, m, q),
         NEW o \in Nat, o <= m, NEW pl \in Int, Split(L, m, o, pl), Upto(L, m, o, pl, q)
  PROVE  Split(K, m + 1, o, pl) /\ Upto(K, m + 1, o, pl, q + 1)
<1>2. ASSUME NEW a \in 1..(m + 1)
      PROVE  \/ a = q + 1 /\ K[a] = m + 1
             \/ \E b \in 1..m : K[a] = L[b] /\ K[a] # m + 1 /\ L[b] \in 1..m /\ Shifted(a, b, q)
  BY WideAt
<1>3. ASSUME NEW a \in 1..(m + 1)
      PROVE  a <= q + 1 <=> K[a] > o \/ K[a] - 1 <= pl
  <2>1. CASE K[a] = m + 1
    <3>1. a = q + 1
      BY <1>2, <2>1
    <3> QED BY <2>1, <3>1
  <2>2. CASE K[a] # m + 1
    <3>1. PICK b \in 1..m : K[a] = L[b] /\ L[b] \in 1..m /\ Shifted(a, b, q)
      BY <1>2, <2>2
    <3>2. b <= q <=> L[b] > o \/ L[b] - 1 <= pl
      BY DEF Upto
    <3>3. b <= q <=> a <= q + 1
      BY <3>1 DEF Shifted
    <3> QED BY <3>1, <3>2, <3>3
  <2> QED BY <2>1, <2>2
<1>4. ASSUME NEW i \in 1..(m + 1), NEW j \in 1..(m + 1), K[i] > o, K[j] \in 2..o
      PROVE  j < i <=> K[j] - 1 <= pl
  <2>1. K[j] # m + 1
    BY <1>4
  <2>2. PICK c \in 1..m : K[j] = L[c] /\ L[c] \in 1..m /\ Shifted(j, c, q)
    BY <1>2, <2>1
  <2>3. c <= q <=> K[j] - 1 <= pl
    <3>1. c <= q <=> L[c] > o \/ L[c] - 1 <= pl
      BY DEF Upto
    <3> QED BY <1>4, <2>2, <3>1
  <2>4. CASE K[i] = m + 1
    <3>1. i = q + 1
      BY <1>2, <2>4
    <3>2. c <= q <=> j < i
      BY <2>2, <3>1 DEF Shifted
    <3> QED BY <2>3, <3>2
  <2>5. CASE K[i] # m + 1
    <3>1. PICK b \in 1..m : K[i] = L[b] /\ L[b] \in 1..m /\ Shifted(i, b, q)
      BY <1>2, <2>5
    <3>2. c < b <=> L[c] - 1 <= pl
      BY <1>4, <2>2, <3>1 DEF Split
    <3>3. c < b <=> j < i
      BY <2>2, <3>1 DEF Shifted
    <3> QED BY <2>2, <3>2, <3>3
  <2> QED BY <2>4, <2>5
<1> QED BY <1>3, <1>4 DEF Split, Upto

(* The place asked for is a number of members, or -1. *)
LEMMA PlaceType ==
  ASSUME Fixed
  PROVE  Place \in Int
<1>1. Len(arch) \in Nat /\ cmd.postype \in {"default", "after", "before"}
  BY ArchFacts, CommandFacts
<1>2. FirstMatch(cmd.posname) \in Int
  BY <1>1, FirstMatchIs
<1> QED BY <1>1, <1>2 DEF Place

(* insert_in_map links the new element in behind after, and after moves on. *)
LEMMA InsertList ==
  ASSUME Basic, ListInv, InsertArg
  PROVE  ListInv'
<1> SUFFICES ASSUME Live', cmd'.op # "m" PROVE (\E L : ListWith(L))'
  BY DEF ListInv
<1>1. PICK m \in Nat : m = Len(next) /\ m > 0
  BY DEF Basic, Shape, Pointers
<1>2. /\ pc = "edit" /\ cmd.op \in {"r", "q"} /\ argn \in 1..Len(cmd.files)
      /\ UNCHANGED <<envVars, arch, exists, map, tail, out, idxVars>>
  <2>1. argn \in Nat /\ argn > 0 /\ Len(cmd.files) \in Nat
    BY CommandFacts DEF Basic, Shape
  <2> QED BY <2>1 DEF InsertArg, Editing
<1>3. /\ symdef = 0 /\ symdef' = 0 /\ cmd' = cmd /\ arch' = arch /\ Live /\ Sourced /\ Fixed
      /\ pc' # "crash" /\ Args' = Args
  BY <1>2 DEF Basic, Progress, idxVars, envVars, Elems, Live, Args
<1>4. NewElement /\ NewLink
  BY <1>3, InsertEffect
<1>5. /\ Len(next') = m + 1 /\ src'[m + 1] = 0 /\ \A e \in 1..m : src'[e] = src[e]
  BY <1>1, <1>4 DEF NewElement
<1>6. /\ At \in 1..m /\ LinkedIn(next', next, m, At)
      /\ pc' = "edit" /\ after' = next'[after]
  BY <1>1, <1>2, <1>4 DEF NewLink, LinkedIn
<1>7. Count = m /\ Count' = m + 1 /\ Old' = Old
  BY <1>1, <1>3, <1>5 DEF Made, Count, Old
<1>8. PICK L : ListWith(L)
  BY <1>2, <1>3 DEF ListInv
<1>9. IsList(L, next, m) /\ Sorted(L, src, m) /\ Placed(L) /\ OnList(L, m) /\ EachOnce(L, m)
  BY <1>7, <1>8 DEF ListWith, IsList
<1>10. PICK p \in 1..m : L[p] = At
  BY <1>6, <1>9 DEF EachOnce
<1>11. PICK K : K = Widened(L, m, p)
  OBVIOUS
<1>12. Wide(K, L, m, p) /\ K \in [1..(m + 1) -> 1..(m + 1)]
  BY <1>9, <1>11, WidenedIs
<1>13. IsList(K, next, Count)'
  <2>1. IsList(K, next', m + 1)
    BY <1>6, <1>9, <1>10, <1>12, WidenedList
  <2> QED BY <1>7, <2>1
<1>14. Sorted(K, src, Count)'
  <2>1. Sorted(K, src', m + 1)
    BY <1>5, <1>9, <1>12, WidenedSorted
  <2> QED BY <1>7, <2>1
<1>15. Placed(K)'
  <2> SUFFICES ASSUME cmd.op = "r", Symdef \notin {cmd.files[a] : a \in Args}
               PROVE  Placed(K)'
    BY <1>3 DEF Placed
  <2>1. Arg # Symdef
    <3>1. argn \in Args
      BY <1>2, <1>3, CommandFacts
    <3> QED BY <3>1 DEF Arg
  <2>2. At = after
    BY <2>1 DEF At
  <2>3. PICK q \in 1..m : after = L[q] /\ Upto(L, m, Old, Place, q)
    BY <1>2, <1>7, <1>9 DEF Placed
  <2>4. q = p
    <3>1. \A i, j \in 1..m : L[i] = L[j] => i = j
      BY <1>9 DEF EachOnce
    <3> QED BY <1>10, <2>2, <2>3, <3>1
  <2>5. PICK o \in Nat : o = Old /\ o <= m
    <3>1. Old \in Nat
      BY <1>3, ArchFacts DEF Old
    <3> QED BY <1>3, <1>7, <3>1 DEF Sourced
  <2>6. PICK pl : pl = Place
    OBVIOUS
  <2>7. Place' = pl
    BY <1>3, <2>6 DEF Place, FirstMatch
  <2>8. Split(L, m, o, pl) /\ Upto(L, m, o, pl, q)
    BY <1>7, <1>9, <2>3, <2>5, <2>6 DEF Placed
  <2>9. pl \in Int
    BY <1>3, <2>6, PlaceType
  <2>10. Split(K, m + 1, o, pl) /\ Upto(K, m + 1, o, pl, q + 1)
    BY <1>9, <1>12, <2>4, <2>5, <2>8, <2>9, WidenedPlaced
  <2>11. q + 1 \in 1..(m + 1) /\ after' = K[q + 1]
    <3>1. next'[after] = m + 1 /\ K[p + 1] = m + 1
      BY <1>6, <1>12, <2>2 DEF LinkedIn, Wide
    <3> QED BY <1>6, <2>4, <3>1
  <2> QED BY <1>7, <2>5, <2>7, <2>10, <2>11 DEF Placed
<1>16. Copying(K)'
  BY <1>6 DEF Copying, Written
<1>17. ListWith(K)'
  BY <1>13, <1>14, <1>15, <1>16 DEF ListWith
<1> QED BY <1>17

(* Cancelling a name leaves the list alone. *)
LEMMA EditList ==
  ASSUME Basic, ListInv, DeleteArg \/ SkipArg
  PROVE  ListInv'
<1>1. /\ pc = "edit" /\ pc' = "edit" /\ UNCHANGED <<next, src, symdef, arch, cmd, after>>
  BY DEF DeleteArg, SkipArg, Editing, idxVars, envVars, eltVars
<1> SUFFICES ASSUME cmd.op # "m" PROVE (\E L : ListWith(L))'
  BY <1>1 DEF ListInv
<1>2. PICK L : ListWith(L)
  BY <1>1 DEF ListInv, Live
<1>3. Copying(L)'
  BY <1>1 DEF Copying, Written
<1>4. ListWith(L)'
  BY <1>1, <1>2, <1>3, SameList
<1> QED BY <1>4

(* Where write_archive begins nothing is written. *)
LEMMA NothingWritten ==
  ASSUME NEW L, out' = <<>>, NEW t \in {1, 2}
  PROVE  Trace(L, t)'
<1>1. Len(out') = 0 /\ 1..Len(out') = {}
  OBVIOUS
<1>2. PICK w : w = [i \in 1..0 |-> 1]
  OBVIOUS
<1>3. w \in [1..Len(out') -> 1..(t - 1)]
  BY <1>1, <1>2
<1>4. Rising(w, Len(out')) /\ \A i \in 1..Len(out') : Wrote(L, w, i)'
  BY <1>1 DEF Rising
<1>5. 2..(t - 1) = {}
  OBVIOUS
<1>6. TraceBy(L, t, w)'
  BY <1>3, <1>4, <1>5 DEF TraceBy
<1> QED BY <1>6 DEF Trace

(* Where the list begins. *)
LEMMA SecondElement ==
  ASSUME NEW L, NEW c \in Nat, NEW nx, IsList(L, nx, c)
  PROVE  nx[1] = (IF 2 = c + 1 THEN 0 ELSE L[2]) /\ 2 \in 1..(c + 1) /\ c \in 1..c
<1>1. c > 0 /\ L[1] = 1
  BY DEF IsList, OnList, Mapstart
<1>2. CASE c = 1
  BY <1>1, <1>2 DEF IsList, InOrder
<1>3. CASE c > 1
  <2>1. 1 \in 1..(c - 1) /\ 1 + 1 = 2
    BY <1>3
  <2> QED BY <1>1, <1>3, <2>1 DEF IsList, InOrder
<1> QED BY <1>1, <1>2, <1>3

(* Nothing is written when the copy loop starts. *)
LEMMA EndEditCopies ==
  ASSUME Basic, NEW L, IsList(L, next, Count), WriteFrom = next[1], EndEdit
  PROVE  Copying(L)'
<1>1. /\ pc = "edit" /\ UNCHANGED <<next, src, symdef, cmd, out, changed>>
      /\ \/ pc' = "done" /\ cmd.op = "r" /\ ~changed
         \/ pc' \in {"index", "write"} /\ tail' = WriteFrom
  BY DEF EndEdit, idxVars, envVars, eltVars
<1>2. symdef = 0 /\ out = <<>> /\ symdef' = 0 /\ out' = <<>>
  BY <1>1 DEF Basic, Progress
<1>3. CASE pc' \in {"index", "done"}
  BY <1>1, <1>2, <1>3 DEF Copying, Written
<1>4. CASE pc' = "write"
  <2>1. tail' = next[1]
    BY <1>1, <1>4
  <2>2. PICK c \in Nat : c = Count /\ c = Count' /\ IsList(L, next, c)
    <3>1. Count = Len(next) /\ Count' = Len(next)
      BY <1>1, <1>2 DEF Count, Made
    <3> QED BY <3>1 DEF Basic, Shape, Pointers
  <2>3. AtPlace(L, 2)'
    <3>1. next[1] = IF 2 = c + 1 THEN 0 ELSE L[2]
      BY <2>2, SecondElement
    <3> QED BY <2>1, <2>2, <3>1 DEF AtPlace
  <2>4. Trace(L, 2)'
    BY <1>2, NothingWritten
  <2> QED BY <1>4, <2>2, <2>3, <2>4, SecondElement DEF Copying, Written
<1> QED BY <1>1, <1>3, <1>4

(* The end of the edits leaves the list alone. *)
LEMMA EndEditList ==
  ASSUME Basic, ListInv, EndEdit
  PROVE  ListInv'
<1>1. pc = "edit" /\ pc' # "edit" /\ UNCHANGED <<next, src, symdef, arch, cmd>>
  BY DEF EndEdit, idxVars, envVars, eltVars
<1> SUFFICES ASSUME cmd.op # "m" PROVE (\E L : ListWith(L))'
  BY <1>1 DEF ListInv
<1>2. PICK L : ListWith(L)
  BY <1>1 DEF ListInv, Live
<1>3. Copying(L)'
  <2>1. WriteFrom = next[1] /\ IsList(L, next, Count)
    BY <1>2 DEF WriteFrom, Mapstart, ListWith
  <2> QED BY <2>1, EndEditCopies
<1>4. ListWith(L)'
  BY <1>1, <1>2, <1>3, SameList
<1> QED BY <1>4

(* The element of a new index is put before the list, not on it. *)
LEMMA MakeIndexCopies ==
  ASSUME Basic, MakeIndex, Live', NEW L, IsList(L, next, Count), tail = next[1]
  PROVE  /\ Copying(L)' /\ Count' = Count /\ IsList(L, next', Count) /\ pc' = "write"
         /\ \A e \in 1..Count : src'[e] = src[e] /\ name'[e] = name[e]
         /\ Made' => next'[symdef'] = next'[1]
<1>1. /\ pc = "index" /\ pc' \notin {"hang", "crash", "exit"}
      /\ UNCHANGED <<cmd, present, arch, out, changed>>
  BY DEF MakeIndex, Live, envVars
<1>2. PICK m \in Nat : m = Len(next)
  BY DEF Basic, Shape, Pointers
<1>3. symdef = 0 /\ out' = <<>> /\ Count = m
  BY <1>1, <1>2 DEF Basic, Progress, Made, Count
<1>4. pc' = "write" /\ (IndexMade \/ IndexKept)
  BY <1>1, IndexEffect
<1>5. IsList(L, next, m) /\ OnList(L, m) /\ \A i \in 1..m : L[i] \in 1..m
  BY <1>3 DEF IsList, OnList
<1>6. m \in 1..m /\ 1 \in 1..m /\ 1 \in 1..(m + 1) /\ 2 \in 1..(m + 1)
  BY <1>5 DEF OnList
<1>7. Trace(L, 1)' /\ Trace(L, 2)'
  BY <1>3, NothingWritten
<1>8. CASE IndexKept
  <2>1. /\ next' = next /\ src' = src /\ name' = name /\ tail' = tail /\ Count' = m /\ ~Made'
    BY <1>2, <1>8 DEF IndexKept, Made, Count
  <2>2. AtPlace(L, 2)'
    <3>1. next[1] = IF 2 = m + 1 THEN 0 ELSE L[2]
      BY <1>5, SecondElement
    <3> QED BY <1>3, <2>1, <3>1 DEF AtPlace
  <2>3. Copying(L)'
    BY <1>4, <1>6, <1>7, <2>1, <2>2 DEF Copying, Written
  <2> QED BY <1>3, <1>4, <1>5, <2>1, <2>3
<1>9. CASE IndexMade
  <2>1. /\ symdef' = m + 1 /\ tail' = m + 1 /\ src'[m + 1] = 0 /\ Len(next') = m + 1
        /\ next'[m + 1] = tail
        /\ \A e \in 1..m : next'[e] = next[e] /\ src'[e] = src[e] /\ name'[e] = name[e]
    BY <1>2, <1>9 DEF IndexMade
  <2>2. Made' /\ Count' = m /\ next'[symdef'] = next'[1]
    BY <1>6, <2>1 DEF Made, Count
  <2>3. IsList(L, next', m)
    <3>1. OnList(L, m) /\ EachOnce(L, m) /\ InOrder(L, next, m)
      BY <1>5 DEF IsList
    <3>2. InOrder(L, next', m)
      <4>1. \A i \in 1..m : next'[L[i]] = next[L[i]]
        BY <1>5, <2>1
      <4>2. \A i \in 1..(m - 1) : i \in 1..m
        OBVIOUS
      <4> QED BY <1>6, <3>1, <4>1, <4>2 DEF InOrder
    <3> QED BY <3>1, <3>2 DEF IsList
  <2>4. AtPlace(L, 1)'
    BY <2>1, <2>2 DEF AtPlace
  <2>5. Copying(L)'
    BY <1>4, <1>6, <1>7, <2>2, <2>4 DEF Copying, Written
  <2> QED BY <1>3, <1>4, <2>1, <2>2, <2>3, <2>5
<1> QED BY <1>4, <1>8, <1>9

(* The start of write_archive keeps the list. *)
LEMMA MakeIndexList ==
  ASSUME Basic, ListInv, MakeIndex
  PROVE  ListInv'
<1> SUFFICES ASSUME Live', cmd'.op # "m" PROVE (\E L : ListWith(L))'
  BY DEF ListInv
<1>1. pc = "index" /\ UNCHANGED <<cmd, arch>> /\ cmd.op # "m"
  BY DEF MakeIndex, envVars
<1>2. PICK L : ListWith(L)
  BY <1>1 DEF ListInv, Live
<1>3. IsList(L, next, Count) /\ Sorted(L, src, Count) /\ tail = next[1]
  BY <1>1, <1>2 DEF ListWith, Basic, Progress, WriteFrom, Mapstart
<1>4. /\ Copying(L)' /\ Count' = Count /\ IsList(L, next', Count) /\ pc' = "write"
      /\ \A e \in 1..Count : src'[e] = src[e]
  BY <1>3, MakeIndexCopies
<1>5. Sorted(L, src', Count)
  <2>1. \A i \in 1..Count : src'[L[i]] = src[L[i]]
    BY <1>3, <1>4 DEF IsList, OnList
  <2> QED BY <1>3, <2>1 DEF Sorted
<1>6. ListWith(L)'
  BY <1>1, <1>2, <1>4, <1>5, ListStays
<1> QED BY <1>6

(* What is written stays as it is when files vanish. *)
LEMMA TraceStays ==
  ASSUME NEW L, NEW t, Trace(L, t), UNCHANGED <<out, src, name>>, present' \subseteq present
  PROVE  Trace(L, t)'
<1>1. PICK w : TraceBy(L, t, w)
  BY DEF Trace
<1>2. \A e : Kept(e)' => Kept(e)
  BY DEF Kept, Exists
<1>3. \A i : Wrote(L, w, i)' <=> Wrote(L, w, i)
  BY DEF Wrote
<1>4. \A p : Found(L, w, p)' <=> Found(L, w, p)
  BY DEF Found
<1>5. TraceBy(L, t, w)'
  BY <1>1, <1>2, <1>3, <1>4 DEF TraceBy
<1> QED BY <1>5 DEF Trace

(* The other steps after the edit. *)
LEMMA StillCopies ==
  ASSUME Install \/ Vanish \/ UNCHANGED vars, NEW L, Copying(L)
  PROVE  /\ Copying(L)' /\ Count' = Count /\ (Made' <=> Made) /\ present' \subseteq present
         /\ UNCHANGED <<next, src, name, symdef, arch, cmd, tail, after, map, argn>>
         /\ pc' = pc \/ (pc = "install" /\ pc' = "done")
<1>1. /\ UNCHANGED <<next, src, name, symdef, arch, cmd, out, tail, after, map, argn, changed>>
      /\ present' \subseteq present
      /\ pc' = pc \/ (pc = "install" /\ pc' = "done")
  BY DEF Install, Vanish, vars, idxVars, envVars, eltVars
<1>2. /\ Count' = Count /\ (Made' <=> Made)
      /\ \A t : AtPlace(L, t)' <=> AtPlace(L, t)
  BY <1>1 DEF AtPlace, Count, Made
<1>3. \A t : Trace(L, t) => Trace(L, t)'
  BY <1>1, TraceStays
<1>4. pc' = "install" \/ Written' => pc = "install" \/ Written
  BY <1>1 DEF Written
<1>5. pc' = "write" => pc = "write"
  BY <1>1
<1>6. Copying(L)'
  BY <1>2, <1>3, <1>4, <1>5 DEF Copying
<1> QED BY <1>1, <1>2, <1>6

(* They keep the list. *)
LEMMA StillList ==
  ASSUME ListInv, Install \/ Vanish \/ UNCHANGED vars
  PROVE  ListInv'
<1>1. pc' = pc \/ (pc = "install" /\ pc' = "done")
  BY DEF Install, Vanish, vars
<1>2. cmd' = cmd
  BY DEF Install, Vanish, vars, envVars
<1> SUFFICES ASSUME Live', cmd'.op # "m" PROVE (\E L : ListWith(L))'
  BY DEF ListInv
<1>3. PICK L : ListWith(L)
  BY <1>1, <1>2 DEF ListInv, Live
<1>4. Copying(L)
  BY <1>3 DEF ListWith
<1>5. /\ Copying(L)' /\ UNCHANGED <<next, src, symdef, arch, cmd, after>>
      /\ pc' = "edit" => pc = "edit"
  BY <1>1, <1>4, StillCopies
<1>6. ListWith(L)'
  BY <1>3, <1>5, SameList
<1> QED BY <1>6

(* copy_out_member's effect on what is written. *)
HeadIs(L, t) ==
  /\ t = 1 => src[tail] = 0 /\ name[tail] = Symdef /\ src[L[1]] = 0
  /\ t > 1 => tail = L[t]
OutIsSeq == Len(out) \in Nat /\ out = [i \in 1..Len(out) |-> out[i]]
CopyStep ==
  /\ UNCHANGED <<src, name, present>>
  /\ out' = IF Copied(tail) THEN Append(out, OutMember(tail)) ELSE out
(* One round of the copy loop keeps the trace of what was written. *)
LEMMA CopyTrace ==
  ASSUME OutIsSeq, CopyStep, NEW L, NEW t \in Nat, t > 0, Trace(L, t), HeadIs(L, t)
  PROVE  Trace(L, t + 1)'
<1>0. src' = src /\ name' = name
  BY DEF CopyStep
<1>1. PICK w : TraceBy(L, t, w)
  BY DEF Trace
<1>2. PICK n \in Nat : n = Len(out)
  BY DEF OutIsSeq
<1>3. w \in [1..n -> 1..(t - 1)] /\ Rising(w, n)
  BY <1>1, <1>2 DEF TraceBy
<1>4. \A e : Kept(e)' <=> Kept(e)
  BY DEF CopyStep, Kept, Exists
<1>5. (t + 1) - 1 = t /\ \A p \in 2..t : p \in 2..(t - 1) \/ (p = t /\ t > 1)
  OBVIOUS
<1>6. CASE ~Copied(tail)
  <2>1. out' = out
    BY <1>6 DEF CopyStep
  <2>2. w \in [1..n -> 1..t]
    <3>1. ASSUME NEW i \in 1..n PROVE w[i] \in 1..t
      <4>1. w[i] \in 1..(t - 1)
        BY <1>3
      <4> QED BY <4>1
    <3> QED BY <1>3, <3>1
  <2>3. \A i \in 1..n : Wrote(L, w, i)'
    <3>1. ASSUME NEW i \in 1..n PROVE Wrote(L, w, i)'
      <4>1. Wrote(L, w, i)
        BY <1>1, <1>2, Zenon DEF TraceBy
      <4> QED BY <1>0, <2>1, <4>1, Zenon DEF Wrote
    <3> QED BY <3>1
  <2>4. ASSUME NEW p \in 2..t, Kept(L[p]) PROVE Found(L, w, p)'
    <3>1. CASE p \in 2..(t - 1)
      <4>1. Found(L, w, p)
        BY <1>1, <2>4, <3>1 DEF TraceBy
      <4> QED BY <1>0, <2>1, <4>1, Zenon DEF Found
    <3>2. CASE p = t /\ t > 1
      <4>1. Kept(tail)
        BY <2>4, <3>2 DEF HeadIs
      <4> QED BY <1>6, <4>1 DEF Kept, Copied
    <3> QED BY <1>5, <3>1, <3>2
  <2>5. TraceBy(L, t + 1, w)'
    BY <1>2, <1>3, <1>4, <1>5, <2>1, <2>2, <2>3, <2>4 DEF TraceBy
  <2> QED BY <2>5 DEF Trace
<1>7. CASE Copied(tail)
  <2>1. PICK x : x = OutMember(tail)
    OBVIOUS
  <2>2. x.src = src[tail] /\ x.from = (IF src[tail] = 0 THEN name[tail] ELSE NoName)
    BY <2>1 DEF OutMember
  <2>3. out' = Append(out, x)
    BY <1>7, <2>1 DEF CopyStep
  <2>4. Len(out') = n + 1 /\ out'[n + 1] = x /\ \A i \in 1..n : out'[i] = out[i]
    BY <1>2, <2>3, AppendAny DEF OutIsSeq
  <2>5. PICK v : v = [i \in 1..(n + 1) |-> IF i = n + 1 THEN t ELSE w[i]]
    OBVIOUS
  <2>6. v[n + 1] = t /\ \A i \in 1..n : v[i] = w[i] /\ w[i] \in 1..(t - 1)
    BY <1>3, <2>5
  <2>7. v \in [1..(n + 1) -> 1..t]
    BY <1>3, <2>5
  <2>8. \A i \in 1..(n + 1) : i \in 1..n \/ i = n + 1
    OBVIOUS
  <2>9. Rising(v, n + 1)
    <3>1. ASSUME NEW i \in 1..(n + 1), NEW j \in 1..(n + 1), i < j PROVE v[i] < v[j]
      <4>1. i \in 1..n
        BY <3>1
      <4>2. CASE j = n + 1
        BY <2>6, <4>1, <4>2
      <4>3. CASE j \in 1..n
        <5>1. w[i] < w[j]
          BY <1>3, <3>1, <4>1, <4>3 DEF Rising
        <5> QED BY <2>6, <4>1, <4>3, <5>1
      <4> QED BY <2>8, <4>2, <4>3
    <3> QED BY <3>1 DEF Rising
  <2>10. ASSUME NEW i \in 1..(n + 1) PROVE Wrote(L, v, i)'
    <3>1. CASE i \in 1..n
      <4>1. Wrote(L, w, i)
        BY <1>1, <1>2, <3>1 DEF TraceBy
      <4>2. out'[i] = out[i] /\ v[i] = w[i]
        BY <2>4, <2>6, <3>1
      <4> QED BY <1>0, <4>1, <4>2, Zenon DEF Wrote
    <3>2. CASE i = n + 1
      <4>1. out'[i].src = src[tail] /\ out'[i].from = (IF src[tail] = 0 THEN name[tail] ELSE NoName)
        BY <2>2, <2>4, <3>2
      <4>2. v[i] = t /\ name[tail] # NoName
        BY <1>7, <2>6, <3>2 DEF Copied
      <4>3. CASE t = 1
        BY <4>1, <4>2, <4>3, <1>0 DEF Wrote, HeadIs
      <4>4. CASE t > 1
        BY <4>1, <4>2, <4>4, <1>0 DEF Wrote, HeadIs
      <4> QED BY <4>3, <4>4
    <3> QED BY <2>8, <3>1, <3>2
  <2>11. ASSUME NEW p \in 2..t, Kept(L[p]) PROVE Found(L, v, p)'
    <3>1. CASE p \in 2..(t - 1)
      <4>1. Found(L, w, p)
        BY <1>1, <2>11, <3>1 DEF TraceBy
      <4>2. PICK i \in 1..n : w[i] = p /\ (src[L[p]] = 0 => out[i].from = name[L[p]])
        BY <1>2, <4>1 DEF Found
      <4>3. i \in 1..(n + 1) /\ v[i] = p /\ out'[i] = out[i]
        BY <2>4, <2>6, <4>2
      <4> QED BY <1>0, <2>4, <4>2, <4>3 DEF Found
    <3>2. CASE p = t /\ t > 1
      <4>1. n + 1 \in 1..(n + 1) /\ v[n + 1] = p /\ tail = L[p]
        BY <2>6, <3>2 DEF HeadIs
      <4>2. src[L[p]] = 0 => out'[n + 1].from = name[L[p]]
        BY <2>2, <2>4, <4>1
      <4> QED BY <1>0, <2>4, <4>1, <4>2 DEF Found
    <3> QED BY <1>5, <3>1, <3>2
  <2>12. TraceBy(L, t + 1, v)'
    BY <1>4, <1>5, <2>4, <2>7, <2>9, <2>10, <2>11 DEF TraceBy
  <2> QED BY <2>12 DEF Trace
<1> QED BY <1>6, <1>7

(* copy_out_member follows the list. *)
LEMMA CopyOutCopies ==
  ASSUME Basic, CopyOut, Live', NEW L, IsList(L, next, Count), Copying(L),
         Made => next[symdef] = next[1]
  PROVE  Copying(L)'
<1>1. /\ pc = "write" /\ Live /\ pc' \in {"write", "install"}
      /\ UNCHANGED <<next, src, name, symdef, arch, cmd, present, after>>
  BY DEF CopyOut, Live, envVars, idxVars, eltVars
<1>3. PICK c \in Nat : c = Count /\ IsList(L, next, c) /\ c > 0
  BY DEF IsList, OnList
<1>4. \A i \in 1..c : L[i] # 0 /\ L[i] \in 1..c
  BY <1>3 DEF IsList, OnList
<1>5. PICK t \in 1..(c + 1) : AtPlace(L, t) /\ Trace(L, t)
  BY <1>1, <1>3 DEF Copying
<1>6. Count' = c
  BY <1>1, <1>3 DEF Count, Made
<1>7. t = 1 => Made /\ tail = symdef /\ symdef # 0
  BY <1>5 DEF AtPlace, Made
<1>8. t \in 2..c => tail = L[t] /\ tail # 0
  BY <1>3, <1>4, <1>5 DEF AtPlace
<1>9. t = c + 1 => tail = 0
  BY <1>3, <1>5 DEF AtPlace
<1>10. CASE pc' = "install"
  <2>1. tail = 0 /\ out' = out
    BY <1>1, <1>10 DEF CopyOut
  <2>2. t = c + 1
    BY <1>5, <1>7, <1>8, <2>1
  <2>3. Trace(L, c + 1)'
    BY <1>1, <1>5, <2>1, <2>2, TraceStays
  <2> QED BY <1>6, <1>10, <2>3 DEF Copying
<1>11. CASE pc' = "write"
  <2>1. /\ tail # 0 /\ tail' = next[tail]
        /\ out' = IF Copied(tail) THEN Append(out, OutMember(tail)) ELSE out
    BY <1>1, <1>11 DEF CopyOut
  <2>2. t \in 1..c /\ t + 1 \in 1..(c + 1)
    BY <1>3, <1>5, <1>9, <2>1
  <2>3. /\ Made => src[symdef] = 0 /\ name[symdef] = Symdef /\ next[symdef] = next[1]
        /\ src[1] = 0 /\ L[1] = 1
    <3>1. MadeRight /\ Sourced /\ 1 \in 1..Len(next) /\ Old \in Nat /\ Old >= 1
      BY <1>1, ArchFacts DEF Basic, Elems, Shape, Pointers, Old
    <3>2. Made => src[symdef] = 0 /\ name[symdef] = Symdef /\ next[symdef] = next[1]
      BY <3>1 DEF MadeRight, Made
    <3>3. src[1] = 0
      BY <3>1 DEF Sourced
    <3> QED BY <1>3, <3>2, <3>3 DEF IsList, OnList, Mapstart
  <2>4. HeadIs(L, t)
    BY <1>7, <1>8, <2>2, <2>3 DEF HeadIs
  <2>5. Trace(L, t + 1)'
    <3>1. Len(out) \in Nat /\ out = [i \in 1..Len(out) |-> out[i]]
      BY DEF Basic, Shape
    <3> QED BY <1>1, <1>5, <2>1, <2>2, <2>4, <3>1, CopyTrace DEF OutIsSeq, CopyStep
  <2>6. tail' = IF t + 1 = c + 1 THEN 0 ELSE L[t + 1]
    <3>1. CASE t = 1
      <4>1. next[1] = IF 2 = c + 1 THEN 0 ELSE L[2]
        BY <1>3, SecondElement
      <4> QED BY <1>7, <2>1, <2>3, <3>1, <4>1
    <3>2. CASE t \in 2..(c - 1)
      <4>1. next[L[t]] = L[t + 1]
        BY <1>3, <3>2 DEF IsList, InOrder
      <4> QED BY <1>8, <2>1, <3>2, <4>1
    <3>3. CASE t = c /\ t > 1
      <4>1. next[L[c]] = 0
        BY <1>3 DEF IsList, InOrder
      <4> QED BY <1>8, <2>1, <3>3, <4>1
    <3> QED BY <2>2, <3>1, <3>2, <3>3
  <2>7. AtPlace(L, t + 1)'
    BY <1>6, <2>2, <2>6 DEF AtPlace
  <2> QED BY <1>6, <1>11, <2>2, <2>5, <2>7 DEF Copying, Written
<1> QED BY <1>1, <1>10, <1>11

(* The copy loop leaves the list alone. *)
LEMMA CopyOutList ==
  ASSUME Basic, ListInv, CopyOut
  PROVE  ListInv'
<1> SUFFICES ASSUME Live', cmd'.op # "m" PROVE (\E L : ListWith(L))'
  BY DEF ListInv
<1>1. /\ pc = "write" /\ Live /\ cmd.op # "m" /\ pc' # "edit"
      /\ UNCHANGED <<next, src, symdef, arch, cmd>>
  BY DEF CopyOut, Live, envVars, idxVars, eltVars
<1>2. PICK L : ListWith(L)
  BY <1>1 DEF ListInv
<1>3. Copying(L)'
  <2>1. IsList(L, next, Count) /\ Copying(L)
    BY <1>2 DEF ListWith
  <2>2. Made => next[symdef] = next[1]
    BY <1>1 DEF Basic, Elems, MadeRight
  <2> QED BY <2>1, <2>2, CopyOutCopies
<1>4. ListWith(L)'
  BY <1>1, <1>2, <1>3, SameList
<1> QED BY <1>4

(* Every step of d, r and q keeps the list. *)
LEMMA NextList ==
  ASSUME Basic, ListInv, [Next]_vars
  PROVE  ListInv'
<1>1. CASE MoveArg
  BY <1>1 DEF ListInv, MoveArg, envVars
<1> QED BY <1>1, StartList, PositionList, EditList, InsertList, EndEditList, MakeIndexList,
           CopyOutList, StillList
           DEF Next, Step, Finished

(* The elements on the list from mapstart are all but the index made. *)
LEMMA ListHoldsAll ==
  ASSUME Basic, NEW L, IsList(L, next, Count), Live
  PROVE  {Nth(Mapstart)[k] : k \in DOMAIN Nth(Mapstart)}
           = (Elts \ {e \in {symdef} : e # 0 /\ src[e] = 0}) \union {0}
<1>1. PICK m \in Nat : m = Len(next) /\ m > 0
  BY DEF Basic, Shape, Pointers
<1>2. Pointers /\ Elts = 1..m /\ MadeRight
  BY <1>1 DEF Basic, Shape, Pointers, Elts, Elems
<1>3. PICK c \in 1..m : c = Count /\ IsList(L, next, c)
  BY <1>1 DEF IsList, OnList, Count
<1>4. PICK nth : nth = Nth(Mapstart)
  OBVIOUS
<1>5. L[1] = Mapstart /\ 1 \in 1..c
  BY <1>3 DEF IsList, OnList
<1>6. DOMAIN nth = 0..m /\ \A k \in 0..m : nth[k] = IF 1 + k <= c THEN L[1 + k] ELSE 0
  BY <1>1, <1>2, <1>3, <1>4, <1>5, NthList, NthFollows DEF Pointers
<1>7. Elts \ {e \in {symdef} : e # 0 /\ src[e] = 0} = 1..c
  <2>1. CASE Made
    <3>1. symdef = m /\ c = m - 1 /\ m > 1
      BY <1>1, <1>2, <1>3, <2>1 DEF MadeRight, Count
    <3>2. {e \in {symdef} : e # 0 /\ src[e] = 0} = {m}
      BY <2>1, <3>1 DEF Made
    <3> QED BY <1>2, <3>1, <3>2
  <2>2. CASE ~Made
    <3>1. c = m
      BY <1>1, <1>3, <2>2 DEF Count
    <3>2. {e \in {symdef} : e # 0 /\ src[e] = 0} = {}
      BY <2>2 DEF Made
    <3> QED BY <1>2, <3>1, <3>2
  <2> QED BY <2>1, <2>2
<1>8. ASSUME NEW k \in 0..m PROVE nth[k] \in (1..c) \union {0}
  <2>1. CASE 1 + k <= c
    <3>1. 1 + k \in 1..c
      BY <2>1
    <3>2. L[1 + k] \in 1..c
      BY <1>3, <3>1 DEF IsList, OnList
    <3> QED BY <1>6, <2>1, <3>2
  <2> QED BY <1>6, <2>1
<1>9. ASSUME NEW e \in (1..c) \union {0} PROVE \E k \in 0..m : nth[k] = e
  <2>1. CASE e = 0
    <3>1. c \in 0..m /\ nth[c] = 0
      BY <1>6
    <3> QED BY <2>1, <3>1
  <2>2. CASE e \in 1..c
    <3>1. PICK i \in 1..c : L[i] = e
      BY <1>3, <2>2 DEF IsList, EachOnce
    <3>2. i - 1 \in 0..m /\ 1 + (i - 1) = i
      BY <3>1
    <3>3. nth[i - 1] = e
      BY <1>6, <3>1, <3>2
    <3> QED BY <3>2, <3>3
  <2> QED BY <2>1, <2>2
<1>10. {nth[k] : k \in DOMAIN nth} = (1..c) \union {0}
  BY <1>6, <1>8, <1>9
<1> QED BY <1>4, <1>7, <1>10

(* The invariant gives the type invariant. *)
LEMMA InvType ==
  ASSUME Basic, ListInv
  PROVE  TypeOK
<1>1. PICK m \in Nat : m = Len(next) /\ m > 0
  BY DEF Basic, Shape, Pointers
<1>2. Len(name) = m /\ Len(date) = m /\ Len(src) = m /\ Len(body) = m
  <2>1. /\ name = [e \in 1..m |-> name[e]] /\ date = [e \in 1..m |-> date[e]]
        /\ src = [e \in 1..m |-> src[e]] /\ body = [e \in 1..m |-> body[e]]
    BY <1>1 DEF Basic, Shape
  <2> QED BY <2>1, AppendAny
<1>3. {Len(name), Len(date), Len(src), Len(body)} = {Len(next)}
  BY <1>1, <1>2
<1>4. {map, after, tail} \subseteq 0..Len(next)
  BY DEF Basic, Shape
<1>5. pc \in Pcs /\ next \in Seq(0..Len(next))
  BY DEF Basic, Shape, Pointers
<1>6. ASSUME cmd.op # "m", Live
      PROVE  {Nth(Mapstart)[k] : k \in DOMAIN Nth(Mapstart)}
               = (Elts \ {e \in {symdef} : e # 0 /\ src[e] = 0}) \union {0}
  <2>1. PICK L : ListWith(L)
    BY <1>6 DEF ListInv
  <2> QED BY <1>6, <2>1, ListHoldsAll DEF ListWith
<1> QED BY <1>3, <1>4, <1>5, <1>6 DEF TypeOK, Pcs, Live

(* There is no list before the map is made. *)
LEMMA InitList == Init => ListInv
BY DEF Init, ListInv, Live

-----------------------------------------------------------------------------
(***************************************************************************)
(* The names: what d and r cancel.                                         *)
(***************************************************************************)
(* The member a file's name stands for is cancelled. *)
FirstGone(n) == FirstMatch(n) = 0 \/ name[FirstMatch(n) + 1] = NoName
(* Argument a asks for member k to go. *)
Ask(k, a) ==
  /\ Matches(arch[k].name, cmd.files[a])
  /\ cmd.newer /\ Exists(cmd.files[a]) => FileDate(cmd.files[a]) > arch[k].date
Asked(k) == \E a \in 1..(argn - 1) : a \in Args /\ Ask(k, a)

OldDates == \A e \in 2..Old : date[e] = arch[e - 1].date
(* Only members that arguments ask for are cancelled. *)
OldNames ==
  \A e \in 2..Old : name[e] = arch[e - 1].name \/ (name[e] = NoName /\ Asked(e - 1))
(* The member that a file inserted replaces is cancelled ... *)
NewGone == \A e \in (Old + 1)..Count : \A n : n = name[e] /\ n # NoName => FirstGone(n)
(* ... and so is the member that an argument handled stands for. *)
Handled(a) == a \in 1..(argn - 1) /\ a \in Args
Takes(a) == cmd.op = "d" \/ (~cmd.newer /\ Exists(cmd.files[a]))
ArgsGone == \A a : Handled(a) /\ Takes(a) => FirstGone(cmd.files[a])
(* A file handled is on the list, unless a later argument matches it. *)
Final(a) == \A b \in Args : b \in (a + 1)..(argn - 1) => ~Matches(cmd.files[a], cmd.files[b])
FilesIn ==
  cmd.op = "r" /\ ~cmd.newer =>
    \A a : Handled(a) /\ Exists(cmd.files[a]) /\ Final(a)
           => \E e \in (Old + 1)..Count : name[e] = cmd.files[a]
NamesInv ==
  Live /\ cmd.op \in {"d", "r"} => OldDates /\ OldNames /\ NewGone /\ ArgsGone /\ FilesIn

(* A name an archive holds matches every name with its first characters. *)
LEMMA MatchStored ==
  ASSUME Fixed, NEW k \in 1..Len(arch), NEW n
  PROVE  Matches(arch[k].name, n) <=> arch[k].name.pre = n.pre
<1>1. PICK t : t = arch[k].name
  OBVIOUS
<1>2. t # NoName /\ t = Stored(t)
  BY <1>1, ArchFacts
<1>3. t.dir = "" /\ t.rest \in {"", ".o"}
  <2>1. t = [dir |-> "", pre |-> t.pre, rest |-> IF t.rest = "" THEN "" ELSE ".o"]
    BY <1>2 DEF Stored
  <2>2. PICK x : x = [dir |-> "", pre |-> t.pre, rest |-> IF t.rest = "" THEN "" ELSE ".o"]
    OBVIOUS
  <2>3. x.dir = "" /\ x.rest \in {"", ".o"}
    BY <2>2
  <2> QED BY <2>1, <2>2, <2>3
<1>4. Matches(t, n) <=> t.pre = n.pre
  BY <1>2, <1>3 DEF Matches
<1> QED BY <1>1, <1>4

(* Whether a member matches depends on the first 13 characters alone. *)
LEMMA SameFirst ==
  ASSUME Fixed, NEW n, NEW g, n.pre = g.pre
  PROVE  FirstMatch(n) = FirstMatch(g)
<1>1. DOMAIN arch = 1..Len(arch)
  BY ArchFacts
<1>2. \A k \in DOMAIN arch : Matches(arch[k].name, n) <=> Matches(arch[k].name, g)
  BY <1>1, MatchStored
<1>3. {k \in DOMAIN arch : Matches(arch[k].name, n)} = {k \in DOMAIN arch : Matches(arch[k].name, g)}
  BY <1>2
<1>4. PICK hits : hits = {k \in DOMAIN arch : Matches(arch[k].name, n)}
  OBVIOUS
<1>5. FirstMatch(n) = IF hits = {} THEN 0 ELSE CHOOSE k \in hits : \A j \in hits : k <= j
  BY <1>4 DEF FirstMatch
<1>6. FirstMatch(g) = IF hits = {} THEN 0 ELSE CHOOSE k \in hits : \A j \in hits : k <= j
  <2>1. hits = {k \in DOMAIN arch : Matches(arch[k].name, g)}
    BY <1>3, <1>4
  <2> QED BY <2>1 DEF FirstMatch
<1> QED BY <1>5, <1>6

(* A file that is still there is the one that was. *)
LEMMA FileStays ==
  ASSUME Fixed, present' \subseteq present, NEW n, Exists(n)'
  PROVE  Exists(n) /\ FileDate(n)' = FileDate(n)
<1>1. PICK p \in Present : present \subseteq p
  BY DEF Fixed
<1>2. PICK f \in present' : f.name = n
  BY DEF Exists
<1>3. f \in present
  BY <1>2
<1>4. \A g \in present : g.name = n => g = f
  BY <1>1, <1>2, <1>3, PresentAssumption
<1>5. File(n) = f
  BY <1>2, <1>3, <1>4 DEF File
<1>6. \A g \in present' : g.name = n => g = f
  BY <1>4
<1>7. File(n)' = f
  BY <1>2, <1>6 DEF File
<1> QED BY <1>2, <1>3, <1>5, <1>7 DEF Exists, FileDate

(* The dates compared are numbers. *)
LEMMA DateType ==
  ASSUME Fixed, NEW n, Exists(n)
  PROVE  FileDate(n) \in Nat
<1>1. PICK p \in Present : present \subseteq p
  BY DEF Fixed
<1>2. PICK f \in present : f = File(n)
  BY DEF Exists, File
<1>3. f.date \in Nat
  BY <1>1, <1>2, PresentAssumption
<1> QED BY <1>2, <1>3 DEF FileDate

(* What find_mapelt finds from mapstart while d or r edits: unless the      *)
(* member a name stands for is cancelled already, that member.              *)
LEMMA FoundFirst ==
  ASSUME Basic, ListInv, NamesInv, pc = "edit", cmd.op \in {"d", "r"}, NEW n
  PROVE  /\ find_mapelt(Mapstart, n) # 0 => /\ find_mapelt(Mapstart, n) \in 2..Len(next)
                                            /\ Matches(name[find_mapelt(Mapstart, n)], n)
         /\ FirstGone(n) \/ find_mapelt(Mapstart, n) = FirstMatch(n) + 1
<1>1. PICK old : old = find_mapelt(Mapstart, n)
  OBVIOUS
<1>2. /\ Fixed /\ Pointers /\ Live /\ name[1] = NoName /\ symdef = 0
      /\ OldNames /\ NewGone /\ Sourced
  BY DEF Basic, Shape, Progress, Elems, Live, NamesInv
<1>3. PICK m \in Nat : m = Len(next) /\ m > 0 /\ Count = m
  BY <1>2 DEF Basic, Shape, Pointers, Count, Made
<1>4. PICK o \in Nat : o = Old /\ o <= m /\ o = Len(arch) + 1 /\ Len(arch) \in Nat
  BY <1>2, <1>3, ArchFacts DEF Sourced, Old
<1>5. \A e \in 1..m : src[e] = IF e <= o THEN e - 1 ELSE 0
  BY <1>2, <1>3, <1>4 DEF Sourced
<1>6. PICK L : IsList(L, next, m) /\ Sorted(L, src, m)
  BY <1>2, <1>3 DEF ListInv, ListWith
<1>7. L[1] = Mapstart /\ 1 \in 1..m /\ \A i \in 1..m : L[i] \in 1..m
  BY <1>6 DEF IsList, OnList
<1>8. \/ old = 0 /\ \A i \in 1..m : ~Matches(name[L[i]], n)
      \/ \E i \in 1..m : /\ old = L[i] /\ Matches(name[L[i]], n)
                         /\ \A j \in 1..(i - 1) : ~Matches(name[L[j]], n)
  <2>1. m \in 1..Len(next)
    BY <1>3
  <2> QED BY <1>1, <1>2, <1>6, <1>7, <2>1, FindInList
<1>9. old # 0 => old \in 2..m /\ Matches(name[old], n)
  <2> SUFFICES ASSUME old # 0 PROVE old \in 2..m /\ Matches(name[old], n)
    OBVIOUS
  <2>1. old \in 1..m /\ Matches(name[old], n)
    BY <1>7, <1>8
  <2>2. old # 1
    BY <1>2, <2>1 DEF Matches
  <2> QED BY <2>1, <2>2
<1>10. ASSUME ~FirstGone(n) PROVE old = FirstMatch(n) + 1
  <2>1. PICK k : k = FirstMatch(n)
    OBVIOUS
  <2>2. /\ k \in 1..Len(arch) /\ Matches(arch[k].name, n) /\ name[k + 1] # NoName
        /\ \A j \in 1..Len(arch) : Matches(arch[j].name, n) => k <= j
    BY <1>2, <1>10, <2>1, FirstMatchIs DEF FirstGone
  <2>3. k + 1 \in 2..o /\ k + 1 \in 1..m /\ (k + 1) - 1 = k
    BY <1>4, <2>2
  <2>4. name[k + 1] = arch[k].name
    BY <1>2, <1>4, <2>2, <2>3 DEF OldNames
  <2>5. PICK j \in 1..m : L[j] = k + 1
    BY <1>6, <2>3 DEF IsList, EachOnce
  <2>6. PICK i \in 1..m : /\ old = L[i] /\ Matches(name[L[i]], n)
                          /\ \A b \in 1..(i - 1) : ~Matches(name[L[b]], n)
    BY <1>8, <2>2, <2>4, <2>5
  <2>7. old \in 2..m /\ Matches(name[old], n)
    BY <1>7, <1>9, <2>6
  <2>8. CASE old > o
    <3>0. name[old] # NoName /\ name[old].pre = n.pre
      BY <2>7 DEF Matches
    <3>1. old \in (o + 1)..m /\ name[old] # NoName /\ name[old].pre = n.pre
      BY <2>7, <2>8, <3>0
    <3>2. FirstGone(name[old])
      BY <1>2, <1>3, <1>4, <3>1 DEF NewGone
    <3>3. FirstMatch(name[old]) = FirstMatch(n)
      BY <1>2, <3>1, SameFirst
    <3> QED BY <1>10, <3>2, <3>3 DEF FirstGone
  <2>9. CASE old <= o
    <3>0. name[old] # NoName
      BY <2>7 DEF Matches
    <3>1. old \in 2..o /\ old - 1 \in 1..Len(arch) /\ name[old] # NoName
      BY <1>4, <2>7, <2>9, <3>0
    <3>2. name[old] = arch[old - 1].name
      BY <1>2, <1>4, <3>1 DEF OldNames
    <3>3. k <= old - 1
      BY <2>2, <2>7, <3>1, <3>2
    <3>4. src[L[i]] = old - 1 /\ src[L[j]] = k /\ old - 1 > 0 /\ k > 0
      <4>1. src[old] = old - 1 /\ src[k + 1] = (k + 1) - 1
        BY <1>5, <2>3, <2>7, <2>9
      <4> QED BY <2>2, <2>3, <2>5, <2>6, <3>1, <4>1
    <3>5. ~(j < i)
      <4>1. Matches(name[L[j]], n)
        BY <2>2, <2>4, <2>5
      <4>2. j < i => j \in 1..(i - 1)
        OBVIOUS
      <4> QED BY <2>6, <4>1, <4>2
    <3>6. i < j => src[L[i]] < src[L[j]]
      BY <1>6, <3>4 DEF Sorted
    <3>7. i = j => old = k + 1
      BY <2>5, <2>6
    <3> QED BY <2>1, <2>2, <3>1, <3>3, <3>4, <3>5, <3>6, <3>7
  <2> QED BY <1>4, <2>7, <2>8, <2>9
<1> QED BY <1>1, <1>3, <1>9, <1>10

(* Cancelling more names leaves what is gone gone. *)
LEMMA GoneStays ==
  ASSUME Fixed, arch' = arch, NEW n, FirstGone(n),
         \A e \in 2..Old : name'[e] = name[e] \/ name'[e] = NoName
  PROVE  FirstGone(n)'
<1>1. PICK k : k = FirstMatch(n)
  OBVIOUS
<1>2. FirstMatch(n)' = k
  BY <1>1 DEF FirstMatch
<1>3. CASE k = 0
  BY <1>2, <1>3 DEF FirstGone
<1>4. CASE k # 0
  <2>1. k \in 1..Len(arch) /\ Len(arch) \in Nat
    BY <1>1, <1>4, FirstMatchIs, ArchFacts
  <2>2. k + 1 \in 2..Old
    BY <2>1 DEF Old
  <2>3. name[k + 1] = NoName
    BY <1>1, <1>4 DEF FirstGone
  <2> QED BY <1>2, <2>2, <2>3 DEF FirstGone
<1> QED BY <1>3, <1>4

(* What was asked for stays asked for. *)
LEMMA AskStays ==
  ASSUME Fixed, UNCHANGED <<cmd, arch>>, present' \subseteq present,
         NEW k, NEW a, Ask(k, a)
  PROVE  Ask(k, a)'
<1>1. PICK f : f = cmd.files[a]
  OBVIOUS
<1>2. Exists(f)' => Exists(f) /\ FileDate(f)' = FileDate(f)
  BY FileStays
<1>3. Matches(arch[k].name, f) /\ (cmd.newer /\ Exists(f) => FileDate(f) > arch[k].date)
  BY <1>1 DEF Ask
<1>4. cmd.newer /\ Exists(f)' => FileDate(f)' > arch[k].date
  BY <1>2, <1>3
<1> QED BY <1>1, <1>3, <1>4 DEF Ask

(* A member asked for stays asked for. *)
LEMMA AskedStays ==
  ASSUME Basic, UNCHANGED <<cmd, arch>>, present' \subseteq present, argn' \in {argn, argn + 1},
         NEW k, Asked(k)
  PROVE  Asked(k)'
<1>1. PICK a \in 1..(argn - 1) : a \in Args /\ Ask(k, a)
  BY DEF Asked
<1>2. argn \in Nat /\ Fixed
  BY DEF Basic, Shape
<1>3. a \in 1..(argn' - 1) /\ Args' = Args
  <2>1. CASE argn' = argn
    BY <2>1 DEF Args
  <2>2. CASE argn' = argn + 1
    BY <1>2, <2>2 DEF Args
  <2> QED BY <2>1, <2>2
<1>4. Ask(k, a)'
  BY <1>1, <1>2, AskStays
<1> QED BY <1>1, <1>3, <1>4 DEF Asked

(* Steps that leave the names alone. *)
LEMMA NamesStay ==
  ASSUME Basic, NamesInv, Live, UNCHANGED <<cmd, arch, argn>>, present' \subseteq present,
         Count' = Count, \A e \in 1..Count : name'[e] = name[e] /\ date'[e] = date[e]
  PROVE  NamesInv'
<1> SUFFICES ASSUME cmd.op \in {"d", "r"}
             PROVE  (OldDates /\ OldNames /\ NewGone /\ ArgsGone /\ FilesIn)'
  BY DEF NamesInv
<1>1. OldDates /\ OldNames /\ NewGone /\ ArgsGone /\ FilesIn /\ Fixed /\ Sourced
  BY DEF NamesInv, Basic, Elems
<1>2. PICK o \in Nat : o = Old /\ o = Old' /\ o >= 1
  BY <1>1, ArchFacts DEF Old
<1>3. PICK c \in Nat : c = Count /\ c = Count' /\ o <= c
  <2>1. Count \in Nat
    BY DEF Count, Basic, Shape, Pointers
  <2> QED BY <1>1, <1>2, <2>1 DEF Sourced
<1>4. \A e \in 2..o : e \in 1..c
  BY <1>2, <1>3
<1>5. \A e \in (o + 1)..c : e \in 1..c
  OBVIOUS
<1>6. \A n : FirstGone(n) => FirstGone(n)'
  BY <1>1, <1>2, <1>3, <1>4, GoneStays
<1>7. OldDates'
  BY <1>1, <1>2, <1>3, <1>4 DEF OldDates
<1>8. OldNames'
  <2>1. \A k : Asked(k) => Asked(k)'
    BY AskedStays
  <2> QED BY <1>1, <1>2, <1>3, <1>4, <2>1 DEF OldNames
<1>9. NewGone'
  BY <1>1, <1>2, <1>3, <1>5, <1>6 DEF NewGone
<1>10. \A n : Exists(n)' => Exists(n)
  BY DEF Exists
<1>11. \A a : Handled(a)' <=> Handled(a)
  BY DEF Handled, Args
<1>12. ArgsGone'
  BY <1>1, <1>6, <1>10, <1>11 DEF ArgsGone, Takes
<1>13. FilesIn'
  <2> SUFFICES ASSUME cmd.op = "r", ~cmd.newer, NEW a, Handled(a)', Exists(cmd.files[a])', Final(a)'
               PROVE  \E e \in (o + 1)..c : name'[e] = cmd.files[a]
    BY <1>2, <1>3 DEF FilesIn
  <2>1. Final(a) /\ Handled(a) /\ Exists(cmd.files[a])
    BY <1>10, <1>11 DEF Final, Args
  <2>2. PICK e \in (o + 1)..c : name[e] = cmd.files[a]
    BY <1>1, <1>2, <1>3, <2>1 DEF FilesIn
  <2> QED BY <1>3, <1>5, <2>2
<1> QED BY <1>7, <1>8, <1>9, <1>12, <1>13

(* make_map gives the elements the names in the archive. *)
LEMMA StartNames ==
  ASSUME Basic, Start
  PROVE  NamesInv'
<1> SUFFICES ASSUME Live', cmd'.op \in {"d", "r"}
             PROVE  (OldDates /\ OldNames /\ NewGone /\ ArgsGone /\ FilesIn)'
  BY DEF NamesInv
<1>1. /\ cmd' = cmd /\ arch' = arch /\ make_map /\ argn' = 1 /\ symdef' = 0 /\ Fixed
  BY DEF Start, Exit, Live, Basic, Begun, envVars, idxVars
<1>2. /\ Len(next') = Old /\ Old' = Old /\ Count' = Old /\ Old \in Nat
      /\ \A e \in 2..Old : name'[e] = arch[e - 1].name /\ date'[e] = arch[e - 1].date
  BY <1>1, MapMade DEF Old, Count, Made
<1>3. OldDates' /\ OldNames'
  BY <1>1, <1>2 DEF OldDates, OldNames
<1>4. NewGone'
  BY <1>2 DEF NewGone
<1>5. ASSUME NEW a PROVE ~Handled(a)'
  BY <1>1 DEF Handled
<1> QED BY <1>3, <1>4, <1>5 DEF ArgsGone, FilesIn

(* One more argument is handled, and what it found is cancelled. *)
LEMMA CancelNames ==
  ASSUME Basic, ListInv, NamesInv, pc = "edit", cmd.op \in {"d", "r"},
         UNCHANGED <<cmd, arch, present>>, argn' = argn + 1, argn \in Args,
         NEW n, n = Arg, NEW old, old = find_mapelt(Mapstart, n),
         \A e \in 1..Len(next) : /\ name'[e] = IF e = old THEN NoName ELSE name[e]
                                 /\ date'[e] = date[e],
         old \in 2..Old => Ask(old - 1, argn)
  PROVE  /\ OldDates' /\ OldNames' /\ ArgsGone' /\ FirstGone(n)'
         /\ \A g : FirstGone(g) => FirstGone(g)'
<1>1. /\ Fixed /\ Live /\ OldDates /\ OldNames /\ ArgsGone /\ symdef = 0 /\ Sourced
      /\ argn \in Nat /\ argn > 0
  BY DEF Basic, Shape, Progress, Elems, Live, NamesInv
<1>2. PICK m \in Nat : m = Len(next) /\ Count = m
  BY <1>1 DEF Basic, Shape, Pointers, Count, Made
<1>3. PICK o \in Nat : o = Old /\ Old' = o /\ o <= m /\ o >= 1 /\ o = Len(arch) + 1 /\ Len(arch) \in Nat
  BY <1>1, <1>2, ArchFacts DEF Sourced, Old
<1>4. ASSUME NEW e \in 2..o
      PROVE  name'[e] = (IF e = old THEN NoName ELSE name[e]) /\ date'[e] = date[e]
  <2>1. e \in 1..m
    BY <1>3
  <2> QED BY <1>2, <2>1
<1>5. \A g : FirstGone(g) => FirstGone(g)'
  BY <1>1, <1>3, <1>4, GoneStays
<1>6. OldDates'
  BY <1>1, <1>3, <1>4 DEF OldDates
<1>7. OldNames'
  <2> SUFFICES ASSUME NEW e \in 2..o
               PROVE  name'[e] = arch[e - 1].name \/ (name'[e] = NoName /\ Asked(e - 1)')
    BY <1>3 DEF OldNames
  <2>1. CASE e = old
    <3>0. PICK b : b = argn
      OBVIOUS
    <3>1. Ask(e - 1, b)'
      <4>1. Ask(e - 1, b)
        BY <1>3, <2>1, <3>0
      <4> QED BY <1>1, <4>1, AskStays
    <3>2. b \in 1..(argn' - 1) /\ b \in Args'
      BY <1>1, <3>0 DEF Args
    <3>3. Asked(e - 1)'
      BY <3>1, <3>2 DEF Asked
    <3> QED BY <1>4, <2>1, <3>3
  <2>2. CASE e # old
    <3>1. name'[e] = name[e]
      BY <1>4, <2>2
    <3>2. name[e] = arch[e - 1].name \/ (name[e] = NoName /\ Asked(e - 1))
      BY <1>1, <1>3 DEF OldNames
    <3>3. Asked(e - 1) => Asked(e - 1)'
      BY AskedStays
    <3> QED BY <3>1, <3>2, <3>3
  <2> QED BY <2>1, <2>2
<1>8. FirstGone(n)'
  <2>1. FirstGone(n) \/ old = FirstMatch(n) + 1
    BY FoundFirst
  <2>2. CASE old = FirstMatch(n) + 1 /\ ~FirstGone(n)
    <3>1. PICK k : k = FirstMatch(n)
      OBVIOUS
    <3>2. k \in 1..Len(arch)
      BY <1>1, <2>2, <3>1, FirstMatchIs DEF FirstGone
    <3>3. k + 1 \in 2..o /\ old = k + 1
      BY <1>3, <2>2, <3>1, <3>2
    <3>4. name'[k + 1] = NoName
      BY <1>4, <3>3
    <3>5. FirstMatch(n)' = k
      BY <3>1 DEF FirstMatch
    <3> QED BY <3>4, <3>5 DEF FirstGone
  <2> QED BY <1>5, <2>1, <2>2
<1>9. ArgsGone'
  <2> SUFFICES ASSUME NEW a, Handled(a)', Takes(a)' PROVE FirstGone(cmd.files[a])'
    BY DEF ArgsGone
  <2>1. cmd' = cmd /\ (Takes(a) <=> Takes(a)')
    BY DEF Takes, Exists
  <2>2. CASE a = argn
    <3>1. cmd.files[a] = n
      BY <2>2 DEF Arg
    <3> QED BY <1>8, <2>1, <3>1
  <2>3. CASE a # argn
    <3>1. Handled(a)
      BY <1>1, <2>3 DEF Handled, Args
    <3>2. FirstGone(cmd.files[a])
      BY <1>1, <2>1, <3>1 DEF ArgsGone
    <3> QED BY <1>5, <2>1, <3>2
  <2> QED BY <2>2, <2>3
<1> QED BY <1>5, <1>6, <1>7, <1>8, <1>9

(* The element found has the name of a member that matches. *)
LEMMA FoundMember ==
  ASSUME Basic, ListInv, NamesInv, pc = "edit", cmd.op \in {"d", "r"},
         NEW n, NEW old \in 2..Old, old = find_mapelt(Mapstart, n)
  PROVE  Matches(arch[old - 1].name, n) /\ old - 1 \in 1..Len(arch)
<1>1. OldNames /\ Fixed /\ Len(arch) \in Nat
  BY ArchFacts DEF NamesInv, Live, Basic
<1>2. Matches(name[old], n)
  BY FoundFirst DEF Old
<1>3. name[old] # NoName
  BY <1>2 DEF Matches
<1> QED BY <1>1, <1>2, <1>3 DEF OldNames, Old

(* The argument being handled is one of the command line. *)
LEMMA ArgIsArg ==
  ASSUME Basic, Editing
  PROVE  argn \in Args
<1>1. argn \in Nat /\ argn > 0 /\ Args = 1..Len(cmd.files) /\ Len(cmd.files) \in Nat
  BY CommandFacts DEF Basic, Shape
<1> QED BY <1>1 DEF Editing

(* delete_members. *)
LEMMA DeleteNames ==
  ASSUME Basic, ListInv, NamesInv, DeleteArg
  PROVE  NamesInv'
<1>1. /\ pc = "edit" /\ cmd.op = "d" /\ argn' = argn + 1 /\ Editing
      /\ UNCHANGED <<cmd, arch, present, next, date, src, symdef>>
  BY DEF DeleteArg, Editing, envVars, idxVars
<1>2. PICK n : n = Arg
  OBVIOUS
<1>3. PICK old : old = find_mapelt(Mapstart, n)
  OBVIOUS
<1>4. \A e \in 1..Len(next) : /\ name'[e] = IF e = old THEN NoName ELSE name[e]
                              /\ date'[e] = date[e]
  <2>1. DOMAIN next = 1..Len(next)
    BY DEF Basic, Shape, Pointers
  <2> QED BY <1>1, <1>2, <1>3, <2>1 DEF DeleteArg, Elts
<1>5. old \in 2..Old => Ask(old - 1, argn)
  <2> SUFFICES ASSUME old \in 2..Old PROVE Ask(old - 1, argn)
    OBVIOUS
  <2>1. Matches(arch[old - 1].name, n)
    BY <1>1, <1>3, FoundMember
  <2>2. ~cmd.newer
    BY <1>1, CommandFacts DEF Basic
  <2> QED BY <1>2, <2>1, <2>2 DEF Ask, Arg
<1>6. /\ OldDates' /\ OldNames' /\ ArgsGone' /\ \A g : FirstGone(g) => FirstGone(g)'
  BY <1>1, <1>2, <1>3, <1>4, <1>5, ArgIsArg, CancelNames
<1>7. NewGone'
  <2>0. Len(next) \in Nat /\ Len(next) > 0 /\ Old \in Nat
    BY ArchFacts DEF Old, Basic, Shape, Pointers
  <2>3. Count \in Nat /\ Count <= Len(next)
    BY <1>1, <2>0 DEF Count, Made, Editing
  <2>4. Old' = Old /\ Count' = Count
    BY <1>1 DEF Old, Count, Made, Editing
  <2>1. NewGone /\ Old' = Old /\ Count' = Count /\ Count \in Nat /\ Count <= Len(next) /\ Old \in Nat
    BY <1>1, <2>0, <2>3, <2>4 DEF NamesInv, Live
  <2>2. ASSUME NEW e \in (Old + 1)..Count, NEW g, g = name'[e], g # NoName
        PROVE  FirstGone(g)'
    <3>1. e \in 1..Len(next)
      BY <2>1
    <3>2. g = name[e]
      BY <1>4, <2>2, <3>1
    <3>3. FirstGone(g)
      BY <2>1, <2>2, <3>2 DEF NewGone
    <3> QED BY <1>6, <3>3
  <2> QED BY <2>1, <2>2 DEF NewGone
<1>8. FilesIn'
  BY <1>1 DEF FilesIn
<1> QED BY <1>6, <1>7, <1>8 DEF NamesInv

(* An argument of r that does nothing. *)
LEMMA SkipNames ==
  ASSUME Basic, NamesInv, SkipArg
  PROVE  NamesInv'
<1> SUFFICES ASSUME cmd'.op \in {"d", "r"}
             PROVE  (OldDates /\ OldNames /\ NewGone /\ ArgsGone /\ FilesIn)'
  BY DEF NamesInv
<1>1. /\ pc = "edit" /\ cmd.op = "r" /\ argn' = argn + 1
      /\ Exists(Arg) => cmd.newer
      /\ UNCHANGED <<cmd, arch, present, next, date, src, symdef, name>>
  BY DEF SkipArg, Editing, envVars, idxVars, eltVars, TooOld
<1>2. /\ OldDates /\ OldNames /\ NewGone /\ ArgsGone /\ FilesIn /\ Fixed /\ argn \in Nat
  BY <1>1 DEF NamesInv, Live, Basic, Shape
<1>3. Old' = Old /\ Count' = Count /\ Args' = Args
  BY <1>1 DEF Old, Count, Made, Args
<1>4. \A n : FirstGone(n)' <=> FirstGone(n)
  BY <1>1 DEF FirstGone, FirstMatch
<1>5. OldDates' /\ NewGone'
  BY <1>1, <1>2, <1>3, <1>4 DEF OldDates, NewGone
<1>6. OldNames'
  <2>1. \A k : Asked(k) => Asked(k)'
    BY <1>1, AskedStays
  <2> QED BY <1>1, <1>2, <1>3, <2>1 DEF OldNames
<1>7. \A a : Handled(a)' => Handled(a) \/ a = argn
  BY <1>1, <1>2, <1>3 DEF Handled
<1>8. \A n : Exists(n)' <=> Exists(n)
  BY <1>1 DEF Exists
<1>9. ~cmd.newer => ~Exists(cmd.files[argn])
  BY <1>1 DEF Arg
<1>10. ArgsGone'
  BY <1>1, <1>2, <1>4, <1>7, <1>8, <1>9 DEF ArgsGone, Takes
<1>11. FilesIn'
  <2> SUFFICES ASSUME ~cmd.newer, NEW a, Handled(a)', Exists(cmd.files[a])', Final(a)'
               PROVE  \E e \in (Old + 1)..Count : name[e] = cmd.files[a]
    BY <1>1, <1>3 DEF FilesIn
  <2>1. Exists(cmd.files[a]) /\ a # argn /\ Handled(a)
    BY <1>1, <1>7, <1>8, <1>9
  <2>2. Final(a)
    <3>1. ASSUME NEW b \in (a + 1)..(argn - 1), b \in Args
          PROVE  ~Matches(cmd.files[a], cmd.files[b])
      <4>1. b \in (a + 1)..(argn' - 1)
        BY <1>1, <1>2, <2>1 DEF Handled
      <4> QED BY <1>1, <1>3, <3>1, <4>1 DEF Final
    <3> QED BY <3>1 DEF Final
  <2> QED BY <1>1, <1>2, <2>1, <2>2 DEF FilesIn
<1> QED BY <1>5, <1>6, <1>10, <1>11

(* insert_in_map. *)
LEMMA InsertNames ==
  ASSUME Basic, ListInv, NamesInv, InsertArg
  PROVE  NamesInv'
<1> SUFFICES ASSUME Live', cmd'.op \in {"d", "r"}
             PROVE  (OldDates /\ OldNames /\ NewGone /\ ArgsGone /\ FilesIn)'
  BY DEF NamesInv
<1>1. /\ pc = "edit" /\ cmd.op = "r" /\ argn' = argn + 1 /\ Editing /\ Exists(Arg)
      /\ ~TooOld(find_mapelt(Mapstart, Arg))
      /\ UNCHANGED <<cmd, arch, present, symdef>>
  BY DEF InsertArg, Editing, envVars, idxVars
<1>2. PICK n : n = Arg
  OBVIOUS
<1>3. PICK old : old = find_mapelt(Mapstart, n)
  OBVIOUS
<1>4. PICK m \in Nat : m = Len(next) /\ m > 0
  BY DEF Basic, Shape, Pointers
<1>5. /\ Len(next') = m + 1 /\ name'[m + 1] = n
      /\ \A e \in 1..m : /\ name'[e] = IF e = old THEN NoName ELSE name[e]
                         /\ date'[e] = date[e]
  BY <1>2, <1>3, <1>4, InsertEffect DEF NewElement
<1>6. /\ OldDates /\ NewGone /\ FilesIn /\ Fixed /\ argn \in Nat /\ argn > 0 /\ symdef = 0
      /\ Sourced /\ Live
  BY <1>1 DEF NamesInv, Live, Basic, Shape, Progress, Elems
<1>7. Count = m /\ Count' = m + 1
  BY <1>1, <1>4, <1>5, <1>6 DEF Count, Made
<1>8. PICK o \in Nat : o = Old /\ Old' = o /\ o <= m /\ o = Len(arch) + 1
  BY <1>1, <1>6, <1>7, ArchFacts DEF Sourced, Old
<1>9. old \in 2..Old => Ask(old - 1, argn)
  <2> SUFFICES ASSUME old \in 2..Old PROVE Ask(old - 1, argn)
    OBVIOUS
  <2>1. Matches(arch[old - 1].name, n) /\ old - 1 \in 1..Len(arch)
    BY <1>1, <1>3, FoundMember
  <2>2. date[old] = arch[old - 1].date /\ arch[old - 1].date \in Nat /\ old # 0
    BY <1>6, <2>1, ArchFacts DEF OldDates
  <2>3. FileDate(n) \in Nat
    BY <1>1, <1>2, <1>6, DateType
  <2>4. cmd.newer => ~(FileDate(n) <= date[old])
    BY <1>1, <1>2, <1>3, <2>2 DEF TooOld
  <2>5. cmd.newer => FileDate(n) > arch[old - 1].date
    BY <2>2, <2>3, <2>4
  <2> QED BY <1>2, <2>1, <2>5 DEF Ask, Arg
<1>10. /\ OldDates' /\ OldNames' /\ ArgsGone' /\ FirstGone(n)'
       /\ \A g : FirstGone(g) => FirstGone(g)'
  BY <1>1, <1>2, <1>3, <1>4, <1>5, <1>9, ArgIsArg, CancelNames
<1>11. NewGone'
  <2> SUFFICES ASSUME NEW e \in (o + 1)..(m + 1), NEW g, g = name'[e], g # NoName
               PROVE  FirstGone(g)'
    BY <1>7, <1>8 DEF NewGone
  <2>1. CASE e = m + 1
    BY <1>5, <1>10, <2>1
  <2>2. CASE e \in (o + 1)..m
    <3>1. e \in 1..m
      BY <2>2
    <3>2. g = name[e]
      BY <1>5, <3>1
    <3>3. FirstGone(g)
      BY <1>6, <1>7, <1>8, <2>2, <3>2 DEF NewGone
    <3> QED BY <1>10, <3>3
  <2> QED BY <2>1, <2>2
<1>12. FilesIn'
  <2> SUFFICES ASSUME ~cmd.newer, NEW a, Handled(a)', Exists(cmd.files[a])', Final(a)'
               PROVE  \E e \in (o + 1)..(m + 1) : name'[e] = cmd.files[a]
    BY <1>1, <1>7, <1>8 DEF FilesIn
  <2>1. CASE a = argn
    <3>1. m + 1 \in (o + 1)..(m + 1) /\ name'[m + 1] = cmd.files[a]
      BY <1>2, <1>5, <1>8, <2>1 DEF Arg
    <3> QED BY <3>1
  <2>2. CASE a # argn
    <3>1. Handled(a) /\ Exists(cmd.files[a])
      BY <1>1, <1>6, <2>2 DEF Handled, Args, Exists
    <3>2. a \in Nat /\ a + 1 <= argn
      BY <1>6, <3>1 DEF Handled
    <3>3. Final(a)
      <4>1. ASSUME NEW b \in (a + 1)..(argn - 1), b \in Args
            PROVE  ~Matches(cmd.files[a], cmd.files[b])
        <5>1. b \in (a + 1)..(argn' - 1)
          BY <1>1, <1>6, <3>2
        <5> QED BY <1>1, <4>1, <5>1 DEF Final, Args
      <4> QED BY <4>1 DEF Final
    <3>4. ~Matches(cmd.files[a], n)
      <4>1. argn \in (a + 1)..(argn' - 1)
        BY <1>1, <1>6, <3>2
      <4>2. argn \in Args'
        BY <1>1, ArgIsArg DEF Args
      <4> QED BY <1>1, <1>2, <4>1, <4>2 DEF Final, Arg
    <3>5. PICK e \in (o + 1)..m : name[e] = cmd.files[a]
      BY <1>1, <1>6, <1>7, <1>8, <3>1, <3>3 DEF FilesIn
    <3>6. e \in 1..m /\ e \in (o + 1)..(m + 1) /\ e # 0
      BY <3>5
    <3>7. e # old
      <4>1. old # 0 => Matches(name[old], n)
        BY <1>1, <1>3, FoundFirst
      <4> QED BY <3>4, <3>5, <3>6, <4>1
    <3>8. name'[e] = cmd.files[a]
      BY <1>5, <3>5, <3>6, <3>7
    <3> QED BY <3>6, <3>8
  <2> QED BY <2>1, <2>2
<1> QED BY <1>10, <1>11, <1>12

(* The steps after the edits, and the ones around them. *)
LEMMA OtherNames ==
  ASSUME Basic, NamesInv,
         FindPosition \/ EndEdit \/ MakeIndex \/ CopyOut \/ Install \/ Vanish \/ UNCHANGED vars
  PROVE  NamesInv'
<1> SUFFICES ASSUME Live' PROVE NamesInv'
  BY DEF NamesInv
<1>1. /\ Live /\ UNCHANGED <<cmd, arch, argn>> /\ present' \subseteq present
  <2>1. CASE UNCHANGED vars
    BY <2>1 DEF vars, envVars, Live
  <2>2. CASE FindPosition
    BY <2>2 DEF FindPosition, Exit, envVars, Live
  <2>3. CASE EndEdit \/ CopyOut \/ Install
    BY <2>3 DEF EndEdit, CopyOut, Install, envVars, Live
  <2>4. CASE MakeIndex
    BY <2>4 DEF MakeIndex, envVars, Live
  <2>5. CASE Vanish
    BY <2>5 DEF Vanish, Live
  <2> QED BY <2>1, <2>2, <2>3, <2>4, <2>5
<1>2. Count' = Count /\ \A e \in 1..Count : name'[e] = name[e] /\ date'[e] = date[e]
  <2>1. CASE UNCHANGED <<next, name, date, src, symdef>>
    BY <2>1 DEF Count, Made
  <2>2. CASE MakeIndex
    <3>1. PICK m \in Nat : m = Len(next)
      BY DEF Basic, Shape, Pointers
    <3>2. symdef = 0 /\ Count = m
      BY <2>2, <3>1 DEF MakeIndex, Basic, Progress, Count, Made
    <3>3. IndexMade \/ IndexKept
      BY <2>2, IndexEffect DEF Live
    <3>4. CASE IndexKept
      BY <3>1, <3>2, <3>4 DEF IndexKept, Count, Made
    <3>5. CASE IndexMade
      BY <3>1, <3>2, <3>5 DEF IndexMade, Count, Made
    <3> QED BY <3>3, <3>4, <3>5
  <2>3. CASE FindPosition \/ EndEdit \/ CopyOut \/ Install \/ Vanish
    BY <2>1, <2>3 DEF FindPosition, Exit, EndEdit, CopyOut, Install, Vanish, eltVars, idxVars
  <2>4. CASE UNCHANGED vars
    BY <2>1, <2>4 DEF vars, eltVars, idxVars
  <2> QED BY <2>2, <2>3, <2>4
<1> QED BY <1>1, <1>2, NamesStay

(* Every step keeps the names right. *)
LEMMA NextNames ==
  ASSUME Basic, ListInv, NamesInv, [Next]_vars
  PROVE  NamesInv'
<1>1. CASE MoveArg
  BY <1>1 DEF NamesInv, MoveArg, envVars
<1> QED BY <1>1, StartNames, DeleteNames, SkipNames, InsertNames, OtherNames
           DEF Next, Step, Finished

-----------------------------------------------------------------------------
(* What is known when d or r has written the archive. *)
Done(L, w, c, o) ==
  /\ Written /\ cmd.op \in {"d", "r"} /\ Fixed /\ name[1] = NoName
  /\ OldNames /\ ArgsGone /\ FilesIn
  /\ c \in Nat /\ o \in Nat /\ c = Count /\ o = Old /\ o = Len(arch) + 1 /\ o <= c
  /\ Len(out) \in Nat /\ DOMAIN out = 1..Len(out)
  /\ \A e \in 1..c : src[e] = IF e <= o THEN e - 1 ELSE 0
  /\ \A a \in Args : Handled(a)
  /\ IsList(L, next, c) /\ Sorted(L, src, c) /\ Placed(L)
  /\ TraceBy(L, c + 1, w)

(* What is known when everything has been written. *)
LEMMA DoneFacts ==
  ASSUME Basic, ListInv, NamesInv, Written, cmd.op \in {"d", "r"}
  PROVE  \E L, w, c, o : Done(L, w, c, o)
<1>1. pc = "done" /\ Live
  BY DEF Written, Live
<1>2. /\ Fixed /\ name[1] = NoName /\ OldNames /\ ArgsGone /\ FilesIn /\ Sourced
      /\ argn > Len(cmd.files) /\ argn \in Nat /\ Len(next) \in Nat
      /\ Len(out) \in Nat /\ out = [i \in 1..Len(out) |-> out[i]]
  BY <1>1 DEF Basic, Shape, Pointers, Progress, Elems, NamesInv
<1>3. PICK L : ListWith(L)
  BY <1>1 DEF ListInv
<1>4. PICK c \in Nat : c = Count /\ c <= Len(next)
  <2>1. IsList(L, next, Count)
    BY <1>3 DEF ListWith
  <2> QED BY <1>2, <2>1 DEF IsList, OnList, Count
<1>5. PICK o \in Nat : o = Old /\ o = Len(arch) + 1
  BY <1>2, ArchFacts DEF Old
<1>6. o <= c /\ \A e \in 1..c : src[e] = IF e <= o THEN e - 1 ELSE 0
  <2>1. o <= c /\ \A e \in 1..Len(next) : src[e] = IF e <= o THEN e - 1 ELSE 0
    BY <1>2, <1>4, <1>5 DEF Sourced
  <2>2. \A e \in 1..c : e \in 1..Len(next)
    BY <1>2, <1>4
  <2> QED BY <2>1, <2>2
<1>7. PICK w : TraceBy(L, c + 1, w)
  BY <1>3, <1>4 DEF ListWith, Copying, Trace
<1>8. \A a \in Args : Handled(a)
  <2>1. Args = 1..Len(cmd.files) /\ Len(cmd.files) \in Nat
    BY <1>2, CommandFacts
  <2> QED BY <1>2, <2>1 DEF Handled
<1>9. DOMAIN out = 1..Len(out)
  BY <1>2
<1>10. IsList(L, next, c) /\ Sorted(L, src, c) /\ Placed(L)
  BY <1>3, <1>4 DEF ListWith
<1>11. Done(L, w, c, o)
  BY <1>2, <1>4, <1>5, <1>6, <1>7, <1>8, <1>9, <1>10 DEF Done
<1> QED BY <1>11

(* A member written stands at a position of the list: an old member at its  *)
(* element's, which is not cancelled.                                       *)
LEMMA WrittenFrom ==
  ASSUME NEW L, NEW w, NEW c, NEW o, Done(L, w, c, o), NEW i \in 1..Len(out)
  PROVE  /\ w[i] \in 1..c /\ L[w[i]] \in 1..c /\ out[i].src = src[L[w[i]]]
         /\ w[i] = 1 => out[i].from = Symdef /\ out[i].src = 0
         /\ w[i] > 1 => name[L[w[i]]] # NoName /\ L[w[i]] # 1
         /\ out[i].src > 0 => L[w[i]] \in 2..o /\ out[i].src = L[w[i]] - 1 /\ w[i] > 1
         /\ out[i].src = 0 /\ w[i] > 1 => L[w[i]] > o
         /\ out[i].src \in 0..Len(arch)
<1>1. /\ c \in Nat /\ o \in Nat /\ o <= c /\ o = Len(arch) + 1 /\ Len(arch) \in Nat
      /\ \A e \in 1..c : src[e] = IF e <= o THEN e - 1 ELSE 0
  BY ArchFacts DEF Done
<1>2. w[i] \in 1..c /\ Wrote(L, w, i)
  BY <1>1 DEF Done, TraceBy
<1>3. PICK p \in 1..c : p = w[i]
  BY <1>2
<1>4. L \in [1..c -> 1..c] /\ L[1] = 1 /\ c > 0 /\ EachOnce(L, c)
  BY DEF Done, IsList, OnList, Mapstart
<1>5. PICK e \in 1..c : e = L[p]
  BY <1>4
<1>6. p > 1 => e # 1
  <2>1. 1 \in 1..c
    BY <1>1, <1>4
  <2>2. L[p] = L[1] => p = 1
    BY <1>4, <2>1 DEF EachOnce
  <2> QED BY <1>4, <1>5, <2>2
<1>7. /\ out[i].src = src[e] /\ (p = 1 => out[i].from = Symdef)
      /\ (p > 1 => name[e] # NoName)
  BY <1>2, <1>3, <1>5 DEF Wrote
<1>8. src[e] = IF e <= o THEN e - 1 ELSE 0
  BY <1>1
<1>9. p = 1 => e = 1 /\ src[e] = 0
  BY <1>1, <1>4, <1>5, <1>8
<1>10. src[e] > 0 => e \in 2..o /\ src[e] = e - 1 /\ p > 1
  BY <1>1, <1>8, <1>9
<1>11. src[e] = 0 /\ p > 1 => e > o
  BY <1>1, <1>6, <1>8
<1>12. src[e] \in 0..Len(arch)
  BY <1>1, <1>8
<1> QED BY <1>3, <1>5, <1>6, <1>7, <1>9, <1>10, <1>11, <1>12

(* The positions have the order of what is written. *)
LEMMA WrittenOrder ==
  ASSUME NEW L, NEW w, NEW c, NEW o, Done(L, w, c, o),
         NEW i \in 1..Len(out), NEW j \in 1..Len(out)
  PROVE  i < j <=> w[i] < w[j]
<1>1. Rising(w, Len(out)) /\ Len(out) \in Nat /\ w[i] \in 1..c /\ w[j] \in 1..c /\ c \in Nat
  BY WrittenFrom DEF Done, TraceBy
<1>2. i < j => w[i] < w[j]
  BY <1>1 DEF Rising
<1>3. j < i => w[j] < w[i]
  BY <1>1 DEF Rising
<1>4. i = j => w[i] = w[j]
  OBVIOUS
<1> QED BY <1>1, <1>2, <1>3, <1>4

(* An element on the list that is not cancelled, and whose file is there,   *)
(* is written.                                                              *)
LEMMA IsWritten ==
  ASSUME NEW L, NEW w, NEW c, NEW o, Done(L, w, c, o), NEW e \in 2..c, Kept(e)
  PROVE  \E i \in 1..Len(out) : out[i].src = src[e] /\ (src[e] = 0 => out[i].from = name[e])
<1>1. c \in Nat /\ OnList(L, c) /\ EachOnce(L, c)
  BY DEF Done, IsList
<1>2. PICK p \in 1..c : L[p] = e
  <2>1. e \in 1..c
    OBVIOUS
  <2> QED BY <1>1, <2>1 DEF EachOnce
<1>3. p # 1
  BY <1>1, <1>2 DEF OnList, Mapstart
<1>4. p \in 2..((c + 1) - 1)
  BY <1>1, <1>2, <1>3
<1>5. Found(L, w, p)
  BY <1>2, <1>4 DEF Done, TraceBy
<1>6. PICK i \in 1..Len(out) : w[i] = p /\ (src[e] = 0 => out[i].from = name[e])
  BY <1>2, <1>5 DEF Found
<1>7. out[i].src = src[e]
  BY <1>2, <1>6, WrittenFrom
<1> QED BY <1>6, <1>7

(* The invariant gives OthersKept. *)
LEMMA InvOthers ==
  ASSUME Basic, ListInv, NamesInv
  PROVE  OthersKept
<1> SUFFICES ASSUME Written, cmd.op \in {"d", "r"} PROVE OthersKept
  BY DEF OthersKept
<1>1. PICK L, w, c, o : Done(L, w, c, o)
  BY DoneFacts
<1>2. /\ c \in Nat /\ o \in Nat /\ o <= c /\ o = Len(arch) + 1 /\ Len(arch) \in Nat /\ o = Old
      /\ DOMAIN arch = 1..Len(arch) /\ DOMAIN out = 1..Len(out) /\ Len(out) \in Nat
      /\ \A e \in 1..c : src[e] = IF e <= o THEN e - 1 ELSE 0
  BY <1>1, ArchFacts DEF Done
<1>3. ASSUME NEW k \in DOMAIN arch \ Sources
      PROVE  \E a \in Args :
               /\ Matches(arch[k].name, cmd.files[a])
               /\ cmd.newer /\ Exists(cmd.files[a]) => FileDate(cmd.files[a]) > arch[k].date
  <2>1. k \in 1..Len(arch) /\ k + 1 \in 2..o /\ k + 1 \in 2..c /\ k + 1 \in 1..c /\ (k + 1) - 1 = k
    BY <1>2
  <2>2. src[k + 1] = k /\ k # 0
    BY <1>2, <2>1
  <2>3. name[k + 1] = NoName
    <3>1. SUFFICES ASSUME name[k + 1] # NoName PROVE FALSE
      OBVIOUS
    <3>2. Kept(k + 1)
      BY <2>2, <3>1 DEF Kept
    <3>3. PICK i \in 1..Len(out) : out[i].src = k
      BY <1>1, <2>1, <2>2, <3>2, IsWritten
    <3> QED BY <1>2, <1>3, <3>3 DEF Sources
  <2>4. name[k + 1] = arch[k].name \/ Asked(k)
    BY <1>1, <1>2, <2>1 DEF Done, OldNames
  <2>5. arch[k].name # NoName
    BY <1>1, <2>1, ArchFacts DEF Done
  <2>6. PICK a : a \in Args /\ Ask(k, a)
    BY <2>3, <2>4, <2>5 DEF Asked
  <2> QED BY <2>6 DEF Ask
<1>4. ASSUME NEW a \in Args, cmd.op = "d" \/ (~cmd.newer /\ Exists(cmd.files[a]))
      PROVE  FirstMatch(cmd.files[a]) \notin Sources \ {0}
  <2>1. PICK k : k = FirstMatch(cmd.files[a])
    OBVIOUS
  <2> SUFFICES ASSUME k \in Sources, k # 0 PROVE FALSE
    BY <2>1
  <2>2. FirstGone(cmd.files[a])
    BY <1>1, <1>4 DEF Done, ArgsGone, Takes
  <2>3. name[k + 1] = NoName
    BY <2>1, <2>2 DEF FirstGone
  <2>4. PICK i \in 1..Len(out) : out[i].src = k
    BY <1>2 DEF Sources
  <2>5. k \in 1..Len(arch)
    BY <1>1, <1>2, <2>4, WrittenFrom
  <2>6. out[i].src > 0
    BY <2>4, <2>5
  <2>7. L[w[i]] \in 2..o /\ k = L[w[i]] - 1 /\ w[i] > 1 /\ name[L[w[i]]] # NoName
    BY <1>1, <2>4, <2>6, WrittenFrom
  <2>8. L[w[i]] = k + 1
    BY <1>2, <2>7
  <2> QED BY <2>3, <2>7, <2>8
<1>5. ASSUME NEW i \in DOMAIN out, NEW j \in DOMAIN out, i < j, out[i].src > 0, out[j].src > 0
      PROVE  out[i].src < out[j].src
  <2>1. i \in 1..Len(out) /\ j \in 1..Len(out)
    BY <1>2
  <2>2. w[i] < w[j]
    BY <1>1, <1>5, <2>1, WrittenOrder
  <2>3. /\ w[i] \in 1..c /\ w[j] \in 1..c
        /\ out[i].src = src[L[w[i]]] /\ out[j].src = src[L[w[j]]]
    BY <1>1, <2>1, WrittenFrom
  <2>4. Sorted(L, src, c)
    BY <1>1 DEF Done
  <2> QED BY <1>5, <2>2, <2>3, <2>4 DEF Sorted
<1> QED BY <1>3, <1>4, <1>5 DEF OthersKept

(* The invariant gives FilesPlaced. *)
LEMMA InvPlaced ==
  ASSUME Basic, ListInv, NamesInv
  PROVE  FilesPlaced
<1> SUFFICES ASSUME Written, cmd.op = "r", Symdef \notin {cmd.files[a] : a \in Args}
             PROVE  FilesPlaced
  BY DEF FilesPlaced
<1>1. PICK L, w, c, o : Done(L, w, c, o)
  BY DoneFacts
<1>2. /\ c \in Nat /\ o \in Nat /\ o > 0 /\ o <= c /\ o = Old /\ c = Count
      /\ DOMAIN out = 1..Len(out) /\ Len(out) \in Nat /\ Fixed
      /\ \A e \in 1..c : src[e] = IF e <= o THEN e - 1 ELSE 0
  BY <1>1, ArchFacts DEF Done
<1>3. ASSUME NEW i \in DOMAIN out, NEW j \in DOMAIN out,
             out[i].src = 0, out[i].from # Symdef, out[j].src > 0
      PROVE  j < i <=> out[j].src <= Place
  <2>1. i \in 1..Len(out) /\ j \in 1..Len(out)
    BY <1>2
  <2>2. w[i] \in 1..c /\ w[i] # 1
    BY <1>1, <1>3, <2>1, WrittenFrom
  <2>3. w[i] > 1
    BY <1>2, <2>2
  <2>4. L[w[i]] > o
    BY <1>1, <1>3, <2>1, <2>3, WrittenFrom
  <2>5. L[w[j]] \in 2..o /\ out[j].src = L[w[j]] - 1 /\ w[j] \in 1..c
    BY <1>1, <1>3, <2>1, WrittenFrom
  <2>6. j < i <=> w[j] < w[i]
    BY <1>1, <2>1, WrittenOrder
  <2>7. Split(L, c, o, Place)
    BY <1>1, <1>2 DEF Done, Placed
  <2>8. w[j] < w[i] <=> L[w[j]] - 1 <= Place
    BY <2>2, <2>4, <2>5, <2>7 DEF Split
  <2> QED BY <2>5, <2>6, <2>8
<1>4. ASSUME NEW a \in Args, Exists(cmd.files[a]), ~cmd.newer,
             \A b \in Args : b > a => ~Matches(cmd.files[a], cmd.files[b])
      PROVE  \E i \in DOMAIN out : out[i].from = cmd.files[a]
  <2>1. Handled(a) /\ FilesIn
    BY <1>1 DEF Done
  <2>2. Final(a)
    <3>1. Args = 1..Len(cmd.files) /\ Len(cmd.files) \in Nat
      BY <1>2, CommandFacts
    <3>2. \A b \in Args : b \in (a + 1)..(argn - 1) => b > a
      BY <3>1
    <3> QED BY <1>4, <3>2 DEF Final
  <2>3. PICK e \in (o + 1)..c : name[e] = cmd.files[a]
    BY <1>2, <1>4, <2>1, <2>2 DEF FilesIn
  <2>4. e \in 2..c /\ src[e] = 0
    BY <1>2, <2>3
  <2>5. cmd.files[a] # NoName
    BY <1>2, CommandFacts
  <2>6. Kept(e)
    BY <1>4, <2>3, <2>5 DEF Kept
  <2>7. PICK i \in 1..Len(out) : out[i].src = src[e] /\ (src[e] = 0 => out[i].from = name[e])
    BY <1>1, <2>4, <2>6, IsWritten
  <2>8. out[i].from = cmd.files[a]
    BY <2>3, <2>4, <2>7
  <2>9. i \in DOMAIN out
    BY <1>2, <2>7
  <2> QED BY <2>8, <2>9
<1>5. ASSUME NEW i \in DOMAIN out, NEW j \in DOMAIN out,
             out[i].src = 0 /\ out[i].from # Symdef /\ out[j].src > 0
      PROVE  j < i <=> out[j].src <= Place
  BY <1>3, <1>5
<1>6. ASSUME NEW a \in Args, /\ Exists(cmd.files[a]) /\ ~cmd.newer
                             /\ \A b \in Args : b > a => ~Matches(cmd.files[a], cmd.files[b])
      PROVE  \E i \in DOMAIN out : out[i].from = cmd.files[a]
  BY <1>4, <1>6
<1> QED BY <1>5, <1>6, Zenon DEF FilesPlaced

(* There are no names before the map is made. *)
LEMMA InitNames == Init => NamesInv
BY DEF Init, NamesInv, Live

(***************************************************************************)
(* What m does when it is asked to move members in the middle.             *)
(***************************************************************************)
Moving == pc \in {"edit", "index", "write", "install", "done"} /\ cmd.op = "m" /\ Movable
(* The members on the list stand as the first n arguments ask ... *)
Follows(L, n) == \A i, j \in 2..Old : i < j => Before(n, L[i] - 1, L[j] - 1)
(* ... and after is the last moved, or the one to move next to: the members *)
(* up to it are those moved and those up to the place asked for.            *)
Reached(L, n, q) ==
  /\ \A i \in 2..Old : i <= q <=> Movers(n, L[i] - 1) # {} \/ L[i] - 1 <= Place
  /\ Movers(n, L[q] - 1) # {} \/ L[q] - 1 = Place
MoveWith(L) ==
  /\ Count = Old /\ IsList(L, next, Old)
  /\ \A e \in 2..Old : name[e] = arch[e - 1].name
  /\ map = 2 /\ Place \in 1..Len(arch)
  /\ Follows(L, argn - 1)
  /\ pc = "edit" => \E q \in 2..Old : after = L[q] /\ Reached(L, argn - 1, q)
  /\ Made => next[symdef] = next[1]
  /\ Copying(L)
MoveInv == Moving => \E L : MoveWith(L)

(* Moving the p-th element of a list behind the q-th: what is at place i    *)
(* then was at Slot(p, q, i), and what was at place i is at Unslot.         *)
Slot(p, q, i) ==
  IF p < q THEN IF i < p \/ i > q THEN i ELSE IF i = q THEN p ELSE i + 1
           ELSE IF i <= q \/ i > p THEN i ELSE IF i = q + 1 THEN p ELSE i - 1
Unslot(p, q, i) ==
  IF p < q THEN IF i < p \/ i > q THEN i ELSE IF i = p THEN q ELSE i - 1
           ELSE IF i <= q \/ i > p THEN i ELSE IF i = p THEN q + 1 ELSE i + 1
(* The one undoes the other, and mapstart stays first. *)
LEMMA SlotFacts ==
  ASSUME NEW c \in Nat, NEW p \in 2..c, NEW q \in 1..c, p # q, NEW i \in 1..c
  PROVE  /\ Slot(p, q, i) \in 1..c /\ Unslot(p, q, i) \in 1..c
         /\ Slot(p, q, Unslot(p, q, i)) = i /\ Unslot(p, q, Slot(p, q, i)) = i
         /\ Slot(p, q, 1) = 1 /\ Slot(p, q, c + 1) = c + 1
         /\ i > 1 => Slot(p, q, i) > 1
BY DEF Slot, Unslot

(* What comes next. *)
NextSlot(p, q, a) ==
  IF a = q THEN p
  ELSE IF a = p THEN IF q = p - 1 THEN p + 1 ELSE q + 1
  ELSE IF a = p - 1 THEN p + 1 ELSE a + 1
(* What stood before it determines it. *)
LEMMA SlotNext ==
  ASSUME NEW c \in Nat, NEW p \in 2..c, NEW q \in 1..c, p # q, NEW i \in 1..c
  PROVE  Slot(p, q, i + 1) = NextSlot(p, q, Slot(p, q, i))
BY DEF Slot, NextSlot

(* The order: only what is moved changes its place. *)
LEMMA SlotOrder ==
  ASSUME NEW c \in Nat, NEW p \in 2..c, NEW q \in 1..c, p # q,
         NEW i \in 1..c, NEW j \in 1..c, i < j,
         NEW a, a = Slot(p, q, i), NEW b, b = Slot(p, q, j)
  PROVE  \/ a # p /\ b # p /\ a < b
         \/ a = p /\ b > q /\ b # p
         \/ b = p /\ a <= q /\ a # p
BY DEF Slot

(* The moved element is the last of those up to q and itself. *)
LEMMA SlotUpto ==
  ASSUME NEW c \in Nat, NEW p \in 2..c, NEW q \in 1..c, p # q, NEW i \in 1..c
  PROVE  i <= Unslot(p, q, p) <=> Slot(p, q, i) = p \/ Slot(p, q, i) <= q
BY DEF Slot, Unslot

(* The three assignments of move_in_map. *)
Unlinked(nx, L, p) == [nx EXCEPT ![L[p - 1]] = nx[L[p]]]
Relinked(nx, L, p, q) ==
  LET n1 == Unlinked(nx, L, p)
      n2 == [n1 EXCEPT ![L[p]] = n1[L[q]]]
  IN  [n2 EXCEPT ![L[q]] = L[p]]
Rearranged(L, c, p, q) == [i \in 1..c |-> L[Slot(p, q, i)]]
(* What is at place i, or null behind the end. *)
AtOrNull(L, c, i) == IF i = c + 1 THEN 0 ELSE L[i]

(* A list's pointers, from place to place. *)
LEMMA ListNext ==
  ASSUME NEW L, NEW nx, NEW c \in Nat, IsList(L, nx, c), NEW i \in 1..c
  PROVE  nx[L[i]] = AtOrNull(L, c, i + 1)
<1>1. CASE i = c
  BY <1>1 DEF IsList, InOrder, AtOrNull
<1>2. CASE i \in 1..(c - 1)
  BY <1>2 DEF IsList, InOrder, AtOrNull
<1> QED BY <1>1, <1>2

(* What the pointers are after the three assignments. *)
LEMMA RelinkedIs ==
  ASSUME NEW L, NEW c \in Nat, NEW nx \in [1..c -> 0..c], IsList(L, nx, c),
         NEW p \in 2..c, NEW q \in 1..c, p # q, NEW a \in 1..c
  PROVE  Relinked(nx, L, p, q)[L[a]] = AtOrNull(L, c, NextSlot(p, q, a))
<1>1. /\ \A i \in 1..c : L[i] \in 1..c
      /\ \A i, j \in 1..c : L[i] = L[j] => i = j
  BY DEF IsList, OnList, EachOnce
<1>2. p \in 1..c /\ p - 1 \in 1..c
  OBVIOUS
<1>3. PICK n1 : n1 = Unlinked(nx, L, p)
  OBVIOUS
<1>4. /\ DOMAIN n1 = 1..c
      /\ \A i \in 1..c : n1[L[i]] = AtOrNull(L, c, IF i = p - 1 THEN p + 1 ELSE i + 1)
  <2>1. DOMAIN n1 = 1..c
    BY <1>3 DEF Unlinked
  <2>2. ASSUME NEW i \in 1..c PROVE n1[L[i]] = nx[L[IF i = p - 1 THEN p ELSE i]]
    BY <1>1, <1>2, <1>3 DEF Unlinked
  <2> QED BY <1>2, <2>1, <2>2, ListNext
<1>5. PICK n2 : n2 = [n1 EXCEPT ![L[p]] = n1[L[q]]]
  OBVIOUS
<1>6. DOMAIN n2 = 1..c /\ \A i \in 1..c : n2[L[i]] = n1[L[IF i = p THEN q ELSE i]]
  BY <1>1, <1>2, <1>4, <1>5
<1>7. Relinked(nx, L, p, q) = [n2 EXCEPT ![L[q]] = L[p]]
  BY <1>3, <1>5 DEF Relinked
<1>8. CASE a = q
  <2>1. Relinked(nx, L, p, q)[L[q]] = L[p]
    BY <1>1, <1>6, <1>7
  <2> QED BY <1>8, <2>1 DEF AtOrNull, NextSlot
<1>9. CASE a # q
  <2>1. Relinked(nx, L, p, q)[L[a]] = n2[L[a]]
    BY <1>1, <1>6, <1>7, <1>9
  <2>2. n2[L[a]] = AtOrNull(L, c, LET i == IF a = p THEN q ELSE a
                                  IN  IF i = p - 1 THEN p + 1 ELSE i + 1)
    BY <1>4, <1>6
  <2> QED BY <1>9, <2>1, <2>2 DEF NextSlot
<1> QED BY <1>8, <1>9

(* move_in_map gives a list again. *)
LEMMA RearrangedList ==
  ASSUME NEW L, NEW c \in Nat, NEW nx \in [1..c -> 0..c], IsList(L, nx, c),
         NEW p \in 2..c, NEW q \in 1..c, p # q
  PROVE  IsList(Rearranged(L, c, p, q), Relinked(nx, L, p, q), c)
<1>1. PICK K : K = Rearranged(L, c, p, q)
  OBVIOUS
<1>2. PICK ny : ny = Relinked(nx, L, p, q)
  OBVIOUS
<1>3. /\ \A i \in 1..c : L[i] \in 1..c
      /\ \A i, j \in 1..c : L[i] = L[j] => i = j
      /\ \A e \in 1..c : \E i \in 1..c : L[i] = e
      /\ c > 0 /\ L[1] = Mapstart
  BY DEF IsList, OnList, EachOnce
<1>4. /\ DOMAIN K = 1..c /\ K = [i \in 1..c |-> K[i]]
      /\ \A i \in 1..c : K[i] = L[Slot(p, q, i)]
  BY <1>1 DEF Rearranged
<1>5. \A i \in 1..c : Slot(p, q, i) \in 1..c /\ Unslot(p, q, i) \in 1..c
                      /\ Slot(p, q, Unslot(p, q, i)) = i /\ Unslot(p, q, Slot(p, q, i)) = i
  BY SlotFacts
<1>6. OnList(K, c)
  <2>1. K \in [1..c -> 1..c]
    <3>1. \A i \in 1..c : K[i] \in 1..c
      BY <1>3, <1>4, <1>5
    <3> QED BY <1>4, <3>1
  <2>2. 1 \in 1..c /\ Slot(p, q, 1) = 1
    BY <1>3, SlotFacts
  <2> QED BY <1>3, <1>4, <2>1, <2>2 DEF OnList
<1>7. EachOnce(K, c)
  <2>1. ASSUME NEW i \in 1..c, NEW j \in 1..c, K[i] = K[j] PROVE i = j
    <3>1. Slot(p, q, i) = Slot(p, q, j)
      BY <1>3, <1>4, <1>5, <2>1
    <3> QED BY <1>5, <3>1
  <2>2. ASSUME NEW e \in 1..c PROVE \E i \in 1..c : K[i] = e
    <3>1. PICK a \in 1..c : L[a] = e
      BY <1>3
    <3>2. Unslot(p, q, a) \in 1..c /\ K[Unslot(p, q, a)] = L[a]
      BY <1>4, <1>5
    <3> QED BY <3>1, <3>2
  <2> QED BY <2>1, <2>2 DEF EachOnce
<1>8. ASSUME NEW i \in 1..c PROVE ny[K[i]] = AtOrNull(L, c, Slot(p, q, i + 1))
  <2>1. PICK a \in 1..c : a = Slot(p, q, i)
    BY <1>5
  <2>2. K[i] = L[a]
    BY <1>4, <2>1
  <2>3. ny[L[a]] = AtOrNull(L, c, NextSlot(p, q, a))
    BY <1>2, RelinkedIs
  <2>4. Slot(p, q, i + 1) = NextSlot(p, q, a)
    BY <2>1, SlotNext
  <2> QED BY <2>2, <2>3, <2>4
<1>9. InOrder(K, ny, c)
  <2>1. ASSUME NEW i \in 1..(c - 1) PROVE ny[K[i]] = K[i + 1]
    <3>1. i \in 1..c /\ i + 1 \in 1..c
      OBVIOUS
    <3>2. Slot(p, q, i + 1) \in 1..c
      BY <1>5, <3>1
    <3>3. Slot(p, q, i + 1) # c + 1
      BY <3>2
    <3> QED BY <1>4, <1>8, <3>1, <3>3 DEF AtOrNull
  <2>2. ny[K[c]] = 0
    <3>1. c \in 1..c /\ Slot(p, q, c + 1) = c + 1
      BY <1>3, SlotFacts
    <3> QED BY <1>8, <3>1 DEF AtOrNull
  <2> QED BY <2>1, <2>2 DEF InOrder
<1> QED BY <1>1, <1>2, <1>6, <1>7, <1>9 DEF IsList

(* One more argument moves one more member, which no other argument moves. *)
LEMMA MoversGrow ==
  ASSUME Fixed, Movable, NEW n \in Nat, n + 1 \in Args,
         NEW f, f = FirstMatch(cmd.files[n + 1])
  PROVE  /\ Movers(n, f) = {} /\ Movers(n + 1, f) = {n + 1}
         /\ \A k : k # f => Movers(n + 1, k) = Movers(n, k)
         /\ \A k : \A a \in Movers(n, k) : a < n + 1
<1>1. Args = 1..Len(cmd.files) /\ Len(cmd.files) \in Nat
  BY CommandFacts
<1>2. \A a \in Args : a <= n + 1 <=> a <= n \/ a = n + 1
  BY <1>1
<1>3. \A a \in Args : a <= n => a # n + 1 /\ a < n + 1
  BY <1>1
<1>4. \A a \in Args : a # n + 1 => FirstMatch(cmd.files[a]) # f
  BY DEF Movable
<1>5. n + 1 <= n + 1
  OBVIOUS
<1>6. Movers(n, f) = {}
  BY <1>3, <1>4 DEF Movers
<1>7. Movers(n + 1, f) = {n + 1}
  BY <1>4, <1>5 DEF Movers
<1>8. ASSUME NEW k, k # f PROVE Movers(n + 1, k) = Movers(n, k)
  BY <1>2, <1>8 DEF Movers
<1>9. \A k : \A a \in Movers(n, k) : a < n + 1
  BY <1>3 DEF Movers
<1> QED BY <1>6, <1>7, <1>8, <1>9

(* Moving the member of one more argument behind after keeps the order, and *)
(* after moves on to it.                                                    *)
LEMMA RearrangedFollows ==
  ASSUME Fixed, Movable, NEW n \in Nat, n + 1 \in Args,
         NEW c \in Nat, c = Old, NEW L, OnList(L, c), EachOnce(L, c), Place \in Int,
         NEW p \in 2..c, NEW q \in 2..c, p # q, L[p] - 1 = FirstMatch(cmd.files[n + 1]),
         Follows(L, n), Reached(L, n, q), NEW K, K = Rearranged(L, c, p, q)
  PROVE  /\ Follows(K, n + 1)
         /\ \E r \in 2..c : K[r] = L[p] /\ Reached(K, n + 1, r)
<1>1. PICK f : f = FirstMatch(cmd.files[n + 1])
  OBVIOUS
<1>2. /\ Movers(n, f) = {} /\ Movers(n + 1, f) = {n + 1}
      /\ \A k : k # f => Movers(n + 1, k) = Movers(n, k)
      /\ \A k : \A a \in Movers(n, k) : a < n + 1
  BY <1>1, MoversGrow
<1>3. /\ \A i \in 1..c : L[i] \in 1..c
      /\ \A i, j \in 1..c : L[i] = L[j] => i = j
  BY DEF OnList, EachOnce
<1>4. q \in 1..c /\ p \in 1..c
  OBVIOUS
<1>5. \A i \in 1..c : K[i] = L[Slot(p, q, i)]
  BY DEF Rearranged
<1>6. \A i \in 2..c : Slot(p, q, i) \in 2..c
  <2> TAKE i \in 2..c
  <2>1. i \in 1..c /\ i > 1
    OBVIOUS
  <2>2. Slot(p, q, i) \in 1..c /\ Slot(p, q, i) > 1
    BY <1>4, <2>1, SlotFacts
  <2> QED BY <2>2
<1>7. \A a \in 2..c : (L[a] - 1 = f <=> a = p)
  BY <1>1, <1>3, <1>4
<1>8. \A a \in 2..c : a <= q <=> Movers(n, L[a] - 1) # {} \/ L[a] - 1 <= Place
  BY DEF Reached
<1>9. ASSUME NEW i \in 2..c, NEW j \in 2..c, i < j PROVE Before(n + 1, K[i] - 1, K[j] - 1)
  <2>1. PICK a \in 2..c : a = Slot(p, q, i)
    BY <1>6
  <2>2. PICK b \in 2..c : b = Slot(p, q, j)
    BY <1>6
  <2>3. PICK k \in Int : k = L[a] - 1 /\ k = K[i] - 1
    BY <1>3, <1>5, <2>1
  <2>4. PICK l \in Int : l = L[b] - 1 /\ l = K[j] - 1
    BY <1>3, <1>5, <2>2
  <2>5. \/ a # p /\ b # p /\ a < b
        \/ a = p /\ b > q /\ b # p
        \/ b = p /\ a <= q /\ a # p
    <3>1. i \in 1..c /\ j \in 1..c
      OBVIOUS
    <3> QED BY <1>4, <1>9, <2>1, <2>2, <3>1, SlotOrder
  <2>6. CASE a # p /\ b # p /\ a < b
    <3>1. Before(n, k, l)
      BY <2>3, <2>4, <2>6 DEF Follows
    <3>2. k # f /\ l # f
      BY <1>7, <2>3, <2>4, <2>6
    <3>3. Movers(n + 1, k) = Movers(n, k) /\ Movers(n + 1, l) = Movers(n, l)
      BY <1>2, <3>2
    <3> QED BY <2>3, <2>4, <3>1, <3>3 DEF Before
  <2>7. CASE a = p /\ b > q /\ b # p
    <3>1. k = f /\ l # f
      BY <1>7, <2>3, <2>4, <2>7
    <3>2. Movers(n, l) = {} /\ ~(l <= Place)
      <4>1. ~(b <= q)
        BY <2>7
      <4> QED BY <1>8, <2>4, <4>1
    <3>3. l > Place
      BY <3>2
    <3>4. Movers(n + 1, l) = {} /\ Movers(n + 1, k) # {}
      BY <1>2, <3>1, <3>2
    <3> QED BY <2>3, <2>4, <3>3, <3>4 DEF Before
  <2>8. CASE b = p /\ a <= q /\ a # p
    <3>1. l = f /\ k # f
      BY <1>7, <2>3, <2>4, <2>8
    <3>2. Movers(n + 1, k) = Movers(n, k) /\ Movers(n + 1, l) = {n + 1}
      BY <1>2, <3>1
    <3>3. Movers(n, k) # {} \/ k <= Place
      BY <1>8, <2>3, <2>8
    <3>4. CASE Movers(n, k) # {}
      <4>1. PICK x \in Movers(n, k) : x < n + 1
        BY <1>2, <3>4
      <4>2. x \in Movers(n + 1, k) /\ n + 1 \in Movers(n + 1, l)
        BY <3>2
      <4> QED BY <2>3, <2>4, <4>1, <4>2 DEF Before
    <3>5. CASE Movers(n, k) = {}
      BY <2>3, <2>4, <3>2, <3>3, <3>5 DEF Before
    <3> QED BY <3>4, <3>5
  <2> QED BY <2>5, <2>6, <2>7, <2>8
<1>10. Follows(K, n + 1)
  BY <1>9 DEF Follows
<1>11. PICK r \in 1..c : r = Unslot(p, q, p)
  BY <1>4, SlotFacts
<1>12. Slot(p, q, r) = p /\ K[r] = L[p]
  BY <1>4, <1>5, <1>11, SlotFacts
<1>13. r \in 2..c
  <2>1. r # 1
    BY <1>4, <1>12, SlotFacts
  <2> QED BY <2>1
<1>14. ASSUME NEW i \in 2..c
       PROVE  i <= r <=> Movers(n + 1, K[i] - 1) # {} \/ K[i] - 1 <= Place
  <2>1. PICK a \in 2..c : a = Slot(p, q, i)
    BY <1>6
  <2>2. K[i] = L[a]
    BY <1>5, <2>1
  <2>3. i <= r <=> a = p \/ a <= q
    <3>1. i \in 1..c
      OBVIOUS
    <3> QED BY <1>4, <1>11, <2>1, <3>1, SlotUpto
  <2>4. CASE a = p
    <3>1. Movers(n + 1, K[i] - 1) # {}
      BY <1>2, <1>7, <2>2, <2>4
    <3> QED BY <2>3, <2>4, <3>1
  <2>5. CASE a # p
    <3>1. Movers(n + 1, K[i] - 1) = Movers(n, L[a] - 1)
      BY <1>2, <1>7, <2>2, <2>5
    <3> QED BY <1>8, <2>2, <2>3, <2>5, <3>1
  <2> QED BY <2>4, <2>5
<1>15. Movers(n + 1, K[r] - 1) # {}
  BY <1>1, <1>2, <1>12
<1>16. Reached(K, n + 1, r)
  BY <1>14, <1>15 DEF Reached
<1> QED BY <1>10, <1>12, <1>13, <1>16

(* The arguments before the one being handled. *)
LEMMA ArgBefore ==
  ASSUME Basic, Editing
  PROVE  /\ Fixed /\ argn \in Nat /\ argn - 1 \in Nat /\ (argn - 1) + 1 = argn /\ argn \in Args
         /\ Arg = cmd.files[(argn - 1) + 1]
<1>1. Fixed /\ argn \in Nat /\ argn > 0
  BY DEF Basic, Shape
<1>2. argn \in Args
  BY ArgIsArg
<1>3. argn - 1 \in Nat /\ (argn - 1) + 1 = argn
  BY <1>1
<1> QED BY <1>1, <1>2, <1>3 DEF Arg

(* The member an argument stands for is on the list, and the first there    *)
(* that matches: one that was moved before it would match an argument that  *)
(* stands for the same member.                                              *)
LEMMA FoundMoved ==
  ASSUME Basic, Editing, Moving, NEW L, MoveWith(L), NEW f, f = FirstMatch(Arg)
  PROVE  \E p \in 2..Old : L[p] = f + 1 /\ L[p] - 1 = f /\ find_mapelt(Mapstart, Arg) = L[p]
<1>1. /\ Fixed /\ argn \in Nat /\ argn - 1 \in Nat /\ (argn - 1) + 1 = argn /\ argn \in Args
      /\ Pointers /\ name[1] = NoName
  BY ArgBefore DEF Basic, Shape, Elems, Live, Editing
<1>2. PICK n \in Nat : n = argn - 1 /\ n + 1 = argn /\ Arg = cmd.files[n + 1]
  BY <1>1 DEF Arg
<1>3. PICK c \in Nat : c = Old /\ c = Len(arch) + 1 /\ Len(arch) \in Nat
  BY <1>1, ArchFacts DEF Old
<1>4. c \in 1..Len(next)
  <2>1. Count = c /\ symdef = 0
    BY <1>3 DEF MoveWith, Editing, Basic, Progress
  <2>2. Len(next) = c
    BY <2>1 DEF Count, Made
  <2> QED BY <1>3, <2>2
<1>5. /\ IsList(L, next, c) /\ Follows(L, n)
      /\ \A e \in 2..c : name[e] = arch[e - 1].name
  BY <1>2, <1>3 DEF MoveWith
<1>6. /\ L[1] = Mapstart /\ 1 \in 1..c /\ \A i \in 1..c : L[i] \in 1..c
      /\ \A e \in 1..c : \E i \in 1..c : L[i] = e
      /\ \A i, j \in 1..c : L[i] = L[j] => i = j
  <2>1. OnList(L, c) /\ EachOnce(L, c)
    BY <1>5 DEF IsList
  <2>2. c > 0 /\ L[1] = Mapstart /\ \A i \in 1..c : L[i] \in 1..c
    BY <2>1 DEF OnList
  <2> QED BY <2>1, <2>2 DEF EachOnce
<1>7. /\ f \in 1..Len(arch) /\ Matches(arch[f].name, Arg)
      /\ \A k \in 1..Len(arch) : Matches(arch[k].name, Arg) => f <= k
  <2>1. f # 0
    BY <1>1, <1>2 DEF Moving, Movable
  <2> QED BY <1>1, <2>1, FirstMatchIs
<1>8. PICK j \in 1..c : L[j] = f + 1
  <2>1. f + 1 \in 1..c
    BY <1>3, <1>7
  <2> QED BY <1>6, <2>1
<1>9. Matches(name[L[j]], Arg) /\ j # 1
  <2>1. f + 1 \in 2..c /\ (f + 1) - 1 = f
    BY <1>3, <1>7
  <2>2. name[f + 1] = arch[f].name
    BY <1>5, <2>1
  <2>3. f + 1 # 1
    BY <1>7
  <2>4. j # 1
    BY <1>6, <1>8, <2>3 DEF Mapstart
  <2> QED BY <1>7, <1>8, <2>2, <2>4
<1>10. PICK i \in 1..c : /\ find_mapelt(Mapstart, Arg) = L[i] /\ Matches(name[L[i]], Arg)
                         /\ \A b \in 1..(i - 1) : ~Matches(name[L[b]], Arg)
  BY <1>1, <1>4, <1>5, <1>6, <1>9, FindInList
<1>11. L[i] \in 2..c /\ i # 1
  <2>1. L[i] # 1
    BY <1>1, <1>10 DEF Matches
  <2> QED BY <1>6, <2>1 DEF Mapstart
<1>12. PICK k \in 1..Len(arch) : k = L[i] - 1
  BY <1>3, <1>11
<1>13. name[L[i]] = arch[k].name /\ Matches(arch[k].name, Arg) /\ f <= k
  <2>1. name[L[i]] = arch[k].name
    BY <1>5, <1>11, <1>12
  <2> QED BY <1>7, <1>10, <2>1
<1>14. Movers(n, f) = {}
  <2>1. n + 1 \in Args /\ Movable
    BY <1>1, <1>2 DEF Moving
  <2> QED BY <1>1, <1>2, <2>1, MoversGrow
<1>15. Movers(n, k) # {} => k = f
  <2> SUFFICES ASSUME Movers(n, k) # {} PROVE k = f
    OBVIOUS
  <2>1. PICK a \in Args : a <= n /\ FirstMatch(cmd.files[a]) = k
    BY DEF Movers
  <2>2. Matches(arch[k].name, cmd.files[a])
    <3>1. FirstMatch(cmd.files[a]) # 0
      BY <1>3, <1>12, <2>1
    <3> QED BY <1>1, <2>1, <3>1, FirstMatchIs
  <2>3. arch[k].name.pre = cmd.files[a].pre /\ arch[k].name.pre = Arg.pre
    BY <1>1, <1>13, <2>2, MatchStored
  <2>4. FirstMatch(cmd.files[a]) = FirstMatch(Arg)
    BY <1>1, <2>3, SameFirst
  <2> QED BY <2>1, <2>4
<1>16. i = j
  <2>1. ~(j < i)
    <3>1. j < i => j \in 1..(i - 1)
      OBVIOUS
    <3> QED BY <1>9, <1>10, <3>1
  <2>2. ~(i < j)
    <3> SUFFICES ASSUME i < j PROVE FALSE
      OBVIOUS
    <3>1. i \in 2..c /\ j \in 2..c /\ L[j] - 1 = f
      BY <1>7, <1>8, <1>9, <1>11
    <3>2. Before(n, k, f)
      BY <1>3, <1>5, <1>12, <3>1 DEF Follows
    <3>3. k # f
      <4>1. k = f => L[i] = f + 1
        BY <1>3, <1>11, <1>12
      <4>2. L[i] = L[j] => i = j
        BY <1>6
      <4> QED BY <1>8, <4>1, <4>2
    <3>4. Movers(n, k) = {}
      BY <1>15, <3>3
    <3>5. k < f
      BY <1>14, <3>2, <3>4 DEF Before
    <3> QED BY <1>3, <1>7, <1>13, <3>5
  <2> QED BY <2>1, <2>2
<1>17. j \in 2..c /\ L[j] - 1 = f
  BY <1>7, <1>8, <1>9
<1> QED BY <1>3, <1>8, <1>10, <1>16, <1>17

(* Movable and Place depend on the command line and the archive only. *)
LEMMA MovableStays ==
  ASSUME UNCHANGED <<cmd, arch>>
  PROVE  /\ Movable' = Movable /\ Place' = Place /\ Old' = Old /\ Args' = Args
         /\ \A n, k : Movers(n, k)' = Movers(n, k)
         /\ \A L, n : Follows(L, n)' <=> Follows(L, n)
         /\ \A L, n, q : Reached(L, n, q)' <=> Reached(L, n, q)
<1>1. \A n : FirstMatch(n)' = FirstMatch(n)
  BY DEF FirstMatch
<1>2. Place' = Place /\ Old' = Old /\ Args' = Args
  BY <1>1 DEF Place, Old, Args
<1>3. Movable' = Movable
  BY <1>1, <1>2 DEF Movable
<1>4. \A n, k : Movers(n, k)' = Movers(n, k)
  BY <1>1, <1>2 DEF Movers
<1>5. \A n, k, l : Before(n, k, l)' <=> Before(n, k, l)
  BY <1>2, <1>4 DEF Before
<1>6. \A L, n : Follows(L, n)' <=> Follows(L, n)
  BY <1>2, <1>5 DEF Follows
<1>7. \A L, n, q : Reached(L, n, q)' <=> Reached(L, n, q)
  BY <1>2, <1>4 DEF Reached
<1> QED BY <1>2, <1>3, <1>4, <1>6, <1>7

(* move_in_map. *)
LEMMA MoveMoves ==
  ASSUME Basic, MoveInv, MoveArg
  PROVE  MoveInv'
<1>1. /\ Editing /\ cmd.op = "m" /\ argn' = argn + 1
      /\ UNCHANGED <<pc, cmd, arch, name, src, map, out, symdef>>
  BY DEF MoveArg, envVars, idxVars
<1>2. Movable' = Movable /\ Place' = Place /\ Old' = Old
  BY <1>1, MovableStays
<1> SUFFICES ASSUME Moving PROVE (\E L : MoveWith(L))'
  BY <1>1, <1>2 DEF MoveInv, Moving
<1>3. PICK L : MoveWith(L)
  BY DEF MoveInv
<1>4. /\ Fixed /\ Movable /\ argn \in Nat /\ argn - 1 \in Nat /\ (argn - 1) + 1 = argn
      /\ argn \in Args /\ pc = "edit" /\ symdef = 0 /\ Pointers
  BY <1>1, ArgBefore DEF Basic, Progress, Shape, Editing, Moving
<1>5. PICK n \in Nat : n = argn - 1 /\ n + 1 = argn /\ n = argn' - 2 /\ n + 1 = argn' - 1
                       /\ Arg = cmd.files[n + 1]
  BY <1>1, <1>4 DEF Arg
<1>6. PICK c \in Nat : /\ c = Old /\ c = Count /\ c = Len(next) /\ c = Len(arch) + 1
                       /\ next \in [1..c -> 0..c] /\ IsList(L, next, c) /\ Follows(L, n)
  <2>1. Old \in Nat /\ Old = Len(arch) + 1
    BY <1>4, ArchFacts DEF Old
  <2>2. Count = Len(next) /\ Count = Old
    BY <1>3, <1>4 DEF Count, Made, MoveWith
  <2>3. next \in [1..Len(next) -> 0..Len(next)]
    BY <1>4 DEF Pointers
  <2>4. IsList(L, next, Old) /\ Follows(L, n)
    BY <1>3, <1>5 DEF MoveWith
  <2> QED BY <2>1, <2>2, <2>3, <2>4
<1>7. PICK q \in 2..c : after = L[q] /\ Reached(L, n, q)
  BY <1>3, <1>4, <1>5, <1>6 DEF MoveWith
<1>8. PICK f : f = FirstMatch(Arg)
  OBVIOUS
<1>9. PICK p \in 2..c : L[p] = f + 1 /\ L[p] - 1 = f /\ find_mapelt(Mapstart, Arg) = L[p]
  BY <1>1, <1>3, <1>6, <1>8, FoundMoved
<1>10. p # q
  <2>1. Movers(n, f) = {}
    BY <1>4, <1>5, <1>8, MoversGrow
  <2>2. f # Place
    BY <1>4, <1>5, <1>8 DEF Movable
  <2> QED BY <1>7, <1>9, <2>1, <2>2 DEF Reached
<1>11. PICK K : K = Rearranged(L, c, p, q)
  OBVIOUS
<1>12. OnList(L, c) /\ EachOnce(L, c) /\ q \in 1..c /\ p \in 1..c /\ p - 1 \in 1..c
       /\ \A i \in 1..c : L[i] \in 1..c
  BY <1>6 DEF IsList, OnList
<1>13. Place \in Int
  BY <1>4, PlaceType
<1>14. /\ Follows(K, n + 1)
       /\ \E r \in 2..c : K[r] = L[p] /\ Reached(K, n + 1, r)
  <2>1. n + 1 \in Args /\ L[p] - 1 = FirstMatch(cmd.files[n + 1]) /\ c = Old /\ Follows(L, n)
    BY <1>4, <1>5, <1>6, <1>8, <1>9
  <2>2. Fixed /\ Movable /\ Reached(L, n, q) /\ OnList(L, c) /\ EachOnce(L, c)
    BY <1>4, <1>7, <1>12
  <2> QED BY <1>10, <1>11, <1>13, <2>1, <2>2, RearrangedFollows
<1>15. IsList(K, Relinked(next, L, p, q), c)
  BY <1>6, <1>10, <1>11, <1>12, RearrangedList
<1>16. next' = Relinked(next, L, p, q) /\ after' = L[p]
  <2>1. PICK this : this = L[p] /\ this # 0 /\ find_mapelt(Mapstart, Arg) = this
    BY <1>9, <1>12
  <2>2. prev_mapelt(Mapstart, this) = L[p - 1]
    BY <1>4, <1>6, <1>12, <2>1, PrevInList
  <2>3. PICK n1 : n1 = [next EXCEPT ![L[p - 1]] = next[this]]
    OBVIOUS
  <2>4. PICK n2 : n2 = [n1 EXCEPT ![this] = n1[after]]
    OBVIOUS
  <2>5. PICK n3 : n3 = [n2 EXCEPT ![after] = this]
    OBVIOUS
  <2>6. next' = n3 /\ after' = n3[after]
    BY <2>1, <2>2, <2>3, <2>4, <2>5 DEF MoveArg
  <2>7. n3 = Relinked(next, L, p, q)
    BY <1>7, <2>1, <2>3, <2>4, <2>5 DEF Relinked, Unlinked
  <2>8. n3[after] = this
    <3>1. DOMAIN n2 = 1..c /\ after \in 1..c
      BY <1>6, <1>7, <1>12, <2>3, <2>4
    <3> QED BY <2>5, <3>1
  <2> QED BY <2>1, <2>6, <2>7, <2>8
<1>17. Count' = c /\ symdef' = 0
  <2>1. DOMAIN Relinked(next, L, p, q) = 1..c
    BY <1>6 DEF Relinked, Unlinked
  <2>2. Basic'
    BY MoveBasic
  <2>3. Len(next') = c
    BY <1>6, <1>16, <2>1, <2>2 DEF Basic, Shape, Pointers
  <2> QED BY <1>1, <1>4, <2>3 DEF Count, Made
<1>18. MoveWith(K)'
  <2>1. Follows(K, argn - 1)' /\ \E r \in 2..c : after' = K[r] /\ Reached(K, argn - 1, r)'
    BY <1>1, <1>5, <1>14, <1>16, MovableStays
  <2>2. (\A e \in 2..Old : name[e] = arch[e - 1].name)' /\ map' = 2 /\ Place' \in 1..Len(arch')
    BY <1>1, <1>2, <1>3 DEF MoveWith
  <2>3. Copying(K)'
    BY <1>1, <1>4 DEF Copying, Written
  <2>4. ~Made'
    BY <1>17 DEF Made
  <2>5. Count' = Old' /\ IsList(K, next', Old') /\ Old' = c
    BY <1>2, <1>6, <1>15, <1>16, <1>17
  <2> QED BY <2>1, <2>2, <2>3, <2>4, <2>5 DEF MoveWith
<1> QED BY <1>18

(* FindPosition sets after to the member to move next to, in the map that   *)
(* make_map made.                                                           *)
LEMMA PositionMoves ==
  ASSUME Basic, FindPosition
  PROVE  MoveInv'
<1> SUFFICES ASSUME Moving' PROVE (\E L : MoveWith(L))'
  BY DEF MoveInv
<1>1. /\ pc = "position" /\ PositionElt # 0 /\ after' = PositionElt /\ pc' = "edit"
      /\ UNCHANGED <<next, name, map, argn, cmd, arch, symdef>>
  BY DEF FindPosition, Exit, Moving, envVars, eltVars, idxVars
<1>2. /\ Fixed /\ Len(next) = Old /\ symdef' = 0 /\ argn' - 1 = 0
      /\ \A e \in 1..Old : next[e] = (IF e = Old THEN 0 ELSE e + 1)
      /\ \A e \in 2..Old : name[e] = arch[e - 1].name
      /\ map = (IF Old = 1 THEN 0 ELSE 2)
  BY <1>1 DEF Basic, JustMade, Progress
<1>3. Movable /\ Place' = Place /\ Old' = Old
  BY <1>1, MovableStays DEF Moving
<1>4. Place \in 1..Len(arch) /\ PositionElt = Place + 1 /\ Len(arch) \in Nat
  <2>1. PositionElt = Place + 1 /\ Place \in 0..Len(arch)
    BY <1>1, PositionIsPlace
  <2>2. Place # 0
    BY <1>3 DEF Movable
  <2>3. Len(arch) \in Nat
    BY <1>2, ArchFacts
  <2> QED BY <2>1, <2>2, <2>3
<1>5. PICK c \in Nat : c = Old /\ c = Len(arch) + 1 /\ c > 1
  BY <1>4 DEF Old
<1>6. PICK L : L = Straight(c)
  OBVIOUS
<1>7. IsList(L, next, c) /\ \A i \in 1..c : L[i] = i
  BY <1>2, <1>5, <1>6, StraightList DEF Straight
<1>8. \A k : Movers(0, k) = {}
  <2>1. Args = 1..Len(cmd.files) /\ Len(cmd.files) \in Nat
    BY <1>2, CommandFacts
  <2>2. \A a \in Args : ~(a <= 0)
    BY <2>1
  <2> QED BY <2>2 DEF Movers
<1>9. Follows(L, 0)
  <2>1. ASSUME NEW i \in 2..c, NEW j \in 2..c, i < j PROVE Before(0, L[i] - 1, L[j] - 1)
    <3>1. L[i] - 1 < L[j] - 1
      BY <1>7, <2>1
    <3> QED BY <1>8, <3>1 DEF Before
  <2> QED BY <1>5, <2>1 DEF Follows
<1>10. PICK q \in 2..c : q = Place + 1 /\ after' = L[q] /\ L[q] - 1 = Place
  BY <1>1, <1>4, <1>5, <1>7
<1>11. Reached(L, 0, q)
  <2>1. ASSUME NEW i \in 2..c PROVE i <= q <=> L[i] - 1 <= Place
    <3>1. L[i] = i
      BY <1>7
    <3> QED BY <1>4, <1>10, <3>1
  <2> QED BY <1>5, <1>8, <1>10, <2>1 DEF Reached
<1>12. Follows(L, argn - 1)' /\ Reached(L, argn - 1, q)'
  BY <1>1, <1>2, <1>9, <1>11, MovableStays
<1>13. Copying(L)'
  BY <1>1 DEF Copying, Written
<1>14. ~Made' /\ Count' = c
  BY <1>1, <1>2, <1>5 DEF Made, Count
<1>15. /\ (\A e \in 2..Old : name[e] = arch[e - 1].name)'
       /\ map' = 2 /\ Place' \in 1..Len(arch')
  BY <1>1, <1>2, <1>3, <1>4, <1>5
<1>16. Old' = c /\ IsList(L, next', c)
  BY <1>1, <1>3, <1>5, <1>7
<1>17. MoveWith(L)'
  BY <1>10, <1>12, <1>13, <1>14, <1>15, <1>16 DEF MoveWith
<1> QED BY <1>17

(* The first member is never moved: the map that m writes begins where the  *)
(* list does.                                                               *)
LEMMA FirstStays ==
  ASSUME Basic, Moving, NEW L, MoveWith(L)
  PROVE  WriteFrom = next[1]
<1>1. Fixed /\ Place \in 1..Len(arch) /\ Follows(L, argn - 1) /\ map = 2 /\ IsList(L, next, Old)
  BY DEF Basic, MoveWith
<1>2. PICK c \in Nat : c = Old /\ c > 1
  BY <1>1, ArchFacts DEF Old
<1>3. /\ \A i \in 1..c : L[i] \in 1..c
      /\ \A i, j \in 1..c : L[i] = L[j] => i = j
      /\ \A e \in 1..c : \E i \in 1..c : L[i] = e
      /\ L[1] = 1
  BY <1>1, <1>2 DEF IsList, OnList, EachOnce, Mapstart
<1>4. 1 \in 1..c /\ 2 \in 1..c /\ 2 \in 2..c
  BY <1>2
<1>5. PICK j \in 1..c : L[j] = 2
  BY <1>3, <1>4
<1>6. j \in 2..c
  BY <1>3, <1>5
<1>7. Movers(argn - 1, 1) = {}
  BY DEF Movers, Moving, Movable
<1>8. ~(2 < j)
  <2> SUFFICES ASSUME 2 < j PROVE FALSE
    OBVIOUS
  <2>1. PICK k : k = L[2] - 1
    OBVIOUS
  <2>2. L[j] - 1 = 1
    BY <1>5
  <2>3. Before(argn - 1, k, 1)
    BY <1>1, <1>2, <1>4, <1>6, <2>1, <2>2 DEF Follows
  <2>4. k \in Nat /\ k > 0
    <3>1. L[2] # L[1]
      BY <1>3, <1>4
    <3> QED BY <1>3, <1>4, <2>1, <3>1
  <2>5. ~(1 > Place) /\ ~(k < 1)
    BY <1>1, <2>4
  <2> QED BY <1>7, <2>3, <2>5 DEF Before
<1>9. L[2] = 2
  BY <1>5, <1>6, <1>8
<1>10. next[1] = 2
  BY <1>1, <1>2, <1>9, SecondElement
<1> QED BY <1>1, <1>10 DEF WriteFrom, Moving

(* What a step must leave alone to keep the order once the edits are done. *)
LEMMA MoveStays ==
  ASSUME NEW L, MoveWith(L), UNCHANGED <<arch, cmd, argn, map>>, Count' = Count,
         IsList(L, next', Count), \A e \in 1..Count : name'[e] = name[e],
         pc' = "edit" => pc = "edit" /\ after' = after,
         Made' => next'[symdef'] = next'[1], Copying(L)'
  PROVE  MoveWith(L)'
<1>1. Place' = Place /\ Old' = Old
  BY MovableStays
<1>2. /\ Count = Old /\ \A e \in 2..Old : name[e] = arch[e - 1].name
      /\ map = 2 /\ Place \in 1..Len(arch) /\ Follows(L, argn - 1)
      /\ pc = "edit" => \E q \in 2..Old : after = L[q] /\ Reached(L, argn - 1, q)
  BY DEF MoveWith
<1>3. Count' = Old' /\ IsList(L, next', Old')
  BY <1>1, <1>2
<1>4. (\A e \in 2..Old : name[e] = arch[e - 1].name)'
  <2>1. \A e \in 2..Old : e \in 1..Old
    OBVIOUS
  <2> QED BY <1>1, <1>2, <2>1
<1>5. Follows(L, argn - 1)'
  BY <1>2, MovableStays
<1>6. (pc = "edit" => \E q \in 2..Old : after = L[q] /\ Reached(L, argn - 1, q))'
  BY <1>1, <1>2, MovableStays
<1> QED BY <1>1, <1>2, <1>3, <1>4, <1>5, <1>6 DEF MoveWith

(* The steps after the edits, and the ones around them. *)
LEMMA AfterMoves ==
  ASSUME Basic, MoveInv, EndEdit \/ MakeIndex \/ CopyOut \/ Install \/ Vanish \/ UNCHANGED vars
  PROVE  MoveInv'
<1>1. UNCHANGED <<cmd, arch, argn, map>>
  BY DEF EndEdit, MakeIndex, CopyOut, Install, Vanish, vars, envVars
<1>2. Movable' = Movable
  BY <1>1, MovableStays
<1> SUFFICES ASSUME Moving' PROVE (\E L : MoveWith(L))'
  BY DEF MoveInv
<1>3. Moving /\ Live /\ Live'
  BY <1>1, <1>2 DEF Moving, Live, EndEdit, MakeIndex, CopyOut, Install, Vanish, vars
<1>4. PICK L : MoveWith(L)
  BY <1>3 DEF MoveInv
<1>5. /\ IsList(L, next, Count) /\ Copying(L) /\ WriteFrom = next[1]
      /\ Made => next[symdef] = next[1]
  BY <1>3, <1>4, FirstStays DEF MoveWith
<1>6. CASE EndEdit
  <2>1. Copying(L)'
    BY <1>5, <1>6, EndEditCopies
  <2>2. UNCHANGED <<next, name, src, symdef>> /\ pc' # "edit"
    BY <1>6 DEF EndEdit, eltVars, idxVars
  <2>3. Count' = Count /\ (Made' <=> Made)
    BY <2>2 DEF Count, Made
  <2> QED BY <1>1, <1>4, <1>5, <2>1, <2>2, <2>3, MoveStays
<1>7. CASE MakeIndex
  <2>1. tail = next[1]
    BY <1>5, <1>7 DEF MakeIndex, Basic, Progress
  <2> QED BY <1>1, <1>3, <1>4, <1>5, <1>7, <2>1, MakeIndexCopies, MoveStays
<1>8. CASE CopyOut
  <2>1. Copying(L)'
    BY <1>3, <1>5, <1>8, CopyOutCopies
  <2>2. UNCHANGED <<next, name, src, symdef>> /\ pc' # "edit"
    BY <1>8 DEF CopyOut, eltVars, idxVars
  <2>3. Count' = Count /\ (Made' <=> Made)
    BY <2>2 DEF Count, Made
  <2> QED BY <1>1, <1>4, <1>5, <2>1, <2>2, <2>3, MoveStays
<1>9. CASE Install \/ Vanish \/ UNCHANGED vars
  <2>1. /\ Copying(L)' /\ Count' = Count /\ (Made' <=> Made)
        /\ UNCHANGED <<next, name, symdef, after>>
        /\ pc' = pc \/ (pc = "install" /\ pc' = "done")
    BY <1>5, <1>9, StillCopies
  <2> QED BY <1>1, <1>4, <1>5, <2>1, MoveStays
<1> QED BY <1>6, <1>7, <1>8, <1>9

(* Every step keeps the members that m moves in order. *)
LEMMA NextMoves ==
  ASSUME Basic, MoveInv, [Next]_vars
  PROVE  MoveInv'
<1>1. CASE Start
  BY <1>1 DEF Start, Exit, MoveInv, Moving, envVars
<1>2. CASE DeleteArg \/ SkipArg \/ InsertArg
  BY <1>2 DEF DeleteArg, SkipArg, InsertArg, MoveInv, Moving, envVars
<1> QED BY <1>1, <1>2, PositionMoves, MoveMoves, AfterMoves DEF Next, Step, Finished

(* The invariant gives MoveMiddle. *)
LEMMA InvMoves ==
  ASSUME Basic, MoveInv
  PROVE  MoveMiddle
<1> SUFFICES ASSUME Written, cmd.op = "m", Movable PROVE MoveMiddle
  BY DEF MoveMiddle
<1>1. pc = "done" /\ Moving /\ Live
  BY DEF Written, Moving, Live
<1>2. PICK L : MoveWith(L)
  BY <1>1 DEF MoveInv
<1>3. /\ Fixed /\ argn \in Nat /\ argn > Len(cmd.files) /\ Sourced /\ Len(next) \in Nat
      /\ Len(out) \in Nat /\ DOMAIN out = 1..Len(out)
  <2>1. Len(out) \in Nat /\ out = [i \in 1..Len(out) |-> out[i]]
    BY DEF Basic, Shape
  <2>2. DOMAIN out = 1..Len(out)
    BY <2>1
  <2> QED BY <1>1, <2>1, <2>2 DEF Basic, Shape, Pointers, Progress, Elems
<1>4. PICK c \in Nat : /\ c = Old /\ c = Count /\ c = Len(arch) + 1 /\ Len(arch) \in Nat
                       /\ c <= Len(next) /\ DOMAIN arch = 1..Len(arch)
  <2>1. Old = Len(arch) + 1 /\ Len(arch) \in Nat /\ DOMAIN arch = 1..Len(arch)
    BY <1>3, ArchFacts DEF Old
  <2>2. Count = Old /\ (Count = Len(next) \/ Count = Len(next) - 1)
    BY <1>2 DEF MoveWith, Count
  <2> QED BY <1>3, <2>1, <2>2
<1>5. /\ IsList(L, next, c) /\ Follows(L, argn - 1)
      /\ \A e \in 2..c : name[e] = arch[e - 1].name
  BY <1>2, <1>4 DEF MoveWith
<1>6. \A e \in 1..c : src[e] = e - 1
  <2>1. \A e \in 1..Len(next) : src[e] = IF e <= c THEN e - 1 ELSE 0
    BY <1>3, <1>4 DEF Sourced
  <2>2. \A e \in 1..c : e \in 1..Len(next) /\ e <= c
    BY <1>3, <1>4
  <2> QED BY <2>1, <2>2
<1>7. /\ \A i \in 1..c : L[i] \in 1..c
      /\ \A i, j \in 1..c : L[i] = L[j] => i = j
      /\ \A e \in 1..c : \E i \in 1..c : L[i] = e
      /\ L[1] = 1 /\ c > 0
  BY <1>5 DEF IsList, OnList, EachOnce, Mapstart
<1>8. PICK w : TraceBy(L, c + 1, w)
  <2>1. Copying(L)
    BY <1>2 DEF MoveWith
  <2> QED BY <1>4, <2>1 DEF Copying, Trace
<1>9. ASSUME NEW i \in 1..Len(out)
      PROVE  /\ w[i] \in 1..c /\ out[i].src = L[w[i]] - 1
             /\ w[i] = 1 => out[i].from = Symdef /\ out[i].src = 0
             /\ w[i] # 1 => w[i] \in 2..c /\ out[i].src > 0
  <2>1. w[i] \in 1..c /\ Wrote(L, w, i)
    BY <1>4, <1>8 DEF TraceBy
  <2>2. PICK p \in 1..c : p = w[i]
    BY <2>1
  <2>3. PICK e \in 1..c : e = L[p] /\ out[i].src = e - 1
    <3>1. L[p] \in 1..c /\ out[i].src = src[L[p]]
      BY <1>7, <2>1, <2>2 DEF Wrote
    <3> QED BY <1>6, <3>1
  <2>4. p = 1 => e = 1 /\ out[i].from = Symdef
    BY <1>7, <2>1, <2>2, <2>3 DEF Wrote
  <2>5. p # 1 => e # 1
    <3>1. 1 \in 1..c
      BY <1>7
    <3> QED BY <1>7, <2>3, <3>1
  <2> QED BY <2>1, <2>2, <2>3, <2>4, <2>5
<1>10. ASSUME NEW k \in DOMAIN arch PROVE k \in Sources
  <2>1. k \in 1..Len(arch) /\ k + 1 \in 2..c /\ k + 1 \in 1..c /\ (k + 1) - 1 = k /\ k # 0
    BY <1>4
  <2>2. PICK p \in 1..c : L[p] = k + 1
    BY <1>7, <2>1
  <2>3. p \in 2..((c + 1) - 1)
    <3>1. k + 1 # 1
      BY <2>1
    <3>2. p # 1
      BY <1>7, <2>2, <3>1
    <3> QED BY <3>2
  <2>4. Kept(L[p])
    <3>1. name[k + 1] # NoName
      BY <1>3, <1>5, <2>1, ArchFacts
    <3>2. src[k + 1] # 0
      BY <1>6, <2>1
    <3> QED BY <2>2, <3>1, <3>2 DEF Kept
  <2>5. PICK i \in 1..Len(out) : w[i] = p
    BY <1>8, <2>3, <2>4 DEF TraceBy, Found
  <2>6. out[i].src = k
    BY <1>9, <2>1, <2>2, <2>5
  <2> QED BY <1>3, <2>6 DEF Sources
<1>11. ASSUME NEW i \in DOMAIN out PROVE out[i].src > 0 \/ out[i].from = Symdef
  BY <1>3, <1>9
<1>12. \A k : Movers(argn - 1, k) = Movers(Len(cmd.files), k)
  <2>1. Args = 1..Len(cmd.files) /\ Len(cmd.files) \in Nat
    BY <1>3, CommandFacts
  <2>2. \A a \in Args : a <= argn - 1 /\ a <= Len(cmd.files)
    BY <1>3, <2>1
  <2> QED BY <2>2 DEF Movers
<1>13. ASSUME NEW i \in DOMAIN out, NEW j \in DOMAIN out,
              i < j /\ out[i].src > 0 /\ out[j].src > 0
       PROVE  Before(Len(cmd.files), out[i].src, out[j].src)
  <2>1. i \in 1..Len(out) /\ j \in 1..Len(out)
    BY <1>3
  <2>2. w[i] \in 2..c /\ w[j] \in 2..c /\ out[i].src = L[w[i]] - 1 /\ out[j].src = L[w[j]] - 1
    BY <1>9, <1>13, <2>1
  <2>3. w[i] < w[j]
    BY <1>8, <1>13, <2>1 DEF TraceBy, Rising
  <2>4. Before(argn - 1, out[i].src, out[j].src)
    BY <1>4, <1>5, <2>2, <2>3 DEF Follows
  <2> QED BY <1>12, <2>4 DEF Before
<1> QED BY <1>10, <1>11, <1>13 DEF MoveMiddle

(* Nothing is moved before the map is made. *)
LEMMA InitMoves == Init => MoveInv
BY DEF Init, MoveInv, Moving
-----------------------------------------------------------------------------
(* The invariant: types, list, names, and the order that m makes. *)
MapInv == Basic /\ ListInv /\ NamesInv /\ MoveInv
(* The invariant is inductive. *)
LEMMA MapInvHolds == Spec => []MapInv
<1>1. Init => MapInv
  BY InitBasic, InitList, InitNames, InitMoves DEF MapInv
<1>2. MapInv /\ [Next]_vars => MapInv'
  BY NextBasic, NextList, NextNames, NextMoves DEF MapInv
<1> QED BY <1>1, <1>2, PTL DEF Spec

(* The pointers of the member map name elements, and d, r and q keep it one *)
(* list from mapstart to null that holds every element, whatever archive    *)
(* and command line, and whatever files vanish (make_map, insert_in_map,    *)
(* delete_from_map, write_archive).                                         *)
THEOREM MapTypeInvariant == Spec => []TypeOK
<1>1. MapInv => TypeOK
  BY InvType DEF MapInv
<1> QED BY <1>1, MapInvHolds, PTL

(* Whatever archive, command line and files, d and r take out the members   *)
(* the arguments ask for and no others, and keep the others in their order, *)
(* even when files vanish (delete_from_map, insert_in_map, write_archive,   *)
(* copy_out_member).                                                        *)
THEOREM MapOthersKept == Spec => []OthersKept
<1>1. MapInv => OthersKept
  BY InvOthers DEF MapInv
<1> QED BY <1>1, MapInvHolds, PTL

(* Whatever archive, command line and files, the files r inserts stand      *)
(* together at the place asked for, and none of those still on disk is      *)
(* missing (replace_members, insert_in_map, write_archive).                 *)
THEOREM MapFilesPlaced == Spec => []FilesPlaced
<1>1. MapInv => FilesPlaced
  BY InvPlaced DEF MapInv
<1> QED BY <1>1, MapInvHolds, PTL

(* Whatever archive and command line, m asked to move members in the middle *)
(* loses none, adds nothing but an index, and puts them in the order of the *)
(* command line behind the member asked for (move_members, move_in_map,     *)
(* write_archive).                                                          *)
THEOREM MapMoveMiddle == Spec => []MoveMiddle
<1>1. MapInv => MoveMiddle
  BY InvMoves DEF MapInv
<1> QED BY <1>1, MapInvHolds, PTL
=============================================================================
