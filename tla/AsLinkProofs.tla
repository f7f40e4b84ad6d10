---------------------------- MODULE AsLinkProofs ----------------------------
(***************************************************************************)
(* Theorems about the assembler and the linker that reads what it writes   *)
(* (AsPasses, AsLink): conditionals nest, types, and the values that the   *)
(* object header gives.                                                    *)
(***************************************************************************)
EXTENDS AsLink, NatInduct, SequenceTheorems, FiniteSetTheorems

USE DEF last_pass

(***************************************************************************)
(* Conditionals.                                                           *)
(***************************************************************************)
CondEntry == [ifflag : BOOLEAN, elseflag : BOOLEAN]

(* A stacked pair of flags: assembled only inside of assembled ones, and   *)
(* waiting for an ELSE only right inside of an assembled one.              *)
StackNested(stack) ==
  /\ \A i, j \in 1..Len(stack) : i < j /\ stack[i].ifflag => stack[j].ifflag
  /\ \A i \in 1..Len(stack) :
       i < Len(stack) /\ stack[i].elseflag => ~stack[i].ifflag /\ stack[i + 1].ifflag
CondInv ==
  /\ conds.ifflag \in BOOLEAN /\ conds.elseflag \in BOOLEAN /\ conds.stack \in Seq(CondEntry)
  /\ DOMAIN conds = {"ifflag", "elseflag", "stack"}
  /\ StackNested(conds.stack)
  /\ NestedOff

(* How a line can change the flags (doif, pelseif, pelse, pendif), and the *)
(* start of a pass.                                                        *)
CondStep ==
  \/ conds' = conds
  \/ \E off \in BOOLEAN :
       ~(Len(conds.stack) >= MaxIf) /\ (conds.ifflag \/ ~off) /\ conds' = Opened(off)
  \/ \E on \in BOOLEAN : /\ conds.stack # <<>> /\ (on => conds.elseflag)
                         /\ \/ conds' = [conds EXCEPT !.ifflag = on, !.elseflag = @ /\ ~on]
                            \/ conds' = [conds EXCEPT !.ifflag = on, !.elseflag = FALSE]
  \/ /\ conds.stack # <<>>
     /\ conds' = [ifflag |-> conds.stack[1].ifflag, elseflag |-> conds.stack[1].elseflag,
                  stack |-> Tail(conds.stack)]
  \/ conds' = [conds EXCEPT !.ifflag = TRUE, !.stack = <<>>]

(* Every step of the assembler and the linker changes the flags in one of  *)
(* these ways.                                                             *)
LEMMA CondSteps ==
  ASSUME CondInv, [Next]_vars
  PROVE  CondStep
<1>1. CASE If
  <2>1. PICK r \in {Labelled(Line, Fresh)} :
       IF Len(conds.stack) >= MaxIf THEN Switch(Err(r), conds)
       ELSE \E s \in {IF conds.ifflag THEN absexpres(Line.e, r) ELSE r} :
              Switch(s, Opened(conds.ifflag /\ ~Undefined(s) /\ s.x.val = 0))
    BY <1>1, SMTT(40) DEF If
  <2>2. CASE Len(conds.stack) >= MaxIf
    BY <2>1, <2>2, ZenonT(40) DEF Switch, CondStep
  <2>3. CASE ~(Len(conds.stack) >= MaxIf)
    <3>1. PICK s : Switch(s, Opened(conds.ifflag /\ ~Undefined(s) /\ s.x.val = 0))
      BY <2>1, <2>3
    <3>2. conds' = Opened(conds.ifflag /\ ~Undefined(s) /\ s.x.val = 0)
      BY <3>1 DEF Switch
    <3> DEFINE off == conds.ifflag /\ ~Undefined(s) /\ s.x.val = 0
    <3>3. off \in BOOLEAN /\ (conds.ifflag \/ ~off)
      BY DEF CondInv
    <3> QED BY <2>3, <3>2, <3>3 DEF CondStep
  <2> QED BY <2>2, <2>3
<1>2. CASE ElseIf
  <2>1. CASE conds' = conds
    BY <2>1 DEF CondStep
  <2>2. CASE conds' # conds
    <3>1. PICK r : IF conds.stack = <<>> THEN Switch(Err(r), conds)
            ELSE \E s \in {IF conds.elseflag THEN absexpres(Line.e, r) ELSE r} :
                   LET on == conds.elseflag /\ ~Undefined(s) /\ s.x.val # 0
                   IN  Switch(s, [conds EXCEPT !.ifflag = on, !.elseflag = @ /\ ~on])
      BY <1>2, <2>2 DEF ElseIf, srcVars
    <3>2. conds.stack # <<>>
      BY <3>1, <2>2 DEF Switch
    <3>3. PICK s : LET on == conds.elseflag /\ ~Undefined(s) /\ s.x.val # 0
                   IN  Switch(s, [conds EXCEPT !.ifflag = on, !.elseflag = @ /\ ~on])
      BY <3>1, <3>2
    <3> DEFINE on == conds.elseflag /\ ~Undefined(s) /\ s.x.val # 0
    <3>4. on \in BOOLEAN /\ (on => conds.elseflag)
      BY DEF CondInv
    <3>5. conds' = [conds EXCEPT !.ifflag = on, !.elseflag = @ /\ ~on]
      BY <3>3, SMTT(40) DEF Switch
    <3> QED BY <3>2, <3>4, <3>5 DEF CondStep
  <2> QED BY <2>1, <2>2
<1>3. CASE Else
  <2>1. PICK r : IF conds.stack = <<>> THEN Switch(Err(r), conds)
       ELSE Switch(r, [conds EXCEPT !.ifflag = conds.elseflag, !.elseflag = FALSE])
    BY <1>3, SMTT(40) DEF Else
  <2> QED BY <2>1 DEF Switch, CondStep, CondInv
<1>4. CASE EndIf
  <2>1. PICK r : IF conds.stack = <<>> THEN Switch(Err(r), conds)
       ELSE Switch(r, [ifflag |-> conds.stack[1].ifflag, elseflag |-> conds.stack[1].elseflag,
                       stack |-> Tail(conds.stack)])
    BY <1>4 DEF EndIf
  <2> QED BY <2>1 DEF Switch, CondStep
<1>5. CASE EndOfPass
  BY <1>5 DEF EndOfPass, CondStep
<1>6. CASE AsNext /\ ~If /\ ~ElseIf /\ ~Else /\ ~EndIf /\ ~EndOfPass
  <2>1. conds' = conds
    BY <1>6 DEF AsNext, Plain, Fcb, Fdb, Fcc, Rmbs, Blkw, Align, Even, Org, Loc, TextSect, DataSect,
      Equ, Set, Comm, Comm1, Import, Export, Fail, Memory, Immediate, Inherent, Branch, Simple, Block,
      EndB, SkipLine, Macro, LoadLine, Mend, StrayMend, Call, Get, EndOfGet, finishup, srcVars
  <2> QED BY <2>1 DEF CondStep
<1>7. CASE LinkMod
  BY <1>7 DEF LinkMod, Open, SetSize, skip, SetSeg, Absolute, OffsetReloc, SymbolReloc, EndOfText,
    padmod, ObjectKept, srcVars, CondStep
<1>8. CASE UNCHANGED vars
  BY <1>8, SMTT(40) DEF vars, asVars, srcVars, CondStep
<1> QED BY <1>1, <1>2, <1>3, <1>4, <1>5, <1>6, <1>7, <1>8 DEF Next, Assemble

(* They keep the flags nested. *)
LEMMA CondKept ==
  ASSUME CondInv, CondStep
  PROVE  CondInv'
<1>1. CASE conds' = conds
  BY <1>1 DEF CondInv, NestedOff
<1>2. ASSUME NEW off \in BOOLEAN, conds.ifflag \/ ~off, conds' = Opened(off)
      PROVE  CondInv'
  <2> DEFINE e == [ifflag |-> conds.ifflag, elseflag |-> conds.elseflag]
             st == <<e>> \o conds.stack
  <2>1. e \in CondEntry /\ conds.stack \in Seq(CondEntry)
    BY DEF CondInv, CondEntry
  <2>2. /\ st \in Seq(CondEntry) /\ Len(st) = Len(conds.stack) + 1 /\ st[1] = e
        /\ \A i \in 2..Len(st) : st[i] = conds.stack[i - 1]
    BY <2>1
  <2>3. conds' = [ifflag |-> conds.ifflag /\ ~off, elseflag |-> off, stack |-> st]
    BY <1>2 DEF Opened
  <2> HIDE DEF st
  <2>4. \A i \in 1..Len(conds.stack) : conds.ifflag => conds.stack[i].ifflag
    BY DEF CondInv, NestedOff
  <2>5. e.ifflag = conds.ifflag /\ e.elseflag = conds.elseflag
    OBVIOUS
  <2>6. \A i, j \in 1..Len(st) : i < j /\ st[i].ifflag => st[j].ifflag
    <3>1. SUFFICES ASSUME NEW i \in 1..Len(st), NEW j \in 1..Len(st), i < j, st[i].ifflag
                   PROVE  st[j].ifflag
      OBVIOUS
    <3>2. j - 1 \in 1..Len(conds.stack) /\ st[j] = conds.stack[j - 1]
      BY <2>1, <2>2, <3>1
    <3>3. CASE i = 1
      BY <2>2, <2>4, <2>5, <3>1, <3>2, <3>3
    <3>4. CASE i # 1
      <4>1. i - 1 \in 1..Len(conds.stack) /\ st[i] = conds.stack[i - 1] /\ i - 1 < j - 1
        BY <2>1, <2>2, <3>1, <3>4
      <4> QED BY <4>1, <3>1, <3>2 DEF CondInv, StackNested
    <3> QED BY <3>3, <3>4
  <2>7. \A i \in 1..Len(st) : i < Len(st) /\ st[i].elseflag => ~st[i].ifflag /\ st[i + 1].ifflag
    <3>1. SUFFICES ASSUME NEW i \in 1..Len(st), i < Len(st), st[i].elseflag
                   PROVE  ~st[i].ifflag /\ st[i + 1].ifflag
      OBVIOUS
    <3>2. i \in 1..Len(conds.stack) /\ st[i + 1] = conds.stack[i] /\ i + 1 - 1 = i
      BY <2>1, <2>2, <3>1
    <3>3. CASE i = 1
      <4>1. conds.stack # <<>> /\ 1 \in DOMAIN conds.stack
        BY <2>1, <3>2, <3>3
      <4> QED BY <2>2, <2>5, <3>1, <3>2, <3>3, <4>1 DEF CondInv, NestedOff
    <3>4. CASE i # 1
      <4>1. i - 1 \in 1..Len(conds.stack) /\ st[i] = conds.stack[i - 1] /\ i - 1 < Len(conds.stack)
            /\ i - 1 + 1 = i
        BY <2>1, <2>2, <3>1, <3>4
      <4> QED BY <4>1, <3>1, <3>2 DEF CondInv, StackNested
    <3> QED BY <3>3, <3>4
  <2>8. ASSUME conds.ifflag /\ ~off PROVE \A i \in DOMAIN st : st[i].ifflag
    <3>1. DOMAIN st = 1..Len(st) /\ 1 \in 1..Len(st) /\ st[1].ifflag
      BY <2>1, <2>2, <2>5, <2>8
    <3> QED BY <3>1, <2>1, <2>2, <2>4, <2>8
  <2>9. off => ~(conds.ifflag /\ ~off) /\ st[1].ifflag
    BY <1>2, <2>2, <2>5 DEF CondInv
  <2>10. /\ conds'.ifflag = (conds.ifflag /\ ~off) /\ conds'.elseflag = off /\ conds'.stack = st
         /\ DOMAIN conds' = {"ifflag", "elseflag", "stack"}
    BY <2>3
  <2>11. NestedOff'
    BY <2>8, <2>9, <2>10 DEF NestedOff
  <2>12. StackNested(conds'.stack)
    BY <2>6, <2>7, <2>10 DEF StackNested
  <2>13. (conds.ifflag /\ ~off) \in BOOLEAN
    OBVIOUS
  <2> QED BY <1>2, <2>2, <2>10, <2>11, <2>12, <2>13 DEF CondInv
<1>3. ASSUME NEW on \in BOOLEAN, conds.stack # <<>>, on => conds.elseflag,
             \/ conds' = [conds EXCEPT !.ifflag = on, !.elseflag = @ /\ ~on]
             \/ conds' = [conds EXCEPT !.ifflag = on, !.elseflag = FALSE]
      PROVE  CondInv'
  <2>1. /\ DOMAIN conds' = {"ifflag", "elseflag", "stack"} /\ conds'.stack = conds.stack
        /\ conds'.ifflag = on
        /\ conds'.elseflag = (conds.elseflag /\ ~on) \/ conds'.elseflag = FALSE
    BY <1>3 DEF CondInv
  <2>2. on => \A i \in DOMAIN conds.stack : conds.stack[i].ifflag
    <3>1. on => conds.stack[1].ifflag
      BY <1>3 DEF CondInv, NestedOff
    <3>2. DOMAIN conds.stack = 1..Len(conds.stack) /\ Len(conds.stack) \in Nat
          /\ 1 \in 1..Len(conds.stack)
      BY <1>3 DEF CondInv
    <3> QED BY <3>1, <3>2 DEF CondInv, StackNested
  <2> QED BY <1>3, <2>1, <2>2 DEF CondInv, NestedOff
<1>4. ASSUME conds.stack # <<>>,
             conds' = [ifflag |-> conds.stack[1].ifflag, elseflag |-> conds.stack[1].elseflag,
                       stack |-> Tail(conds.stack)]
      PROVE  CondInv'
  <2> DEFINE st == Tail(conds.stack)
  <2>1. /\ st \in Seq(CondEntry) /\ Len(st) = Len(conds.stack) - 1 /\ Len(conds.stack) \in Nat \ {0}
        /\ \A i \in 1..Len(st) : st[i] = conds.stack[i + 1]
    BY <1>4 DEF CondInv
  <2>2. conds.stack[1] \in CondEntry
    BY <1>4, <2>1 DEF CondInv
  <2> HIDE DEF st
  <2>3. \A i, j \in 1..Len(st) : i < j /\ st[i].ifflag => st[j].ifflag
    <3>1. SUFFICES ASSUME NEW i \in 1..Len(st), NEW j \in 1..Len(st), i < j, st[i].ifflag
                   PROVE  st[j].ifflag
      OBVIOUS
    <3>2. /\ i + 1 \in 1..Len(conds.stack) /\ j + 1 \in 1..Len(conds.stack) /\ i + 1 < j + 1
      BY <2>1, <3>1
    <3>3. st[i] = conds.stack[i + 1] /\ st[j] = conds.stack[j + 1]
      BY <2>1, <3>1
    <3> QED BY <3>1, <3>2, <3>3 DEF CondInv, StackNested
  <2>4. \A i \in 1..Len(st) : i < Len(st) /\ st[i].elseflag => ~st[i].ifflag /\ st[i + 1].ifflag
    <3>1. \A i \in 1..Len(st) : i < Len(st) => i + 1 \in 1..Len(conds.stack) /\ i + 1 < Len(conds.stack)
                                               /\ i + 1 \in 1..Len(st)
      BY <2>1
    <3> QED BY <2>1, <3>1 DEF CondInv, StackNested
  <2>5. conds.stack[1].ifflag => \A i \in DOMAIN st : st[i].ifflag
    <3>1. DOMAIN st = 1..Len(st) /\ 1 \in 1..Len(conds.stack)
          /\ \A i \in 1..Len(st) : i + 1 \in 1..Len(conds.stack) /\ 1 < i + 1
      BY <2>1
    <3> QED BY <2>1, <3>1 DEF CondInv, StackNested
  <2>6. st # <<>> /\ conds.stack[1].elseflag => ~conds.stack[1].ifflag /\ st[1].ifflag
    <3>1. st # <<>> => 1 < Len(conds.stack) /\ 1 \in 1..Len(conds.stack) /\ st[1] = conds.stack[1 + 1]
      BY <2>1
    <3> QED BY <3>1 DEF CondInv, StackNested
  <2>7. conds' = [ifflag |-> conds.stack[1].ifflag, elseflag |-> conds.stack[1].elseflag, stack |-> st]
    BY <1>4 DEF st
  <2> QED BY <2>1, <2>2, <2>3, <2>4, <2>5, <2>6, <2>7 DEF CondInv, NestedOff, StackNested, CondEntry
<1>5. CASE conds' = [conds EXCEPT !.ifflag = TRUE, !.stack = <<>>]
  BY <1>5, SMTT(40) DEF CondInv, NestedOff, StackNested
<1> QED BY <1>1, <1>2, <1>3, <1>4, <1>5 DEF CondStep

(* No more of them are stacked than the array has room for (doif). *)
LEMMA StackLimit ==
  ASSUME CondInv, CondStep, Len(conds.stack) <= MaxIf
  PROVE  Len(conds'.stack) <= MaxIf
<1>1. MaxIf \in Nat /\ Len(conds.stack) \in Nat
  BY LimitsAssumption DEF CondInv
<1>2. CASE conds' = conds
  BY <1>2
<1>3. ASSUME NEW off \in BOOLEAN, ~(Len(conds.stack) >= MaxIf), conds' = Opened(off)
      PROVE  Len(conds'.stack) <= MaxIf
  <2> DEFINE e == [ifflag |-> conds.ifflag, elseflag |-> conds.elseflag]
  <2>1. conds'.stack = <<e>> \o conds.stack
    BY <1>3 DEF Opened
  <2>2. e \in CondEntry /\ conds.stack \in Seq(CondEntry)
    BY DEF CondInv, CondEntry
  <2>3. Len(<<e>> \o conds.stack) = Len(conds.stack) + 1
    BY <2>2
  <2> QED BY <1>1, <1>3, <2>1, <2>3
<1>4. ASSUME NEW on \in BOOLEAN,
             \/ conds' = [conds EXCEPT !.ifflag = on, !.elseflag = @ /\ ~on]
             \/ conds' = [conds EXCEPT !.ifflag = on, !.elseflag = FALSE]
      PROVE  conds'.stack = conds.stack
  BY <1>4 DEF CondInv
<1>5. ASSUME conds.stack # <<>>,
             conds' = [ifflag |-> conds.stack[1].ifflag, elseflag |-> conds.stack[1].elseflag,
                       stack |-> Tail(conds.stack)]
      PROVE  Len(conds'.stack) <= MaxIf
  <2>1. Len(Tail(conds.stack)) = Len(conds.stack) - 1
    BY <1>5 DEF CondInv
  <2> QED BY <1>1, <1>5, <2>1
<1>6. ASSUME conds' = [conds EXCEPT !.ifflag = TRUE, !.stack = <<>>]
      PROVE  Len(conds'.stack) <= MaxIf
  <2>1. conds'.stack = <<>>
    BY <1>6 DEF CondInv
  <2> QED BY <1>1, <2>1
<1> QED BY <1>2, <1>3, <1>4, <1>5, <1>6 DEF CondStep

(* NestedOff of AsLink: a line is assembled only if every IF around it is, *)
(* and a branch can start only while none of its IF has been taken,        *)
(* whatever the source and however deep it nests.                          *)
THEOREM CondsNest == Spec => []NestedOff
<1>1. Init => CondInv
  BY DEF Init, AsInit, CondInv, NestedOff, StackNested
<1>2. CondInv /\ [Next]_vars => CondInv'
  BY CondSteps, CondKept
<1>3. CondInv => NestedOff
  BY DEF CondInv
<1> QED BY <1>1, <1>2, <1>3, PTL DEF Spec

(***************************************************************************)
(* Types of a line's work.  L is the set of the source's lines.            *)
(***************************************************************************)
SymName == Name \union {"mend"}       \* StrayMend enters the operation as a name
Flags == SUBSET {"REL", "UND", "IMP", "FOR", "LAB", "VAR", "RED", "COMM", "EXP", "ENT", "MAC"}
Octet == 0..255
ValueT == [val : Int, data : Flags, seg : Segs, sym : SymName \union {""}]
SymT(L) == [type : Flags, data : Flags, seg : Segs, val : Int, text : Seq(L)]
Tables(L) == UNION {[D -> SymT(L)] : D \in {E \in SUBSET SymName : IsFiniteSet(E)}}
CounterT == [data : Flags, lc : Int]
LocT == [lc : Int, data : Flags, seg : Segs, cur : Segs, apart : BOOLEAN, tab : [Segs -> CounterT]]
EncT == [abs : Seq(Octet), rmb : Int, relsize : 0..2, out : Seq(Octet)]
ItemT == [x : ValueT, size : {1, 2}]
PieceT == [x : ValueT, size : {1, 2}, i : Int]
Pieces == UNION {[D -> PieceT] : D \in SUBSET (Segs \X Int)}
WorkT(L) ==
  [syms : Tables(L), loc : LocT, enc : EncT, errs : BOOLEAN, dirty : BOOLEAN, emitted : Pieces,
   label : SymName \union {""}, old : Int, x : ValueT, vals : Seq(ValueT), jump : Int, code : Seq(ItemT),
   trap : BOOLEAN]
Typed(L, r) == r \in WorkT(L) /\ (r.label = "" \/ r.label \in DOMAIN r.syms)

(* A symbol table is a function from names to symbols. *)
LEMMA TableGet ==
  ASSUME NEW L, NEW t \in Tables(L)
  PROVE  /\ DOMAIN t \subseteq SymName /\ t = [n \in DOMAIN t |-> t[n]]
         /\ \A n \in DOMAIN t : t[n] \in SymT(L)
         /\ IsFiniteSet(DOMAIN t)
<1>1. PICK D \in {E \in SUBSET SymName : IsFiniteSet(E)} : t \in [D -> SymT(L)]
  BY DEF Tables
<1> QED BY <1>1

(* A function on names whose values are symbols is a symbol table. *)
LEMMA TableIs ==
  ASSUME NEW L, NEW t, DOMAIN t \subseteq SymName, t = [n \in DOMAIN t |-> t[n]],
         \A n \in DOMAIN t : t[n] \in SymT(L), IsFiniteSet(DOMAIN t)
  PROVE  t \in Tables(L)
<1>1. t \in [DOMAIN t -> SymT(L)]
  OBVIOUS
<1> QED BY <1>1 DEF Tables

(* Putting another symbol at a name keeps the table. *)
LEMMA TablePut ==
  ASSUME NEW L, NEW t \in Tables(L), NEW n \in SymName, NEW s \in SymT(L)
  PROVE  /\ [t EXCEPT ![n] = s] \in Tables(L) /\ DOMAIN [t EXCEPT ![n] = s] = DOMAIN t
         /\ \A m \in DOMAIN t : [t EXCEPT ![n] = s][m] = IF m = n THEN s ELSE t[m]
<1> DEFINE u == [t EXCEPT ![n] = s]
<1>1. /\ DOMAIN t \subseteq SymName /\ \A m \in DOMAIN t : t[m] \in SymT(L)
      /\ IsFiniteSet(DOMAIN t)
  BY TableGet
<1>2. DOMAIN u = DOMAIN t /\ u = [m \in DOMAIN u |-> u[m]]
  OBVIOUS
<1>3. \A m \in DOMAIN t : u[m] = IF m = n THEN s ELSE t[m]
  OBVIOUS
<1> QED BY <1>1, <1>2, <1>3, TableIs

(* A table with one more symbol (lookup enters a name). *)
LEMMA TableAdd ==
  ASSUME NEW L, NEW t \in Tables(L), NEW n \in SymName,
         NEW f, DOMAIN f = {n}, f[n] \in SymT(L)
  PROVE  /\ Over(f, t) \in Tables(L) /\ DOMAIN Over(f, t) = DOMAIN t \union {n}
         /\ \A m \in DOMAIN t : m # n => Over(f, t)[m] = t[m]
         /\ Over(f, t)[n] = f[n]
<1> DEFINE u == Over(f, t)
<1>1. /\ DOMAIN t \subseteq SymName /\ \A m \in DOMAIN t : t[m] \in SymT(L)
      /\ IsFiniteSet(DOMAIN t)
  BY TableGet
<1>2. u = [m \in {n} \union DOMAIN t |-> IF m \in {n} THEN f[m] ELSE t[m]]
  BY DEF Over
<1>3. DOMAIN u = DOMAIN t \union {n} /\ u = [m \in DOMAIN u |-> u[m]]
  BY <1>2
<1>4. \A m \in DOMAIN u : u[m] = IF m = n THEN f[n] ELSE t[m]
  BY <1>2
<1>5. u \in Tables(L)
  <2>1. IsFiniteSet(DOMAIN u)
    BY <1>1, <1>3, FS_AddElement
  <2> HIDE DEF u
  <2> QED BY <1>1, <1>3, <1>4, <2>1, TableIs
<1> QED BY <1>3, <1>4, <1>5

(* What evaluating an expression leaves alone: everything but lastexp, the *)
(* symbols' forward bits and symbols entered, and errors stay.             *)
Same(r, s) ==
  /\ s.loc = r.loc /\ s.enc = r.enc /\ s.dirty = r.dirty /\ s.emitted = r.emitted
  /\ s.label = r.label /\ s.old = r.old /\ s.jump = r.jump /\ s.code = r.code
  /\ r.errs => s.errs
  /\ DOMAIN r.syms \subseteq DOMAIN s.syms
  /\ \A n \in DOMAIN r.syms :
       /\ s.syms[n].type = r.syms[n].type /\ s.syms[n].val = r.syms[n].val
       /\ s.syms[n].seg = r.syms[n].seg /\ s.syms[n].text = r.syms[n].text
Evaluated(L, r, s) == Typed(L, s) /\ Same(r, s)

(* What evaluating leaves alone, evaluating twice leaves alone. *)
LEMMA EvaluatedAgain ==
  ASSUME NEW L, NEW r, NEW s, NEW t, Evaluated(L, r, s), Evaluated(L, s, t)
  PROVE  Evaluated(L, r, t)
BY DEF Evaluated, Same

(* Evaluating nothing is a way of evaluating. *)
LEMMA EvaluatedSelf ==
  ASSUME NEW L, NEW r, Typed(L, r)
  PROVE  Evaluated(L, r, r)
BY DEF Evaluated, Same

(* Changing lastexp, or the errors, is such a change. *)
LEMMA PutX ==
  ASSUME NEW L, NEW r, Typed(L, r), NEW x \in ValueT
  PROVE  Evaluated(L, r, [r EXCEPT !.x = x]) /\ [r EXCEPT !.x = x].x = x
         /\ [r EXCEPT !.x = x].vals = r.vals /\ [r EXCEPT !.x = x].syms = r.syms
BY DEF Evaluated, Same, Typed, WorkT

(* An error changes nothing but errs. *)
LEMMA PutErr ==
  ASSUME NEW L, NEW r, Typed(L, r)
  PROVE  Evaluated(L, r, Err(r)) /\ Err(r).x = r.x /\ Err(r).errs /\ Err(r).vals = r.vals /\ Err(r).syms = r.syms
BY DEF Evaluated, Same, Typed, WorkT, Err

(* Flags are sets of these names. *)
LEMMA SomeFlags ==
  /\ {} \in Flags /\ {"REL", "UND"} \in Flags /\ {"IMP"} \in Flags /\ {"FOR"} \in Flags
  /\ {"FOR", "UND"} \in Flags /\ {"REL"} \in Flags /\ {"FOR", "IMP", "REL"} \in Flags
  /\ \A a, b \in Flags : a \union b \in Flags /\ a \intersect b \in Flags /\ a \ b \in Flags
BY DEF Flags

(* The counters that the code names are there. *)
LEMMA SegsHave ==
  /\ 0 \in Segs /\ NLoc - 1 \in Segs /\ 3 \in Segs /\ NLoc \in Nat /\ NLoc > 4 /\ NLoc <= 32
  /\ \A s \in Segs : s \in 0..31
BY LimitsAssumption DEF Segs, AbsCode, SegCode

(* "|" and "^" of two counters are a counter: NLoc - 1 is a mask. *)
LEMMA OrTyped ==
  ASSUME NEW a \in Segs, NEW b \in Segs
  PROVE  Or(a, b) \in Segs /\ Xor(a, b) \in Segs
<1>1. a \in 0..(NLoc - 1) /\ b \in 0..(NLoc - 1)
  BY DEF Segs
<1>2. \A i \in {1, 2, 4, 8} : OrBit(a, b, i) \in {0, i} /\ XorBit(a, b, i) \in {0, i}
  BY DEF OrBit, XorBit
<1>3. CASE NLoc = 16
  BY <1>2, <1>3 DEF Or, Xor, Segs
<1>4. CASE NLoc = 8
  <2>1. a \in 0..7 /\ b \in 0..7
    BY <1>1, <1>4
  <2>2. Bit(a, 8) = 0 /\ Bit(b, 8) = 0
    BY <2>1 DEF Bit
  <2>3. OrBit(a, b, 8) = 0 /\ XorBit(a, b, 8) = 0
    BY <2>2 DEF OrBit, XorBit
  <2> QED BY <1>2, <1>4, <2>3 DEF Or, Xor, Segs
<1> QED BY <1>3, <1>4, LimitsAssumption

(* A name entered by lookup is a symbol without definition. *)
LEMMA NewSymTyped ==
  ASSUME NEW L
  PROVE  NewSym \in SymT(L)
<1>1. inidata \in Flags
  BY SomeFlags DEF inidata
<1>2. <<>> \in Seq(L)
  OBVIOUS
<1> QED BY <1>1, <1>2, SegsHave, SomeFlags DEF NewSym, SymT

(* lookup enters a name that is not there. *)
LEMMA LookupTyped ==
  ASSUME NEW L, NEW r, Typed(L, r), NEW n \in SymName
  PROVE  /\ Evaluated(L, r, lookup(n, r)) /\ n \in DOMAIN lookup(n, r).syms
         /\ lookup(n, r).x = r.x /\ lookup(n, r).vals = r.vals /\ lookup(n, r).errs = r.errs
<1>1. CASE n \in DOMAIN r.syms
  BY <1>1, EvaluatedSelf DEF lookup
<1>2. CASE n \notin DOMAIN r.syms
  <2> DEFINE f == [m \in {n} |-> NewSym]
             t == Over(f, r.syms)
             s == [r EXCEPT !.syms = t]
  <2>1. r.syms \in Tables(L) /\ NewSym \in SymT(L)
    BY NewSymTyped DEF Typed, WorkT
  <2>2. /\ t \in Tables(L) /\ DOMAIN t = DOMAIN r.syms \union {n}
        /\ \A m \in DOMAIN r.syms : t[m] = r.syms[m]
    <3>1. /\ t \in Tables(L) /\ DOMAIN t = DOMAIN r.syms \union {n}
          /\ \A m \in DOMAIN r.syms : m # n => t[m] = r.syms[m]
      <4>1. DOMAIN f = {n} /\ f[n] = NewSym
        OBVIOUS
      <4> HIDE DEF f
      <4> QED BY <2>1, <4>1, TableAdd
    <3> QED BY <1>2, <3>1
  <2>3. lookup(n, r) = s
    BY <1>2 DEF lookup
  <2> HIDE DEF t
  <2>4. s.syms = t /\ Typed(L, s)
    BY <2>2 DEF Typed, WorkT
  <2>5. Same(r, s)
    BY <2>2, <2>4 DEF Same, Typed, WorkT
  <2> QED BY <2>2, <2>3, <2>4, <2>5 DEF Evaluated, Typed, WorkT
<1> QED BY <1>1, <1>2

(* A symbol's data may change while an expression is evaluated. *)
LEMMA PutData ==
  ASSUME NEW L, NEW r, Typed(L, r), NEW n \in DOMAIN r.syms, NEW d \in Flags
  PROVE  LET s == [r EXCEPT !.syms[n] = [@ EXCEPT !.data = d]]
         IN  Evaluated(L, r, s) /\ s.x = r.x /\ s.vals = r.vals
<1> DEFINE y == [r.syms[n] EXCEPT !.data = d]
           t == [r.syms EXCEPT ![n] = y]
           s == [r EXCEPT !.syms = t]
<1>1. r.syms \in Tables(L)
  BY DEF Typed, WorkT
<1>2. n \in SymName /\ r.syms[n] \in SymT(L)
  BY <1>1, TableGet
<1>3. /\ y \in SymT(L) /\ y.type = r.syms[n].type /\ y.val = r.syms[n].val
      /\ y.seg = r.syms[n].seg /\ y.text = r.syms[n].text
  BY <1>2 DEF SymT
<1> HIDE DEF y
<1>4. t \in Tables(L) /\ DOMAIN t = DOMAIN r.syms
      /\ \A m \in DOMAIN r.syms : t[m] = IF m = n THEN y ELSE r.syms[m]
  BY <1>1, <1>2, <1>3, TablePut
<1> HIDE DEF t
<1>5. s.syms = t /\ Typed(L, s) /\ s.x = r.x /\ s.vals = r.vals
  BY <1>4 DEF Typed, WorkT
<1>6. Same(r, s)
  BY <1>3, <1>4, <1>5 DEF Same, Typed, WorkT
<1>7. s = [r EXCEPT !.syms[n] = [@ EXCEPT !.data = d]]
  BY DEF t, y, Typed, WorkT
<1> QED BY <1>5, <1>6, <1>7 DEF Evaluated

(* expundefined leaves a value. *)
LEMMA UndefinedTyped ==
  ASSUME NEW L, NEW r, Typed(L, r)
  PROVE  Evaluated(L, r, expundefined(r)) /\ expundefined(r).vals = r.vals
<1> DEFINE x == [r.x EXCEPT !.data = {"FOR", "UND"}, !.seg = 0]
<1>1. x \in ValueT
  BY SegsHave, SomeFlags DEF Typed, WorkT, ValueT
<1>2. expundefined(r) = [r EXCEPT !.x = x]
  BY DEF expundefined, Typed, WorkT
<1> QED BY <1>1, <1>2, PutX

(* experror, showrelbad and chkabs leave a value and may give an error. *)
LEMMA ErrorsTyped ==
  ASSUME NEW L, NEW r, Typed(L, r)
  PROVE  /\ Evaluated(L, r, experror(r)) /\ experror(r).vals = r.vals /\ experror(r).errs
         /\ Evaluated(L, r, ErrLast(r)) /\ ErrLast(r).vals = r.vals
         /\ Evaluated(L, r, showrelbad(r)) /\ showrelbad(r).vals = r.vals
         /\ Evaluated(L, r, chkabs(r)) /\ chkabs(r).vals = r.vals
<1>1. /\ Evaluated(L, r, Err(r)) /\ Err(r).vals = r.vals /\ Err(r).errs
      /\ Evaluated(L, r, ErrLast(r)) /\ ErrLast(r).vals = r.vals
  BY PutErr, EvaluatedSelf DEF ErrLast
<1>2. Typed(L, Err(r)) /\ Typed(L, ErrLast(r))
  BY <1>1 DEF Evaluated
<1>3. /\ Evaluated(L, r, experror(r)) /\ experror(r).vals = r.vals
      /\ Evaluated(L, r, showrelbad(r)) /\ showrelbad(r).vals = r.vals
  BY <1>1, <1>2, UndefinedTyped, EvaluatedAgain DEF experror, showrelbad
<1>4. experror(r).errs
  BY <1>1, <1>2, UndefinedTyped DEF experror, Evaluated, Same
<1>5. Evaluated(L, r, chkabs(r)) /\ chkabs(r).vals = r.vals
  BY <1>3, EvaluatedSelf DEF chkabs, showrelbad
<1> QED BY <1>1, <1>3, <1>4, <1>5

(* factor, of a name in the table. *)
LEMMA IdentifierTyped ==
  ASSUME NEW L, NEW r, Typed(L, r), NEW n \in DOMAIN r.syms
  PROVE  Evaluated(L, r, Identifier(n, r)) /\ Identifier(n, r).vals = r.vals
<1> DEFINE known == r.syms[n].type \intersect {"LAB", "VAR"} # {}
           s == IF known THEN r.syms[n] ELSE [r.syms[n] EXCEPT !.data = @ \union {"FOR"}]
           x == [val |-> IF pass = last_pass /\ "IMP" \in s.data THEN 0 ELSE s.val,
                 data |-> IF pass = last_pass THEN s.data ELSE s.data \ {"IMP"}, seg |-> s.seg,
                 sym |-> IF known THEN r.x.sym ELSE n]
           q == [r EXCEPT !.syms[n] = s]
           seen == [r EXCEPT !.syms[n] = s, !.x = x]
<1>1. r.syms \in Tables(L) /\ r.x \in ValueT
  BY DEF Typed, WorkT
<1>2. n \in SymName /\ r.syms[n] \in SymT(L)
  BY <1>1, TableGet
<1>3. s \in SymT(L) /\ s.data \in Flags /\ s = [r.syms[n] EXCEPT !.data = s.data]
  BY <1>2, SomeFlags DEF SymT
<1>4. x \in ValueT
  <2>1. s.val \in Int /\ s.data \in Flags /\ s.seg \in Segs
    BY <1>3 DEF SymT
  <2>2. n \in SymName \union {""} /\ r.x.sym \in SymName \union {""}
    BY <1>1, <1>2 DEF ValueT
  <2>3. s.data \ {"IMP"} \in Flags
    BY <2>1 DEF Flags
  <2> HIDE DEF s, known
  <2>4. (IF pass = last_pass /\ "IMP" \in s.data THEN 0 ELSE s.val) \in Int
    BY <2>1
  <2>5. (IF pass = last_pass THEN s.data ELSE s.data \ {"IMP"}) \in Flags
    BY <2>1, <2>3
  <2>6. (IF known THEN r.x.sym ELSE n) \in SymName \union {""}
    BY <2>2
  <2> QED BY <2>1, <2>4, <2>5, <2>6 DEF ValueT
<1>5. PICK d \in Flags : s = [r.syms[n] EXCEPT !.data = d]
  BY <1>3
<1>6. q = [r EXCEPT !.syms[n] = [@ EXCEPT !.data = d]]
  BY <1>5
<1>7. Evaluated(L, r, q) /\ q.x = r.x /\ q.vals = r.vals
  BY <1>6, PutData
<1> HIDE DEF x, s, known
<1>8. seen = [q EXCEPT !.x = x]
  OBVIOUS
<1>9. Evaluated(L, q, seen) /\ seen.vals = r.vals
  <2>1. Typed(L, q)
    BY <1>7 DEF Evaluated
  <2> HIDE DEF q, seen
  <2> QED BY <1>4, <1>7, <1>8, <2>1, PutX
<1>10. Evaluated(L, r, seen) /\ Typed(L, seen)
  <2> HIDE DEF q, seen
  <2> QED BY <1>7, <1>9, EvaluatedAgain DEF Evaluated
<1>11. Identifier(n, r) \in {experror(r), experror(seen), seen}
  BY DEF Identifier, known, s, x
<1>12. /\ Evaluated(L, r, experror(r)) /\ experror(r).vals = r.vals
       /\ Evaluated(L, seen, experror(seen)) /\ experror(seen).vals = seen.vals
  <2> HIDE DEF seen
  <2> QED BY <1>10, ErrorsTyped
<1> HIDE DEF seen
<1> QED BY <1>9, <1>10, <1>11, <1>12, EvaluatedAgain

(* The binary operators. *)
LEMMA CombineTyped ==
  ASSUME NEW L, NEW r, Typed(L, r), NEW left \in ValueT, NEW op \in {"+", "-", "*", "/", "="}
  PROVE  Evaluated(L, r, Combine(op, left, r)) /\ Combine(op, left, r).vals = r.vals
<1> DEFINE x == r.x
           both == left.data \union x.data
           Put(v, data, seg) == [r EXCEPT !.x.val = v, !.x.data = data, !.x.seg = seg]
           Good(q) == Evaluated(L, r, q) /\ q.vals = r.vals
<1>1. /\ x \in ValueT /\ x.val \in Int /\ x.data \in Flags /\ x.seg \in Segs
      /\ left.val \in Int /\ left.data \in Flags /\ left.seg \in Segs
  BY DEF Typed, WorkT, ValueT
<1>2. ASSUME NEW v \in Int, NEW d \in Flags, NEW g \in Segs
      PROVE  Good(Put(v, d, g)) /\ Typed(L, Put(v, d, g))
  <2> DEFINE y == [r.x EXCEPT !.val = v, !.data = d, !.seg = g]
  <2>1. y \in ValueT
    BY <1>1 DEF ValueT
  <2>2. Put(v, d, g) = [r EXCEPT !.x = y]
    BY DEF Typed, WorkT
  <2> QED BY <2>1, <2>2, PutX DEF Evaluated
<1> HIDE DEF Put
<1>3. ASSUME NEW v \in Int, NEW d \in Flags, NEW g \in Segs
      PROVE  Good(showrelbad(Put(v, d, g))) /\ Good(chkabs(Put(v, d, g)))
  BY <1>2, ErrorsTyped, EvaluatedAgain
<1>4. Good([r EXCEPT !.trap = TRUE])
  BY DEF Evaluated, Same, Typed, WorkT
<1>5. /\ left.val + x.val \in Int /\ left.val - x.val \in Int /\ left.val * x.val \in Int
      /\ (IF left.val = x.val THEN -1 ELSE 0) \in Int
  BY <1>1
<1>6. Unsigned(x.val) # 0 => Unsigned(left.val) \div Unsigned(x.val) \in Int
  <2>1. Unsigned(x.val) \in Nat /\ Unsigned(left.val) \in Nat
    BY <1>1, LimitsAssumption DEF Unsigned
  <2> QED BY <2>1
<1>7. /\ both \in Flags /\ (left.data \intersect x.data) \ {"REL"} \in Flags
      /\ (both \ {"REL"}) \union (SymDiff(left.data, x.data) \intersect {"REL"}) \in Flags
  BY <1>1, SomeFlags DEF SymDiff
<1>8. /\ Or(left.seg, x.seg) \in Segs /\ 0 \in Segs
      /\ Xor(left.seg, x.seg) \in Segs
  BY <1>1, SegsHave, OrTyped
<1> DEFINE mismatch == left.seg # x.seg \/ "REL" \in SymDiff(left.data, x.data)
           badminus == "REL" \in x.data /\ ("REL" \notin left.data \/ "IMP" \in both \/ mismatch)
           minus == (both \ {"REL"}) \union (SymDiff(left.data, x.data) \intersect {"REL"})
           mseg == Xor(left.seg, x.seg)
           truth == IF left.val = x.val THEN -1 ELSE 0
<1> HIDE DEF Good
<1>9. CASE op = "+"
  <2>1. Combine(op, left, r) \in {showrelbad(Put(left.val + x.val, x.data, x.seg)),
                                  Put(left.val + x.val, both, Or(left.seg, x.seg))}
    BY <1>9 DEF Combine, Put
  <2>2. Good(Combine(op, left, r))
    BY <2>1, <1>1, <1>2, <1>3, <1>5, <1>7, <1>8
  <2> QED BY <2>2 DEF Good
<1>10. CASE op = "-"
  <2>1. Combine(op, left, r) \in {showrelbad(Put(left.val - x.val, x.data, x.seg)),
                                  Put(left.val - x.val, minus, mseg)}
    BY <1>10 DEF Combine, Put
  <2>2. Good(Combine(op, left, r))
    BY <2>1, <1>1, <1>2, <1>3, <1>5, <1>7, <1>8
  <2> QED BY <2>2 DEF Good
<1>11. CASE op = "*"
  <2>1. Combine(op, left, r) = chkabs(Put(left.val * x.val, both, Or(left.seg, x.seg)))
    BY <1>11 DEF Combine, Put
  <2>2. Good(Combine(op, left, r))
    BY <2>1, <1>1, <1>3, <1>5, <1>7, <1>8
  <2> QED BY <2>2 DEF Good
<1>12. CASE op = "/"
  <2> DEFINE v == Unsigned(left.val) \div Unsigned(x.val)
  <2>1. \/ Combine(op, left, r) = [r EXCEPT !.trap = TRUE]
        \/ Unsigned(x.val) # 0 /\ Combine(op, left, r) = chkabs(Put(v, both, Or(left.seg, x.seg)))
    BY <1>12 DEF Combine, Put
  <2> HIDE DEF v
  <2>2. Unsigned(x.val) # 0 => v \in Int
    BY <1>6 DEF v
  <2>3. Good(Combine(op, left, r))
    BY <2>1, <2>2, <1>1, <1>3, <1>4, <1>7, <1>8
  <2> QED BY <2>3 DEF Good
<1>13. CASE op = "="
  <2>1. Combine(op, left, r) \in {showrelbad(Put(truth, x.data, x.seg)),
                                  Put(truth, (left.data \intersect x.data) \ {"REL"}, 0)}
    BY <1>13 DEF Combine, Put
  <2>2. Good(Combine(op, left, r))
    BY <2>1, <1>1, <1>2, <1>3, <1>5, <1>7, <1>8
  <2> QED BY <2>2 DEF Good
<1> QED BY <1>9, <1>10, <1>11, <1>12, <1>13

(* Bind(v, F) is F(v). *)
LEMMA BindNode ==
  ASSUME NEW t, NEW v
  PROVE  Bind(v, LAMBDA s : Noted(Node(t, s))) = Noted(Node(t, v))
BY DEF Bind

(* One node, once the ones before it have values. *)
LEMMA NodeTyped ==
  ASSUME NEW L, NEW r, Typed(L, r), NEW t \in Nodes,
         t.op = "id" => t.name \in Name,
         t.op \in {"+", "-", "*", "/", "="} => t.left \in DOMAIN r.vals
  PROVE  Evaluated(L, r, Node(t, r)) /\ Node(t, r).vals = r.vals
<1>1. r.x \in ValueT /\ r.loc \in LocT /\ r.vals \in Seq(ValueT)
  BY DEF Typed, WorkT
<1>2. t.op \in {"num", "here", "id", "neg", "+", "-", "*", "/", "="} /\ t.n \in Int
  BY DEF Nodes
<1> DEFINE Put(v, d, g) == [r EXCEPT !.x.val = v, !.x.data = d, !.x.seg = g]
<1>3. ASSUME NEW v \in Int, NEW d \in Flags, NEW g \in Segs
      PROVE  /\ Evaluated(L, r, Put(v, d, g)) /\ Put(v, d, g).vals = r.vals
             /\ Typed(L, Put(v, d, g))
  <2> DEFINE y == [r.x EXCEPT !.val = v, !.data = d, !.seg = g]
  <2>1. y \in ValueT
    BY <1>1 DEF ValueT
  <2>2. Put(v, d, g) = [r EXCEPT !.x = y]
    BY DEF Typed, WorkT
  <2> QED BY <2>1, <2>2, PutX DEF Evaluated
<1> HIDE DEF Put
<1>4. CASE t.op = "num"
  <2>1. Node(t, r) = Put(t.n, {}, 0)
    BY <1>4 DEF Node, Put
  <2> QED BY <2>1, <1>2, <1>3, SomeFlags, SegsHave
<1>5. CASE t.op = "here"
  <2> DEFINE q == Put(r.loc.lc, r.loc.data, r.loc.seg)
  <2>1. r.loc.lc \in Int /\ r.loc.data \in Flags /\ r.loc.seg \in Segs
    BY <1>1 DEF LocT
  <2>2. Evaluated(L, r, q) /\ q.vals = r.vals /\ Typed(L, q)
    BY <2>1, <1>3
  <2>3. Node(t, r) \in {experror(q), q}
    BY <1>5 DEF Node, Put
  <2> HIDE DEF q
  <2> QED BY <2>2, <2>3, ErrorsTyped, EvaluatedAgain
<1>6. CASE t.op = "id"
  <2> DEFINE q == lookup(t.name, r)
  <2>1. t.name \in SymName
    BY <1>6 DEF SymName
  <2>2. Evaluated(L, r, q) /\ q.vals = r.vals /\ t.name \in DOMAIN q.syms
    BY <2>1, LookupTyped
  <2>3. Node(t, r) = Identifier(t.name, q)
    BY <1>6 DEF Node
  <2> HIDE DEF q
  <2>4. Typed(L, q)
    BY <2>2 DEF Evaluated
  <2> QED BY <2>2, <2>3, <2>4, IdentifierTyped, EvaluatedAgain
<1>7. CASE t.op = "neg"
  <2> DEFINE q == chkabs(r)
             y == [q.x EXCEPT !.val = -@]
  <2>1. Evaluated(L, r, q) /\ q.vals = r.vals /\ Typed(L, q)
    BY ErrorsTyped DEF Evaluated
  <2>2. Node(t, r) = [q EXCEPT !.x.val = -@]
    BY <1>7 DEF Node
  <2> HIDE DEF q
  <2>3. y \in ValueT
    <3>1. q.x \in ValueT
      BY <2>1 DEF Typed, WorkT
    <3>2. PICK v \in Int : v = q.x.val
      BY <3>1 DEF ValueT
    <3>3. -v \in Int
      OBVIOUS
    <3>4. y = [q.x EXCEPT !.val = -v]
      BY <3>2
    <3> QED BY <3>1, <3>3, <3>4 DEF ValueT
  <2>4. Node(t, r) = [q EXCEPT !.x = y]
    <3>1. y = [q.x EXCEPT !.val = -q.x.val]
      OBVIOUS
    <3>2. [q EXCEPT !.x.val = -@] = [q EXCEPT !.x = [q.x EXCEPT !.val = -q.x.val]]
      BY <2>1 DEF Typed, WorkT
    <3> QED BY <2>2, <3>1, <3>2
  <2> HIDE DEF y
  <2> QED BY <2>1, <2>3, <2>4, PutX, EvaluatedAgain
<1>8. CASE t.op \in {"+", "-", "*", "/", "="}
  <2>1. Node(t, r) = Combine(t.op, r.vals[t.left], r)
    BY <1>8 DEF Node
  <2>2. r.vals[t.left] \in ValueT
    BY <1>1, <1>8
  <2> QED BY <1>8, <2>1, <2>2, CombineTyped
<1> QED BY <1>2, <1>4, <1>5, <1>6, <1>7, <1>8

(* The values of the nodes evaluated are kept. *)
LEMMA NotedTyped ==
  ASSUME NEW L, NEW r, NEW s, Evaluated(L, r, s), s.vals = r.vals
  PROVE  /\ Evaluated(L, r, Noted(s)) /\ Noted(s).x = s.x
         /\ r.vals \in Seq(ValueT) => Len(Noted(s).vals) = Len(r.vals) + 1
<1>1. s.vals \in Seq(ValueT) /\ s.x \in ValueT
  BY DEF Evaluated, Typed, WorkT
<1>2. Append(s.vals, s.x) \in Seq(ValueT) /\ Len(Append(s.vals, s.x)) = Len(s.vals) + 1
  BY <1>1
<1> DEFINE w == Append(s.vals, s.x)
<1>3. Noted(s) = [s EXCEPT !.vals = w]
  BY DEF Noted, Evaluated, Typed, WorkT
<1> HIDE DEF w
<1>4. w \in Seq(ValueT)
  BY <1>2 DEF w
<1>5. Evaluated(L, r, Noted(s)) /\ Noted(s).x = s.x /\ Noted(s).vals = w
  <2>1. Typed(L, s) /\ Same(r, s)
    BY DEF Evaluated
  <2>2. Typed(L, Noted(s)) /\ Noted(s).x = s.x /\ Noted(s).vals = w
    BY <1>3, <1>4, <2>1 DEF Typed, WorkT
  <2>3. /\ Noted(s).loc = s.loc /\ Noted(s).enc = s.enc /\ Noted(s).dirty = s.dirty
        /\ Noted(s).emitted = s.emitted /\ Noted(s).label = s.label /\ Noted(s).old = s.old
        /\ Noted(s).jump = s.jump /\ Noted(s).code = s.code /\ Noted(s).errs = s.errs
        /\ Noted(s).syms = s.syms
    BY <1>3, <2>1 DEF Typed, WorkT
  <2>4. Same(r, Noted(s))
    BY <2>1, <2>3 DEF Same
  <2> QED BY <2>2, <2>4 DEF Evaluated
<1> QED BY <1>2, <1>5 DEF w

(* The values of an expression node by node: the function that expres      *)
(* defines.                                                                *)
Nodewise(g, e, r, n) ==
  g = [i \in 0..n |-> IF i = 0 THEN [r EXCEPT !.vals = <<>>] ELSE Noted(Node(e[i], g[i - 1]))]

(* The recursive function in expres has a value for every node. *)
LEMMA NodewiseExists ==
  ASSUME NEW e, NEW r
  PROVE  \A n \in Nat : \E g : Nodewise(g, e, r, n)
<1> DEFINE first == [r EXCEPT !.vals = <<>>]
           Fits(g, n) == Nodewise(g, e, r, n)
           T == {n \in Nat : \E g : Fits(g, n)}
<1>1. 0 \in T
  <2> DEFINE g == [i \in 0..0 |-> first]
  <2>1. Fits(g, 0)
    BY DEF Nodewise
  <2> QED BY <2>1
<1>2. ASSUME NEW n \in Nat, n \in T PROVE n + 1 \in T
  <2>1. PICK g : Fits(g, n)
    BY <1>2
  <2> DEFINE h == [i \in 0..(n + 1) |-> IF i = n + 1 THEN Noted(Node(e[n + 1], g[n])) ELSE g[i]]
             f == [i \in 0..(n + 1) |-> IF i = 0 THEN first ELSE Noted(Node(e[i], h[i - 1]))]
  <2>2. ASSUME NEW i \in 0..(n + 1) PROVE h[i] = f[i]
    <3>1. CASE i = 0
      <4>1. g[0] = first
        BY <2>1 DEF Nodewise
      <4> QED BY <3>1, <4>1
    <3>2. CASE i = n + 1
      <4>1. h[n] = g[n] /\ i - 1 = n
        BY <3>2
      <4> QED BY <3>2, <4>1
    <3>3. CASE i \in 1..n
      <4>1. i \in 0..n /\ i # 0 /\ h[i] = g[i] /\ h[i - 1] = g[i - 1]
        BY <3>3
      <4>2. g[i] = Noted(Node(e[i], g[i - 1]))
        BY <2>1, <4>1 DEF Nodewise
      <4> QED BY <4>1, <4>2
    <3> QED BY <3>1, <3>2, <3>3
  <2>3. h = f
    <3> HIDE DEF h, f
    <3>1. h = [i \in 0..(n + 1) |-> h[i]] /\ f = [i \in 0..(n + 1) |-> f[i]]
      BY DEF h, f
    <3> QED BY <2>2, <3>1
  <2>4. Fits(h, n + 1)
    BY <2>3 DEF Nodewise
  <2>5. n + 1 \in Nat /\ \E hh : Fits(hh, n + 1)
    <3> HIDE DEF h, Fits
    <3> QED BY <2>4
  <2> QED BY <2>5
<1>3. \A n \in Nat : n \in T
  <2> HIDE DEF T
  <2> QED BY <1>1, <1>2, SetInduction
<1> QED BY <1>3

(* expres is the value of that function at the last node. *)
LEMMA ExpresIs ==
  ASSUME NEW e, NEW r, Len(e) \in Nat
  PROVE  \E g : Nodewise(g, e, r, Len(e)) /\ expres(e, r) = g[Len(e)]
<1>1. PICK n \in Nat : n = Len(e)
  OBVIOUS
<1>2. PICK g : Nodewise(g, e, r, n)
  BY NodewiseExists
<1> DEFINE Eq(h) == h = [i \in 0..Len(e) |-> IF i = 0 THEN [r EXCEPT !.vals = <<>>]
                           ELSE Bind(h[i - 1], LAMBDA s : Noted(Node(e[i], s)))]
           f == CHOOSE h : Eq(h)
<1>3. \A h : Eq(h) <=> Nodewise(h, e, r, Len(e))
  <2> TAKE h
  <2>1. \A i \in 0..Len(e) :
          (IF i = 0 THEN [r EXCEPT !.vals = <<>>]
           ELSE Bind(h[i - 1], LAMBDA s : Noted(Node(e[i], s))))
            = IF i = 0 THEN [r EXCEPT !.vals = <<>>] ELSE Noted(Node(e[i], h[i - 1]))
    BY DEF Bind
  <2> QED BY <2>1 DEF Nodewise, Bind
<1>4. Eq(f)
  <2>1. Eq(g)
    BY <1>1, <1>2, <1>3
  <2> HIDE DEF Eq
  <2> QED BY <2>1
<1>5. Nodewise(f, e, r, Len(e))
  <2> HIDE DEF Eq, f
  <2> QED BY <1>3, <1>4
<1>6. expres(e, r) = f[Len(e)]
  BY Zenon DEF expres
<1> HIDE DEF f
<1> QED BY <1>5, <1>6

(* Keeping the values of the nodes changes nothing else. *)
LEMMA PutVals ==
  ASSUME NEW L, NEW r, Typed(L, r), NEW w \in Seq(ValueT)
  PROVE  Evaluated(L, r, [r EXCEPT !.vals = w]) /\ [r EXCEPT !.vals = w].vals = w
BY DEF Evaluated, Same, Typed, WorkT

(* An expression, whatever it holds, leaves the line's work as it was but  *)
(* for lastexp.                                                            *)
LEMMA ExpresTyped ==
  ASSUME NEW L, NEW r, Typed(L, r), NEW e, IsExpr(e)
  PROVE  Evaluated(L, r, expres(e, r))
<1>1. e \in Seq(Nodes) /\ Len(e) \in Nat
  BY DEF IsExpr
<1>2. PICK g : Nodewise(g, e, r, Len(e)) /\ expres(e, r) = g[Len(e)]
  BY <1>1, ExpresIs
<1> DEFINE Good(i) == Evaluated(L, r, g[i]) /\ Len(g[i].vals) = i
           T == {i \in Nat : i <= Len(e) => Good(i)}
<1>3. 0 \in T
  <2>1. 0 \in 0..Len(e)
    BY <1>1
  <2>2. g[0] = [r EXCEPT !.vals = <<>>]
    BY <1>2, <2>1 DEF Nodewise
  <2>3. <<>> \in Seq(ValueT) /\ Len(<<>>) = 0
    OBVIOUS
  <2>4. Evaluated(L, r, g[0]) /\ g[0].vals = <<>>
    <3>1. PICK w \in Seq(ValueT) : w = <<>>
      BY <2>3
    <3>2. Evaluated(L, r, [r EXCEPT !.vals = w]) /\ [r EXCEPT !.vals = w].vals = w
      BY PutVals
    <3> QED BY <2>2, <3>1, <3>2
  <2> QED BY <2>3, <2>4
<1>4. ASSUME NEW i \in Nat, i \in T PROVE i + 1 \in T
  <2> SUFFICES ASSUME i + 1 <= Len(e) PROVE Good(i + 1)
    OBVIOUS
  <2>0. i + 1 \in 0..Len(e) /\ i + 1 # 0 /\ i + 1 - 1 = i /\ i + 1 \in 1..Len(e) /\ i <= Len(e)
    BY <1>1
  <2>1. Good(i)
    BY <1>4, <2>0
  <2>2. g[i + 1] = Noted(Node(e[i + 1], g[i]))
    <3>1. PICK k : k = i + 1
      OBVIOUS
    <3>2. g[k] = Noted(Node(e[k], g[k - 1]))
      BY <1>2, <2>0, <3>1 DEF Nodewise
    <3> QED BY <2>0, <3>1, <3>2
  <2>3. e[i + 1] \in Nodes
    BY <1>1, <2>0
  <2>4. Typed(L, g[i]) /\ g[i].vals \in Seq(ValueT) /\ DOMAIN g[i].vals = 1..i
    <3>1. Typed(L, g[i]) /\ g[i].vals \in Seq(ValueT)
      BY <2>1 DEF Evaluated, Typed, WorkT
    <3> QED BY <2>1, <3>1
  <2>5. PICK t : t = e[i + 1]
    OBVIOUS
  <2>6. t.op = "id" => t.name \in Name
    BY <2>0, <2>5 DEF IsExpr
  <2>7. t.op \in {"+", "-", "*", "/", "="} => t.left \in DOMAIN g[i].vals
    BY <2>0, <2>4, <2>5 DEF IsExpr
  <2>8. Evaluated(L, g[i], Node(t, g[i])) /\ Node(t, g[i]).vals = g[i].vals
    BY <2>3, <2>4, <2>5, <2>6, <2>7, NodeTyped
  <2>9. Evaluated(L, g[i], g[i + 1]) /\ Len(g[i + 1].vals) = i + 1
    <3>1. PICK u : u = Node(t, g[i])
      OBVIOUS
    <3>2. PICK a : a = g[i]
      OBVIOUS
    <3>3. Evaluated(L, a, u) /\ u.vals = a.vals /\ a.vals \in Seq(ValueT)
      BY <2>4, <2>8, <3>1, <3>2
    <3>4. Evaluated(L, a, Noted(u)) /\ Len(Noted(u).vals) = Len(a.vals) + 1
      BY <3>3, NotedTyped
    <3> QED BY <2>1, <2>2, <2>5, <3>1, <3>2, <3>4
  <2> QED BY <2>1, <2>9, EvaluatedAgain
<1>5. \A i \in Nat : i \in T
  <2> HIDE DEF T
  <2> QED BY <1>3, <1>4, SetInduction
<1>6. Len(e) \in T
  BY <1>1, <1>5
<1> QED BY <1>1, <1>2, <1>6

(* absexpres evaluates. *)
LEMMA AbsTyped ==
  ASSUME NEW L, NEW r, Typed(L, r), NEW e, IsExpr(e)
  PROVE  Evaluated(L, r, absexpres(e, r))
<1>1. absexpres(e, r) = chkabs(expres(e, r))
  BY DEF absexpres, Bind
<1>2. Evaluated(L, r, expres(e, r))
  BY ExpresTyped
<1>3. PICK s : s = expres(e, r)
  OBVIOUS
<1>4. Evaluated(L, s, chkabs(s))
  BY <1>2, <1>3, ErrorsTyped DEF Evaluated
<1> QED BY <1>1, <1>2, <1>3, <1>4, EvaluatedAgain

(* nonimpexpres evaluates. *)
LEMMA NonimpTyped ==
  ASSUME NEW L, NEW r, Typed(L, r), NEW e, IsExpr(e)
  PROVE  Evaluated(L, r, nonimpexpres(e, r))
<1>1. PICK s : s = expres(e, r)
  OBVIOUS
<1>2. nonimpexpres(e, r) \in {experror(s), s}
  BY <1>1 DEF nonimpexpres, Bind
<1>3. Evaluated(L, r, s)
  BY <1>1, ExpresTyped
<1>4. Evaluated(L, s, experror(s))
  BY <1>3, ErrorsTyped DEF Evaluated
<1> QED BY <1>2, <1>3, <1>4, EvaluatedAgain

(***************************************************************************)
(* The encoder writes bytes.                                               *)
(***************************************************************************)
LEMMA BytesOfTyped ==
  ASSUME NEW v \in Int, NEW n
  PROVE  BytesOf(v, n) \in Seq(Octet)
<1>1. v % 256 \in Octet /\ (v \div 256) % 256 \in Octet
  BY DEF Octet
<1> QED BY <1>1 DEF BytesOf

(* The two bytes of a number are bytes. *)
LEMMA LowBytes ==
  \A v \in Int : v % 256 \in Octet /\ (v \div 256) % 256 \in Octet
BY DEF Octet

(* A command with its count or segment is one byte. *)
LEMMA SmallSums ==
  /\ \A k \in Nat : AbsCode + (k % AbsMax) \in Octet
  /\ \A g \in Segs : OffsetCode + g \in Octet /\ SegCode + g \in Octet
  /\ \A k \in 0..2 : SymbolCode + 4 + k \in Octet /\ SymbolCode + 0 + k \in Octet
<1>1. \A k \in Nat : k % 64 \in 0..63
  OBVIOUS
<1>2. \A k \in 0..63 : 64 + k \in 0..255 /\ 128 + k \in 0..255 /\ 32 + k \in 0..255
  OBVIOUS
<1>3. \A k \in 0..2 : 192 + 4 + k \in 0..255 /\ 192 + 0 + k \in 0..255
  OBVIOUS
<1>4. \A g \in Segs : g \in 0..63
  BY SegsHave
<1> QED BY <1>1, <1>2, <1>3, <1>4 DEF Octet, AbsCode, AbsMax, OffsetCode, SegCode, SymbolCode

(* Bytes appended to the object file. *)
LEMMA PutOut ==
  ASSUME NEW o \in EncT, NEW b \in Seq(Octet)
  PROVE  putobj1(o, b) \in EncT
<1>0. o.out \in Seq(Octet)
  BY DEF EncT
<1>1. PICK w \in Seq(Octet) : w = o.out \o b
  <2>1. o.out \o b \in Seq(Octet)
    BY <1>0
  <2> QED BY <2>1
<1>2. putobj1(o, b) = [o EXCEPT !.out = w]
  BY <1>1 DEF putobj1
<1> QED BY <1>2 DEF EncT

(* flushabs writes bytes. *)
LEMMA FlushAbsTyped ==
  ASSUME NEW o \in EncT
  PROVE  /\ flushabs(o) \in EncT /\ flushabs(o).abs = <<>> /\ flushabs(o).rmb = o.rmb
         /\ flushabs(o).relsize = o.relsize
<1>1. CASE o.abs = <<>>
  BY <1>1 DEF flushabs
<1>2. CASE o.abs # <<>>
  <2> DEFINE c == AbsCode + (Len(o.abs) % AbsMax)
             w == o.out \o <<c>> \o o.abs
  <2>1. o.out \in Seq(Octet) /\ o.abs \in Seq(Octet) /\ Len(o.abs) \in Nat
    BY DEF EncT
  <2>2. c \in Octet
    BY <2>1, SmallSums
  <2>3. w \in Seq(Octet) /\ <<>> \in Seq(Octet)
    BY <2>1, <2>2
  <2>4. flushabs(o) = [o EXCEPT !.out = w, !.abs = <<>>]
    BY <1>2 DEF flushabs
  <2> HIDE DEF w
  <2> QED BY <2>3, <2>4 DEF EncT
<1> QED BY <1>1, <1>2

(* flushrmb writes bytes, whatever the length of the skip. *)
LEMMA FlushRmbTyped ==
  ASSUME NEW o \in EncT
  PROVE  flushrmb(o) \in EncT
<1> DEFINE a == o.out \o <<Skip2Code>> \o BytesOf(o.rmb, 2)
           b == o.out \o <<Skip1Code>> \o BytesOf(o.rmb, 1)
<1>1. o.out \in Seq(Octet) /\ o.rmb \in Int
  BY DEF EncT
<1>2. Skip1Code \in Octet /\ Skip2Code \in Octet
  BY DEF Octet, Skip1Code, Skip2Code
<1>3. a \in Seq(Octet) /\ b \in Seq(Octet)
  <2>1. BytesOf(o.rmb, 2) \in Seq(Octet) /\ BytesOf(o.rmb, 1) \in Seq(Octet)
    BY <1>1, BytesOfTyped
  <2> QED BY <1>1, <1>2, <2>1
<1>4. \/ flushrmb(o) = o \/ flushrmb(o) = [o EXCEPT !.out = a, !.rmb = 0]
      \/ flushrmb(o) = [o EXCEPT !.out = b, !.rmb = 0]
  <2>1. CASE o.rmb = 0
    BY <2>1 DEF flushrmb
  <2>2. CASE o.rmb # 0 /\ isge2byteoffset(o.rmb)
    BY <2>2 DEF flushrmb
  <2>3. CASE o.rmb # 0 /\ ~isge2byteoffset(o.rmb)
    BY <2>3 DEF flushrmb
  <2> QED BY <2>1, <2>2, <2>3
<1> HIDE DEF a, b
<1>5. ASSUME NEW w \in Seq(Octet) PROVE [o EXCEPT !.out = w, !.rmb = 0] \in EncT
  <2>1. PICK p \in EncT : p = [o EXCEPT !.out = w]
    <3>1. [o EXCEPT !.out = w] \in EncT
      BY DEF EncT
    <3> QED BY <3>1
  <2>2. [o EXCEPT !.out = w, !.rmb = 0] = [p EXCEPT !.rmb = 0]
    BY <2>1
  <2>3. PICK z \in Int : z = 0
    OBVIOUS
  <2>4. [p EXCEPT !.rmb = z] \in EncT
    BY DEF EncT
  <2> QED BY <2>2, <2>3, <2>4
<1> QED BY <1>3, <1>4, <1>5

(* putobj writes bytes after those that are gathered. *)
LEMMA PutObjTyped ==
  ASSUME NEW o \in EncT, NEW b \in Seq(Octet)
  PROVE  putobj(o, b) \in EncT
<1>1. flushabs(o) \in EncT
  BY FlushAbsTyped
<1>2. flushrmb(flushabs(o)) \in EncT
  BY <1>1, FlushRmbTyped
<1> QED BY <1>2, PutOut DEF putobj

(* accumulate_rmb gathers a skip. *)
LEMMA AccumulateTyped ==
  ASSUME NEW o \in EncT, NEW n \in Int
  PROVE  accumulate_rmb(o, n) \in EncT
<1>1. PICK f \in EncT : f = flushabs(o)
  BY FlushAbsTyped
<1>2. accumulate_rmb(o, n) = [f EXCEPT !.rmb = @ + n]
  BY <1>1 DEF accumulate_rmb
<1>3. f.rmb + n \in Int
  BY DEF EncT
<1> QED BY <1>2, <1>3 DEF EncT

(* putabs gathers one byte. *)
LEMMA PutAbsTyped ==
  ASSUME NEW o \in EncT, NEW b \in Octet
  PROVE  putabs(o, b) \in EncT
<1>1. PICK s \in EncT : s = flushrmb(o)
  BY FlushRmbTyped
<1>2. PICK f \in EncT : f = IF Len(s.abs) = AbsMax THEN flushabs(s) ELSE s
  BY FlushAbsTyped
<1>3. putabs(o, b) = [f EXCEPT !.abs = Append(@, b)]
  BY <1>1, <1>2 DEF putabs
<1>4. Append(f.abs, b) \in Seq(Octet)
  BY DEF EncT
<1> QED BY <1>3, <1>4 DEF EncT

(* A symbol has a number in the object file. *)
LEMMA SymNumTyped ==
  ASSUME NEW a, a \in Seq(SymName), NEW n
  PROVE  SymNum(a, n) \in Nat
<1> DEFINE found == {i \in DOMAIN a : a[i] = n}
<1>1. CASE found = {}
  BY <1>1 DEF SymNum
<1>2. CASE found # {}
  <2>1. found \subseteq Nat /\ \A i \in found : i >= 1
    OBVIOUS
  <2>2. PICK least \in found : \A j \in found : least <= j
    <3> HIDE DEF found
    <3> QED BY <1>2, <2>1, LeastNat
  <2>3. \E i \in found : \A j \in found : i <= j
    BY <2>2
  <2>4. (CHOOSE i \in found : \A j \in found : i <= j) \in found
    <3> HIDE DEF found
    <3> QED BY <2>3
  <2>5. PICK c \in found : c = CHOOSE i \in found : \A j \in found : i <= j
    BY <2>4
  <2>6. SymNum(a, n) = c - 1
    BY <1>2, <2>5 DEF SymNum
  <2> QED BY <2>1, <2>6
<1> QED BY <1>1, <1>2

(* genobjadr, for an item of a line. *)
LEMMA GenObjTyped ==
  ASSUME NEW o \in EncT, NEW x \in ValueT, NEW size \in {1, 2}, NEW a \in Seq(SymName)
  PROVE  genobjadr(o, x, size, a) \in EncT
<1>1. x.val \in Int /\ x.seg \in Segs
  BY DEF ValueT
<1>2. CASE "REL" \notin x.data
  <2>1. x.val % 256 \in Octet /\ BytesOf(x.val, 2)[1] \in Octet /\ BytesOf(x.val, 2)[2] \in Octet
    <3>1. x.val % 256 \in Octet /\ (x.val \div 256) % 256 \in Octet
      BY <1>1, LowBytes
    <3>2. BytesOf(x.val, 2) = <<(x.val \div 256) % 256, x.val % 256>>
      BY DEF BytesOf
    <3> QED BY <3>1, <3>2
  <2>2. putabs(o, x.val % 256) \in EncT /\ putabs(o, BytesOf(x.val, 2)[1]) \in EncT
    BY <2>1, PutAbsTyped
  <2>3. putabs(putabs(o, BytesOf(x.val, 2)[1]), BytesOf(x.val, 2)[2]) \in EncT
    BY <2>1, <2>2, PutAbsTyped
  <2> QED BY <1>2, <2>2, <2>3 DEF genobjadr
<1>3. CASE "REL" \in x.data
  <2> DEFINE sized == IF size = o.relsize THEN o ELSE putobj([o EXCEPT !.relsize = size], <<size>>)
             num == SymNum(a, x.sym)
             wide == isge2byteoffset(num)
             off == <<OffsetCode + x.seg>> \o BytesOf(x.val, size)
             sym == <<SymbolCode + (IF wide THEN 4 ELSE 0) + SizeBits(x.val)>>
                  \o BytesOf(num, IF wide THEN 2 ELSE 1) \o BytesOf(x.val, SizeBits(x.val))
  <2>1. sized \in EncT
    <3>1. [o EXCEPT !.relsize = size] \in EncT
      BY DEF EncT
    <3>2. <<size>> \in Seq(Octet)
      BY DEF Octet
    <3> QED BY <3>1, <3>2, PutObjTyped
  <2>2. off \in Seq(Octet)
    <3>1. OffsetCode + x.seg \in Octet
      BY <1>1, SmallSums
    <3> QED BY <1>1, <3>1, BytesOfTyped
  <2>3. sym \in Seq(Octet)
    <3>1. SymbolCode + (IF wide THEN 4 ELSE 0) + SizeBits(x.val) \in Octet
      <4>1. SizeBits(x.val) \in 0..2
        BY DEF SizeBits
      <4>2. SymbolCode + 4 + SizeBits(x.val) \in Octet /\ SymbolCode + 0 + SizeBits(x.val) \in Octet
        BY <4>1, SmallSums
      <4> QED BY <4>2
    <3>2. num \in Nat /\ num \in Int
      BY SymNumTyped
    <3>3. /\ BytesOf(num, IF wide THEN 2 ELSE 1) \in Seq(Octet)
          /\ BytesOf(x.val, SizeBits(x.val)) \in Seq(Octet)
      BY <1>1, <3>2, BytesOfTyped
    <3> HIDE DEF num, wide
    <3> QED BY <3>1, <3>3
  <2>4. genobjadr(o, x, size, a) \in {putobj(sized, off), putobj(sized, sym)}
    BY <1>3 DEF genobjadr
  <2> HIDE DEF sized, off, sym
  <2> QED BY <2>1, <2>2, <2>3, <2>4, PutObjTyped
<1> QED BY <1>2, <1>3

(***************************************************************************)
(* What a line does to the symbols.  h is the table before the line.  In   *)
(* the last pass an exported symbol that is not a SET symbol keeps its     *)
(* value, or there is an error, or it is the line's label, which is        *)
(* compared with oldlabel when the line ends.                              *)
(***************************************************************************)
Keeps(h, r) ==
  /\ errs => r.errs
  /\ \A n \in DOMAIN h :
       /\ n \in DOMAIN r.syms
       /\ "EXP" \in h[n].type => "EXP" \in r.syms[n].type
       /\ "VAR" \in h[n].type => "VAR" \in r.syms[n].type
       /\ pass = 1 /\ "EXP" \in h[n].type /\ ~r.errs /\ "VAR" \notin r.syms[n].type =>
            r.syms[n].val = h[n].val \/ n = r.label
       /\ n = r.label /\ ~r.errs => r.old = h[n].val
Fine(L, h, r) == Typed(L, r) /\ Keeps(h, r)

(* Evaluating an expression changes no value in the table. *)
LEMMA EvaluatedFine ==
  ASSUME NEW L, NEW h, NEW r, NEW s, Fine(L, h, r), Evaluated(L, r, s)
  PROVE  Fine(L, h, s)
BY DEF Fine, Evaluated, Same, Keeps

(* An operation that leaves symbols and label alone. *)
LEMMA FrameFine ==
  ASSUME NEW L, NEW h, NEW r, NEW s, Fine(L, h, r), s \in WorkT(L), s.syms = r.syms,
         s.label = r.label, s.old = r.old, r.errs => s.errs
  PROVE  Fine(L, h, s)
BY DEF Fine, Typed, Keeps

(* An error changes no value in the table. *)
LEMMA ErrFine ==
  ASSUME NEW L, NEW h, NEW r, Fine(L, h, r)
  PROVE  Fine(L, h, Err(r)) /\ Fine(L, h, ErrLast(r)) /\ \A c : Fine(L, h, ErrIf(c, r))
<1>1. Typed(L, r)
  BY DEF Fine
<1>2. Evaluated(L, r, Err(r)) /\ Evaluated(L, r, ErrLast(r))
  BY <1>1, PutErr, ErrorsTyped
<1>3. Fine(L, h, Err(r)) /\ Fine(L, h, ErrLast(r))
  BY <1>2, EvaluatedFine
<1> QED BY <1>3 DEF ErrIf

(* labelerror takes the label away, with an error. *)
LEMMA LabelErrorFine ==
  ASSUME NEW L, NEW h, NEW r, Fine(L, h, r)
  PROVE  Fine(L, h, labelerror(r)) /\ labelerror(r).errs /\ labelerror(r).syms = r.syms
<1>1. labelerror(r) \in WorkT(L) /\ labelerror(r).errs /\ labelerror(r).label = ""
      /\ labelerror(r).syms = r.syms
  BY DEF labelerror, Fine, Typed, WorkT
<1> QED BY <1>1 DEF Fine, Typed, Keeps

(* A directive that refuses its label changes no value. *)
LEMMA BareFine ==
  ASSUME NEW L, NEW h, NEW r, Fine(L, h, r)
  PROVE  Fine(L, h, Bare(r))
BY LabelErrorFine DEF Bare

(* Entering a name changes no value of another. *)
LEMMA LookupFine ==
  ASSUME NEW L, NEW h, NEW r, Fine(L, h, r), NEW n \in SymName
  PROVE  Fine(L, h, lookup(n, r)) /\ n \in DOMAIN lookup(n, r).syms
BY LookupTyped, EvaluatedFine DEF Fine

(* A symbol changes: it stays exported or a SET symbol, and its value      *)
(* stays, unless it is the label, was not exported or there is an error.   *)
LEMMA PutSymFine ==
  ASSUME NEW L, NEW h, NEW r, Fine(L, h, r), NEW n \in DOMAIN r.syms, NEW y \in SymT(L),
         "EXP" \in r.syms[n].type => "EXP" \in y.type,
         "VAR" \in r.syms[n].type => "VAR" \in y.type,
         \/ y.val = r.syms[n].val \/ n = r.label \/ r.errs \/ pass # 1
         \/ "EXP" \notin r.syms[n].type \/ "VAR" \in y.type
  PROVE  LET s == [r EXCEPT !.syms[n] = y]
         IN  Fine(L, h, s) /\ s.label = r.label /\ s.errs = r.errs /\ s.old = r.old
             /\ DOMAIN s.syms = DOMAIN r.syms /\ s.syms[n] = y
<1> DEFINE t == [r.syms EXCEPT ![n] = y]
           s == [r EXCEPT !.syms = t]
<1>1. r \in WorkT(L) /\ r.syms \in Tables(L)
  BY DEF Fine, Typed, WorkT
<1>2. n \in SymName
  BY <1>1, TableGet
<1>3. /\ t \in Tables(L) /\ DOMAIN t = DOMAIN r.syms
      /\ \A m \in DOMAIN r.syms : t[m] = IF m = n THEN y ELSE r.syms[m]
  BY <1>1, <1>2, TablePut
<1>4. s = [r EXCEPT !.syms[n] = y]
  OBVIOUS
<1> HIDE DEF t
<1>5. s \in WorkT(L) /\ s.syms = t /\ s.label = r.label /\ s.errs = r.errs /\ s.old = r.old
  BY <1>1, <1>3 DEF WorkT
<1>6. Typed(L, s)
  BY <1>3, <1>5 DEF Fine, Typed
<1> HIDE DEF s
<1>7. ASSUME NEW m \in DOMAIN h
      PROVE  /\ m \in DOMAIN s.syms
             /\ "EXP" \in h[m].type => "EXP" \in s.syms[m].type
             /\ "VAR" \in h[m].type => "VAR" \in s.syms[m].type
             /\ pass = 1 /\ "EXP" \in h[m].type /\ ~s.errs /\ "VAR" \notin s.syms[m].type =>
                  s.syms[m].val = h[m].val \/ m = s.label
             /\ m = s.label /\ ~s.errs => s.old = h[m].val
  <2>1. /\ m \in DOMAIN r.syms
        /\ "EXP" \in h[m].type => "EXP" \in r.syms[m].type
        /\ "VAR" \in h[m].type => "VAR" \in r.syms[m].type
        /\ pass = 1 /\ "EXP" \in h[m].type /\ ~r.errs /\ "VAR" \notin r.syms[m].type =>
             r.syms[m].val = h[m].val \/ m = r.label
        /\ m = r.label /\ ~r.errs => r.old = h[m].val
    BY DEF Fine, Keeps
  <2> QED BY <1>3, <1>5, <2>1
<1>8. Keeps(h, s)
  BY <1>5, <1>7 DEF Keeps, Fine
<1> QED BY <1>3, <1>4, <1>5, <1>6, <1>8 DEF Fine

(* What putting a symbol into the table does to it. *)
LEMMA PutSymIs ==
  ASSUME NEW L, NEW h, NEW r, Fine(L, h, r), NEW n \in DOMAIN r.syms, NEW y \in SymT(L),
         "EXP" \in r.syms[n].type => "EXP" \in y.type,
         "VAR" \in r.syms[n].type => "VAR" \in y.type,
         \/ y.val = r.syms[n].val \/ n = r.label \/ r.errs \/ pass # 1
         \/ "EXP" \notin r.syms[n].type \/ "VAR" \in y.type,
         NEW s, s = [r EXCEPT !.syms[n] = y]
  PROVE  /\ Fine(L, h, s) /\ s.label = r.label /\ s.errs = r.errs /\ s.old = r.old
         /\ DOMAIN s.syms = DOMAIN r.syms /\ s.syms[n] = y
BY PutSymFine

(* An entry of the table is a symbol. *)
LEMMA SymOf ==
  ASSUME NEW L, NEW h, NEW r, Fine(L, h, r), NEW n \in DOMAIN r.syms
  PROVE  /\ n \in SymName /\ r.syms[n] \in SymT(L) /\ n # ""
         /\ r.syms[n].type \in Flags /\ r.syms[n].data \in Flags /\ r.syms[n].seg \in Segs
         /\ r.syms[n].val \in Int /\ r.syms[n].text \in Seq(L)
<1>1. r.syms \in Tables(L)
  BY DEF Fine, Typed, WorkT
<1>2. n \in SymName /\ r.syms[n] \in SymT(L)
  BY <1>1, TableGet
<1> QED BY <1>2 DEF SymT, SymName, Name

(* lastexp is a value. *)
LEMMA XOf ==
  ASSUME NEW L, NEW h, NEW r, Fine(L, h, r)
  PROVE  /\ r.x \in ValueT /\ r.x.val \in Int /\ r.x.data \in Flags /\ r.x.seg \in Segs
         /\ r.loc \in LocT /\ r.loc.lc \in Int /\ r.loc.data \in Flags /\ r.loc.seg \in Segs
         /\ r.loc.cur \in Segs /\ r.loc.tab \in [Segs -> CounterT] /\ r.loc.apart \in BOOLEAN
         /\ r.enc \in EncT /\ r.code \in Seq(ItemT) /\ r.old \in Int /\ r.jump \in Int
         /\ r.label = "" \/ r.label \in DOMAIN r.syms
BY DEF Fine, Typed, WorkT, ValueT, LocT

(* One variable that is neither symbols nor label changes. *)
LEMMA PutFine ==
  ASSUME NEW L, NEW h, NEW r, Fine(L, h, r)
  PROVE  /\ \A l \in LocT : Fine(L, h, [r EXCEPT !.loc = l])
         /\ \A o \in EncT : Fine(L, h, [r EXCEPT !.enc = o])
         /\ \A c \in Seq(ItemT) : Fine(L, h, [r EXCEPT !.code = c])
         /\ \A k \in Int : Fine(L, h, [r EXCEPT !.jump = k])
         /\ \A x \in ValueT : Fine(L, h, [r EXCEPT !.x = x])
         /\ Fine(L, h, [r EXCEPT !.dirty = TRUE])
<1>1. ASSUME NEW l \in LocT PROVE Fine(L, h, [r EXCEPT !.loc = l])
  <2>1. PICK s : s = [r EXCEPT !.loc = l]
    OBVIOUS
  <2>2. s \in WorkT(L) /\ s.syms = r.syms /\ s.label = r.label /\ s.old = r.old /\ s.errs = r.errs
    BY <2>1 DEF Fine, Typed, WorkT
  <2> QED BY <2>1, <2>2, FrameFine
<1>2. ASSUME NEW o \in EncT PROVE Fine(L, h, [r EXCEPT !.enc = o])
  <2>1. PICK s : s = [r EXCEPT !.enc = o]
    OBVIOUS
  <2>2. s \in WorkT(L) /\ s.syms = r.syms /\ s.label = r.label /\ s.old = r.old /\ s.errs = r.errs
    BY <2>1 DEF Fine, Typed, WorkT
  <2> QED BY <2>1, <2>2, FrameFine
<1>3. ASSUME NEW c \in Seq(ItemT) PROVE Fine(L, h, [r EXCEPT !.code = c])
  <2>1. PICK s : s = [r EXCEPT !.code = c]
    OBVIOUS
  <2>2. s \in WorkT(L) /\ s.syms = r.syms /\ s.label = r.label /\ s.old = r.old /\ s.errs = r.errs
    BY <2>1 DEF Fine, Typed, WorkT
  <2> QED BY <2>1, <2>2, FrameFine
<1>4. ASSUME NEW k \in Int PROVE Fine(L, h, [r EXCEPT !.jump = k])
  <2>1. PICK s : s = [r EXCEPT !.jump = k]
    OBVIOUS
  <2>2. s \in WorkT(L) /\ s.syms = r.syms /\ s.label = r.label /\ s.old = r.old /\ s.errs = r.errs
    BY <2>1 DEF Fine, Typed, WorkT
  <2> QED BY <2>1, <2>2, FrameFine
<1>5. ASSUME NEW x \in ValueT PROVE Fine(L, h, [r EXCEPT !.x = x])
  <2>1. PICK s : s = [r EXCEPT !.x = x]
    OBVIOUS
  <2>2. s \in WorkT(L) /\ s.syms = r.syms /\ s.label = r.label /\ s.old = r.old /\ s.errs = r.errs
    BY <2>1 DEF Fine, Typed, WorkT
  <2> QED BY <2>1, <2>2, FrameFine
<1>6. Fine(L, h, [r EXCEPT !.dirty = TRUE])
  <2>1. PICK s : s = [r EXCEPT !.dirty = TRUE]
    OBVIOUS
  <2>2. s \in WorkT(L) /\ s.syms = r.syms /\ s.label = r.label /\ s.old = r.old /\ s.errs = r.errs
    BY <2>1 DEF Fine, Typed, WorkT
  <2> QED BY <2>1, <2>2, FrameFine
<1> QED BY <1>1, <1>2, <1>3, <1>4, <1>5, <1>6

(* A skip changes no value. *)
LEMMA RmbFine ==
  ASSUME NEW L, NEW h, NEW r, Fine(L, h, r), NEW n \in Int
  PROVE  /\ Fine(L, h, Rmb(r, n)) /\ Rmb(r, n).x = r.x /\ Rmb(r, n).loc = r.loc
         /\ Rmb(r, n).syms = r.syms /\ Rmb(r, n).label = r.label
<1>1. r.enc \in EncT
  BY XOf
<1>2. PICK o \in EncT : o = accumulate_rmb(r.enc, n)
  BY <1>1, AccumulateTyped
<1>3. Rmb(r, n) = [r EXCEPT !.enc = o] \/ Rmb(r, n) = r
  BY <1>2 DEF Rmb
<1>4. /\ [r EXCEPT !.enc = o].x = r.x /\ [r EXCEPT !.enc = o].loc = r.loc
      /\ [r EXCEPT !.enc = o].syms = r.syms /\ [r EXCEPT !.enc = o].label = r.label
  BY DEF Fine, Typed, WorkT
<1>5. Fine(L, h, [r EXCEPT !.enc = o])
  BY PutFine
<1> QED BY <1>3, <1>4, <1>5

(* Adding code changes no value. *)
LEMMA CodeFine ==
  ASSUME NEW L, NEW h, NEW r, Fine(L, h, r), NEW size \in {1, 2}, NEW v \in Int
  PROVE  Fine(L, h, Code(r, size)) /\ Fine(L, h, Literal(r, v))
<1>1. r.x \in ValueT /\ r.code \in Seq(ItemT)
  BY XOf
<1>2. Item(r.x, size) \in ItemT /\ Item(Value(v, {}, 0), 1) \in ItemT
  BY <1>1, SomeFlags, SegsHave DEF Item, ItemT, Value, ValueT
<1>3. /\ Append(r.code, Item(r.x, size)) \in Seq(ItemT)
      /\ Append(r.code, Item(Value(v, {}, 0), 1)) \in Seq(ItemT)
  BY <1>1, <1>2
<1>4. /\ Code(r, size) = [r EXCEPT !.code = Append(r.code, Item(r.x, size))]
      /\ Literal(r, v) = [r EXCEPT !.code = Append(r.code, Item(Value(v, {}, 0), 1))]
  BY DEF Code, Literal
<1>5. \A c \in Seq(ItemT) : Fine(L, h, [r EXCEPT !.code = c])
  BY PutFine
<1> QED BY <1>3, <1>4, <1>5

(* setloc; a counter's number fits beside the command. *)
LEMMA SetLocFine ==
  ASSUME NEW L, NEW h, NEW r, Fine(L, h, r), NEW seg \in Segs
  PROVE  /\ Fine(L, h, setloc(seg, r)) /\ setloc(seg, r).x = r.x /\ setloc(seg, r).syms = r.syms
         /\ setloc(seg, r).label = r.label
<1> DEFINE tab == [r.loc.tab EXCEPT ![r.loc.cur] = [data |-> r.loc.data, lc |-> r.loc.lc]]
           told == IF pass = last_pass /\ seg # r.loc.seg
                   THEN [r EXCEPT !.enc = putobj(@, <<SegCode + seg>>)] ELSE r
           l == [lc |-> tab[seg].lc, data |-> tab[seg].data, seg |-> seg, cur |-> seg, tab |-> tab,
                 apart |-> r.loc.apart \/ (seg = r.loc.seg /\ seg # r.loc.cur)]
<1>1. r.enc \in EncT /\ <<SegCode + seg>> \in Seq(Octet)
  <2>1. SegCode + seg \in Octet
    BY SmallSums
  <2>2. r.enc \in EncT
    BY XOf
  <2> QED BY <2>1, <2>2
<1>2. PICK o \in EncT : o = putobj(r.enc, <<SegCode + seg>>)
  BY <1>1, PutObjTyped
<1>3. told = [r EXCEPT !.enc = o] \/ told = r
  BY <1>2
<1>4. /\ Fine(L, h, told) /\ told.loc = r.loc /\ told.x = r.x /\ told.syms = r.syms
      /\ told.label = r.label
  <2>1. /\ [r EXCEPT !.enc = o].x = r.x /\ [r EXCEPT !.enc = o].loc = r.loc
        /\ [r EXCEPT !.enc = o].syms = r.syms /\ [r EXCEPT !.enc = o].label = r.label
    BY DEF Fine, Typed, WorkT
  <2>2. Fine(L, h, [r EXCEPT !.enc = o])
    BY PutFine
  <2> HIDE DEF told
  <2> QED BY <1>3, <2>1, <2>2
<1>5. tab \in [Segs -> CounterT]
  BY XOf DEF CounterT
<1>6. l \in LocT
  <2>1. tab[seg].lc \in Int /\ tab[seg].data \in Flags
    <3> HIDE DEF tab
    <3> QED BY <1>5 DEF CounterT
  <2>2. (r.loc.apart \/ (seg = r.loc.seg /\ seg # r.loc.cur)) \in BOOLEAN
    OBVIOUS
  <2> HIDE DEF tab
  <2> QED BY <1>5, <2>1, <2>2 DEF LocT
<1>7. setloc(seg, r) = [told EXCEPT !.loc = l]
  BY DEF setloc
<1> HIDE DEF l, told
<1>8. /\ [told EXCEPT !.loc = l].x = told.x /\ [told EXCEPT !.loc = l].syms = told.syms
      /\ [told EXCEPT !.loc = l].label = told.label
  BY <1>4 DEF Fine, Typed, WorkT
<1>9. Fine(L, h, [told EXCEPT !.loc = l])
  BY <1>4, <1>6, PutFine
<1> QED BY <1>4, <1>7, <1>8, <1>9

(***************************************************************************)
(* The operations of a line.                                               *)
(***************************************************************************)
LEMMA ExprFine ==
  ASSUME NEW L, NEW h, NEW r, Fine(L, h, r), NEW e, IsExpr(e)
  PROVE  /\ Fine(L, h, expres(e, r)) /\ Fine(L, h, absexpres(e, r)) /\ Fine(L, h, nonimpexpres(e, r))
         /\ Same(r, expres(e, r)) /\ Same(r, absexpres(e, r)) /\ Same(r, nonimpexpres(e, r))
<1>1. Typed(L, r)
  BY DEF Fine
<1>2. /\ Evaluated(L, r, expres(e, r)) /\ Evaluated(L, r, absexpres(e, r))
      /\ Evaluated(L, r, nonimpexpres(e, r))
  BY <1>1, ExpresTyped, AbsTyped, NonimpTyped
<1> QED BY <1>2, EvaluatedFine DEF Evaluated

(* checkdatabounds changes no value. *)
LEMMA BoundsFine ==
  ASSUME NEW L, NEW h, NEW r, Fine(L, h, r)
  PROVE  Fine(L, h, checkdatabounds(r))
BY ErrFine DEF checkdatabounds

(* FCB and FDB, one operand. *)
LEMMA DataFine ==
  ASSUME NEW L, NEW h, NEW r, Fine(L, h, r), NEW e, IsExpr(e)
  PROVE  Fine(L, h, pfcb(e, r)) /\ Fine(L, h, pfdb(e, r))
<1>1. Fine(L, h, absexpres(e, r)) /\ Fine(L, h, expres(e, r))
  BY ExprFine
<1>2. Fine(L, h, checkdatabounds(absexpres(e, r)))
  BY <1>1, BoundsFine
<1>3. 0 \in Int
  OBVIOUS
<1> QED BY <1>1, <1>2, <1>3, CodeFine DEF pfcb, pfdb

(* Only data and segment of the imported name change. *)
LEMMA ImportFine ==
  ASSUME NEW L, NEW h, NEW r0, Fine(L, h, r0), NEW n \in SymName
  PROVE  Fine(L, h, DeclareImport(n, r0))
<1>1. PICK r : r = lookup(n, r0)
  OBVIOUS
<1>2. Fine(L, h, r) /\ n \in DOMAIN r.syms
  BY <1>1, LookupFine
<1> DEFINE d == r.loc.data \union {"FOR", "IMP", "REL"}
           y == [r.syms[n] EXCEPT !.data = d, !.seg = r.loc.seg]
           s == [r EXCEPT !.syms[n].data = d, !.syms[n].seg = r.loc.seg]
<1>3. DeclareImport(n, r0) = Err(r) \/ DeclareImport(n, r0) = s
  BY <1>1 DEF DeclareImport, Bind
<1>4. d \in Flags /\ r.loc.seg \in Segs
  BY <1>2, XOf, SomeFlags
<1>5. y \in SymT(L) /\ y.type = r.syms[n].type /\ y.val = r.syms[n].val
  BY <1>2, <1>4, SymOf DEF SymT
<1>6. s = [r EXCEPT !.syms[n] = y]
  OBVIOUS
<1>7. Fine(L, h, s)
  <2> HIDE DEF y, s
  <2> QED BY <1>2, <1>5, <1>6, PutSymFine
<1> QED BY <1>2, <1>3, <1>7, ErrFine

(* ENTRY, EXPORT and .GLOBL add to a symbol's type. *)
LEMMA ExportFine ==
  ASSUME NEW L, NEW h, NEW r0, Fine(L, h, r0), NEW n \in SymName, NEW kind
  PROVE  Fine(L, h, doentexp(n, kind, r0))
<1>1. PICK r : r = lookup(n, r0)
  OBVIOUS
<1>2. Fine(L, h, r) /\ n \in DOMAIN r.syms
  BY <1>1, LookupFine
<1> DEFINE s == r.syms[n]
           seg == IF "IMP" \in s.data THEN s.seg ELSE NLoc - 1
           y1 == [s EXCEPT !.type = @ \union {"EXP"}]
           y2 == [s EXCEPT !.type = @ \union {"RED"}, !.data = @ \union {"IMP"},
                           !.seg = IF "IMP" \in s.data THEN @ ELSE NLoc - 1]
           y3 == [s EXCEPT !.type = @ \union (IF kind = "entry" THEN {"ENT", "EXP"} ELSE {"EXP"}),
                           !.data = @ \ {"IMP"}]
<1>3. \/ doentexp(n, kind, r0) = r \/ doentexp(n, kind, r0) = Err(r)
      \/ doentexp(n, kind, r0) = [r EXCEPT !.syms[n] = y1]
      \/ doentexp(n, kind, r0) = [r EXCEPT !.syms[n] = y2]
      \/ doentexp(n, kind, r0) = [r EXCEPT !.syms[n] = y3]
  BY <1>1 DEF doentexp, Bind, ErrIf
<1>4. /\ s \in SymT(L) /\ s.type \in Flags /\ s.data \in Flags /\ s.seg \in Segs /\ s.val \in Int
  BY <1>2, SymOf
<1>5. /\ s.type \union {"EXP"} \in Flags /\ s.type \union {"RED"} \in Flags
      /\ s.type \union {"ENT", "EXP"} \in Flags /\ s.data \union {"IMP"} \in Flags
      /\ s.data \ {"IMP"} \in Flags /\ seg \in Segs
  BY <1>4, SegsHave DEF Flags
<1>6. PICK a, b, c, d, e : /\ a = s.type \union {"EXP"} /\ b = s.type \union {"RED"}
                           /\ c = s.type \union (IF kind = "entry" THEN {"ENT", "EXP"} ELSE {"EXP"})
                           /\ d = s.data \union {"IMP"} /\ e = s.data \ {"IMP"}
  OBVIOUS
<1>7. a \in Flags /\ b \in Flags /\ c \in Flags /\ d \in Flags /\ e \in Flags
  BY <1>5, <1>6
<1>8. /\ y1 = [s EXCEPT !.type = a] /\ y2 = [s EXCEPT !.type = b, !.data = d, !.seg = seg]
      /\ y3 = [s EXCEPT !.type = c, !.data = e]
  BY <1>6
<1>9. /\ "EXP" \in s.type => "EXP" \in a /\ "EXP" \in b /\ "EXP" \in c
      /\ "VAR" \in s.type => "VAR" \in a /\ "VAR" \in b /\ "VAR" \in c
  BY <1>6
<1>10. PICK g \in Segs : g = seg
  BY <1>5
<1> HIDE DEF seg, y1, y2, y3
<1>11. /\ y1 \in SymT(L) /\ y1.type = a /\ y1.val = s.val
       /\ y2 \in SymT(L) /\ y2.type = b /\ y2.val = s.val
       /\ y3 \in SymT(L) /\ y3.type = c /\ y3.val = s.val
  BY <1>4, <1>7, <1>8, <1>10 DEF SymT
<1>12. /\ Fine(L, h, [r EXCEPT !.syms[n] = y1]) /\ Fine(L, h, [r EXCEPT !.syms[n] = y2])
       /\ Fine(L, h, [r EXCEPT !.syms[n] = y3])
  BY <1>2, <1>9, <1>11, PutSymFine
<1> QED BY <1>2, <1>3, <1>12, ErrFine, SMTT(40)

(* One of a line's operands. *)
ElementOK(op, v) ==
  /\ op \in {"fcb", "fdb"} => IsExpr(v)
  /\ op \notin {"fcb", "fdb"} => v \in SymName

(* One operand of a line that has several. *)
LEMMA ElementFine ==
  ASSUME NEW L, NEW h, NEW r, Fine(L, h, r), NEW op, NEW v, ElementOK(op, v)
  PROVE  Fine(L, h, Element(op, v, r))
<1>1. CASE op = "fcb"
  BY <1>1, DataFine DEF Element, ElementOK
<1>2. CASE op = "fdb"
  BY <1>2, DataFine DEF Element, ElementOK
<1>3. CASE op = "import"
  BY <1>3, ImportFine DEF Element, ElementOK
<1>4. CASE op \notin {"fcb", "fdb", "import"}
  <2>1. Element(op, v, r) = doentexp(v, op, r)
    BY <1>4 DEF Element
  <2> QED BY <1>4, <2>1, ExportFine DEF ElementOK
<1> QED BY <1>1, <1>2, <1>3, <1>4

(* The function that Each defines. *)
Onebyone(g, op, list, r, n) ==
  g = [i \in 0..n |-> IF i = 0 THEN r ELSE Element(op, list[i], g[i - 1])]

(* The recursive function in Each has a value for every operand. *)
LEMMA OnebyoneExists ==
  ASSUME NEW op, NEW list, NEW r
  PROVE  \A n \in Nat : \E g : Onebyone(g, op, list, r, n)
<1> DEFINE Fits(g, n) == Onebyone(g, op, list, r, n)
           T == {n \in Nat : \E g : Fits(g, n)}
<1>1. 0 \in T
  <2> DEFINE g == [i \in 0..0 |-> r]
  <2>1. Fits(g, 0)
    BY DEF Onebyone
  <2> QED BY <2>1
<1>2. ASSUME NEW n \in Nat, n \in T PROVE n + 1 \in T
  <2>1. PICK g : Fits(g, n)
    BY <1>2
  <2> DEFINE k == [i \in 0..(n + 1) |-> IF i = n + 1 THEN Element(op, list[n + 1], g[n]) ELSE g[i]]
             f == [i \in 0..(n + 1) |-> IF i = 0 THEN r ELSE Element(op, list[i], k[i - 1])]
  <2>2. ASSUME NEW i \in 0..(n + 1) PROVE k[i] = f[i]
    <3>1. CASE i = 0
      <4>1. g[0] = r
        BY <2>1 DEF Onebyone
      <4> QED BY <3>1, <4>1
    <3>2. CASE i = n + 1
      <4>1. k[n] = g[n] /\ i - 1 = n
        BY <3>2
      <4> QED BY <3>2, <4>1
    <3>3. CASE i \in 1..n
      <4>1. i \in 0..n /\ i # 0 /\ k[i] = g[i] /\ k[i - 1] = g[i - 1]
        BY <3>3
      <4>2. g[i] = Element(op, list[i], g[i - 1])
        BY <2>1, <4>1 DEF Onebyone
      <4> QED BY <4>1, <4>2
    <3> QED BY <3>1, <3>2, <3>3
  <2>3. k = f
    <3> HIDE DEF k, f
    <3>1. k = [i \in 0..(n + 1) |-> k[i]] /\ f = [i \in 0..(n + 1) |-> f[i]]
      BY DEF k, f
    <3> QED BY <2>2, <3>1
  <2>4. Fits(k, n + 1)
    BY <2>3 DEF Onebyone
  <2>5. n + 1 \in Nat /\ \E kk : Fits(kk, n + 1)
    <3> HIDE DEF k, Fits
    <3> QED BY <2>4
  <2> QED BY <2>5
<1>3. \A n \in Nat : n \in T
  <2> HIDE DEF T
  <2> QED BY <1>1, <1>2, SetInduction
<1> QED BY <1>3

(* Each is the value of that function at the last operand. *)
LEMMA EachIs ==
  ASSUME NEW op, NEW list, NEW r, Len(list) \in Nat
  PROVE  \E g : Onebyone(g, op, list, r, Len(list)) /\ Each(op, list, r) = g[Len(list)]
<1>1. PICK n \in Nat : n = Len(list)
  OBVIOUS
<1>2. PICK g : Onebyone(g, op, list, r, n)
  BY OnebyoneExists
<1> DEFINE Eq(k) == k = [i \in 0..Len(list) |-> IF i = 0 THEN r
                           ELSE Bind(k[i - 1], LAMBDA s : Element(op, list[i], s))]
           f == CHOOSE k : Eq(k)
<1>3. \A k : Eq(k) <=> Onebyone(k, op, list, r, Len(list))
  <2> TAKE k
  <2>1. \A i \in 0..Len(list) :
          (IF i = 0 THEN r ELSE Bind(k[i - 1], LAMBDA s : Element(op, list[i], s)))
            = IF i = 0 THEN r ELSE Element(op, list[i], k[i - 1])
    BY DEF Bind
  <2> QED BY <2>1 DEF Onebyone, Bind
<1>4. Eq(f)
  <2>1. Eq(g)
    BY <1>1, <1>2, <1>3
  <2> HIDE DEF Eq
  <2> QED BY <2>1
<1>5. Onebyone(f, op, list, r, Len(list))
  <2> HIDE DEF Eq, f
  <2> QED BY <1>3, <1>4
<1>6. Each(op, list, r) = f[Len(list)]
  BY Zenon DEF Each
<1> HIDE DEF f
<1> QED BY <1>5, <1>6

(* All operands of a line (FCB, FDB, IMPORT, ENTRY, EXPORT, .GLOBL). *)
LEMMA EachFine ==
  ASSUME NEW L, NEW h, NEW r, Fine(L, h, r), NEW op, NEW list, Len(list) \in Nat,
         \A i \in 1..Len(list) : ElementOK(op, list[i])
  PROVE  Fine(L, h, Each(op, list, r))
<1>1. PICK g : Onebyone(g, op, list, r, Len(list)) /\ Each(op, list, r) = g[Len(list)]
  BY EachIs
<1> DEFINE T == {i \in Nat : i <= Len(list) => Fine(L, h, g[i])}
<1>2. 0 \in T
  <2>1. 0 \in 0..Len(list)
    OBVIOUS
  <2>2. g[0] = r
    BY <1>1, <2>1 DEF Onebyone
  <2> QED BY <2>2
<1>3. ASSUME NEW i \in Nat, i \in T PROVE i + 1 \in T
  <2> SUFFICES ASSUME i + 1 <= Len(list) PROVE Fine(L, h, g[i + 1])
    OBVIOUS
  <2>1. PICK k : k = i + 1
    OBVIOUS
  <2>2. k \in 0..Len(list) /\ k # 0 /\ k - 1 = i /\ k \in 1..Len(list) /\ i <= Len(list)
    BY <2>1
  <2>3. g[k] = Element(op, list[k], g[k - 1])
    BY <1>1, <2>2 DEF Onebyone
  <2>4. Fine(L, h, g[i]) /\ ElementOK(op, list[k])
    BY <1>3, <2>2
  <2> QED BY <2>1, <2>2, <2>3, <2>4, ElementFine
<1>4. \A i \in Nat : i \in T
  <2> HIDE DEF T
  <2> QED BY <1>2, <1>3, SetInduction
<1>5. Len(list) \in T
  BY <1>4
<1> QED BY <1>1, <1>5

(* FCC. *)
LEMMA FccFine ==
  ASSUME NEW L, NEW h, NEW r, Fine(L, h, r), NEW l, l.n \in Nat
  PROVE  Fine(L, h, pfcc(l, r))
<1> DEFINE c == [i \in 1..l.n |-> Item(Value(i, {}, 0), 1)]
<1>1. \A i \in 1..l.n : Item(Value(i, {}, 0), 1) \in ItemT
  BY SomeFlags, SegsHave DEF Item, ItemT, Value, ValueT
<1>2. c \in Seq(ItemT)
  BY <1>1
<1>3. pfcc(l, r) = [r EXCEPT !.code = c]
  BY DEF pfcc
<1> HIDE DEF c
<1>4. Fine(L, h, [r EXCEPT !.code = c])
  BY <1>2, PutFine
<1> QED BY <1>3, <1>4

(* RMB with a fill byte. *)
LEMMA FilledFine ==
  ASSUME NEW L, NEW h, NEW r, Fine(L, h, r), NEW n \in Int
  PROVE  Fine(L, h, Filled(n, r))
<1> DEFINE c == [i \in 1..n |-> Item(r.x, 1)]
<1>1. Item(r.x, 1) \in ItemT
  BY XOf DEF Item, ItemT
<1>2. c \in Seq(ItemT)
  <2>1. CASE n \in Nat
    BY <1>1, <2>1
  <2>2. CASE n \notin Nat
    <3>1. 1..n = 1..0
      BY <2>2
    <3>2. c = [i \in 1..0 |-> Item(r.x, 1)]
      BY <3>1
    <3> QED BY <3>2
  <2> QED BY <2>1, <2>2
<1>3. Filled(n, r) = [r EXCEPT !.code = c]
  BY DEF Filled
<1> HIDE DEF c
<1>4. Fine(L, h, [r EXCEPT !.code = c])
  BY <1>2, PutFine
<1> QED BY <1>3, <1>4

(* A counter's value, or its flags and segment, change. *)
LEMMA PutLc ==
  ASSUME NEW L, NEW h, NEW r, Fine(L, h, r)
  PROVE  /\ \A v \in Int : Fine(L, h, [r EXCEPT !.loc.lc = v])
         /\ \A d \in Flags, g \in Segs : Fine(L, h, [r EXCEPT !.loc.data = d, !.loc.seg = g])
         /\ \A v \in Int, d \in Flags, g \in Segs :
              Fine(L, h, [r EXCEPT !.loc.lc = v, !.loc.data = d, !.loc.seg = g])
<1>0. r.loc \in LocT
  BY XOf
<1>1. ASSUME NEW v \in Int PROVE Fine(L, h, [r EXCEPT !.loc.lc = v])
  <2>1. PICK l \in LocT : l = [r.loc EXCEPT !.lc = v]
    <3>1. [r.loc EXCEPT !.lc = v] \in LocT
      BY <1>0 DEF LocT
    <3> QED BY <3>1
  <2>2. [r EXCEPT !.loc.lc = v] = [r EXCEPT !.loc = l]
    BY <2>1
  <2> QED BY <2>2, PutFine
<1>2. ASSUME NEW d \in Flags, NEW g \in Segs
      PROVE  Fine(L, h, [r EXCEPT !.loc.data = d, !.loc.seg = g])
  <2>1. PICK l \in LocT : l = [r.loc EXCEPT !.data = d, !.seg = g]
    <3>1. [r.loc EXCEPT !.data = d, !.seg = g] \in LocT
      BY <1>0 DEF LocT
    <3> QED BY <3>1
  <2>2. [r EXCEPT !.loc.data = d, !.loc.seg = g] = [r EXCEPT !.loc = l]
    BY <2>1 DEF Fine, Typed, WorkT
  <2> QED BY <2>2, PutFine
<1>3. ASSUME NEW v \in Int, NEW d \in Flags, NEW g \in Segs
      PROVE  Fine(L, h, [r EXCEPT !.loc.lc = v, !.loc.data = d, !.loc.seg = g])
  <2>1. PICK l \in LocT : l = [r.loc EXCEPT !.lc = v, !.data = d, !.seg = g]
    <3>1. [r.loc EXCEPT !.lc = v, !.data = d, !.seg = g] \in LocT
      BY <1>0 DEF LocT
    <3> QED BY <3>1
  <2>2. [r EXCEPT !.loc.lc = v, !.loc.data = d, !.loc.seg = g] = [r EXCEPT !.loc = l]
    BY <2>1 DEF Fine, Typed, WorkT
  <2> QED BY <2>2, PutFine
<1> QED BY <1>1, <1>2, <1>3

(* The counter becomes undefined with its operand. *)
LEMMA BoundFine ==
  ASSUME NEW L, NEW h, NEW r, Fine(L, h, r)
  PROVE  Fine(L, h, Bound(r))
<1>1. PICK d \in Flags, g \in Segs : d = r.loc.data \union r.x.data /\ g = Or(r.loc.seg, r.x.seg)
  <2>1. r.loc.data \union r.x.data \in Flags /\ Or(r.loc.seg, r.x.seg) \in Segs
    BY XOf, SomeFlags, OrTyped
  <2> QED BY <2>1
<1>2. Bound(r) = [r EXCEPT !.loc.data = d, !.loc.seg = g]
  BY <1>1 DEF Bound
<1>3. Fine(L, h, [r EXCEPT !.loc.data = d, !.loc.seg = g])
  BY PutLc
<1> QED BY <1>2, <1>3

(* RMB and .BLKW. *)
LEMMA ConstDataFine ==
  ASSUME NEW L, NEW h, NEW r0, Fine(L, h, r0), NEW l, IsExpr(l.e), NEW size \in {1, 2},
         size = 1 => l.fill = <<>> \/ IsExpr(l.fill)
  PROVE  Fine(L, h, constdata(l, size, r0))
<1>1. PICK r : r = Bound(absexpres(l.e, r0))
  OBVIOUS
<1>2. Fine(L, h, r)
  BY <1>1, ExprFine, BoundFine
<1>3. PICK v \in Int : v = r.x.val * size
  <2>1. r.x.val \in Int
    BY <1>2, XOf
  <2>2. r.x.val * size \in Int
    BY <2>1
  <2> QED BY <2>2
<1>4. PICK q : q = Rmb(r, v)
  OBVIOUS
<1>5. Fine(L, h, [q EXCEPT !.jump = v])
  BY <1>2, <1>4, RmbFine, PutFine
<1>6. PICK s : s = checkdatabounds(absexpres(l.fill, r))
  OBVIOUS
<1>7. \/ constdata(l, size, r0) = r
      \/ constdata(l, size, r0) = [q EXCEPT !.jump = v]
      \/ size = 1 /\ l.fill # <<>> /\ constdata(l, size, r0) = Filled(v, s)
  BY <1>1, <1>3, <1>4, <1>6 DEF constdata, Bind, NoFill
<1>8. size = 1 /\ l.fill # <<>> => Fine(L, h, Filled(v, s))
  <2> SUFFICES ASSUME size = 1, l.fill # <<>> PROVE Fine(L, h, Filled(v, s))
    OBVIOUS
  <2>1. Fine(L, h, absexpres(l.fill, r))
    BY <1>2, ExprFine
  <2>2. Fine(L, h, s)
    BY <2>1, <1>6, BoundsFine
  <2> QED BY <2>2, FilledFine
<1> QED BY <1>2, <1>5, <1>7, <1>8

(* ALIGN. *)
LEMMA AlignFine ==
  ASSUME NEW L, NEW h, NEW r0, Fine(L, h, r0), NEW l, IsExpr(l.e)
  PROVE  Fine(L, h, palign(l, r0))
<1>1. PICK r : r = Bound(absexpres(l.e, r0))
  OBVIOUS
<1>2. Fine(L, h, r)
  BY <1>1, ExprFine, BoundFine
<1>3. PICK over : over = IF Unsigned(r.x.val) = 0 THEN 0 ELSE Unsigned(r.loc.lc) % Unsigned(r.x.val)
  OBVIOUS
<1>4. r.x.val \in Int /\ r.loc.lc \in Int
  BY <1>2, XOf
<1>5. over \in Int
  <2>1. \A v \in Int : Unsigned(v) \in Nat
    BY LimitsAssumption DEF Unsigned
  <2>2. PICK a, b \in Nat : a = Unsigned(r.x.val) /\ b = Unsigned(r.loc.lc)
    BY <1>4, <2>1
  <2>3. a # 0 => b % a \in Int
    OBVIOUS
  <2> QED BY <1>3, <2>2, <2>3
<1>6. PICK v \in Int : v = r.x.val - over
  BY <1>4, <1>5
<1>7. PICK q : q = Rmb(r, v)
  OBVIOUS
<1>8. Fine(L, h, [q EXCEPT !.jump = v])
  BY <1>2, <1>7, RmbFine, PutFine
<1>9. palign(l, r0) = r \/ palign(l, r0) = [q EXCEPT !.jump = v]
  BY <1>1, <1>3, <1>6, <1>7 DEF palign, Bind
<1> QED BY <1>2, <1>8, <1>9

(* .EVEN. *)
LEMMA EvenFine ==
  ASSUME NEW L, NEW h, NEW r, Fine(L, h, r), NEW l
  PROVE  Fine(L, h, peven(l, r))
<1>1. PICK v \in Int : v = r.loc.lc % 2
  <2>1. r.loc.lc \in Int
    BY XOf
  <2>2. r.loc.lc % 2 \in Int
    BY <2>1
  <2> QED BY <2>2
<1>2. PICK q : q = Rmb(r, v)
  OBVIOUS
<1>3. Fine(L, h, q)
  BY <1>2, RmbFine
<1>4. peven(l, r) = [q EXCEPT !.jump = v]
  BY <1>1, <1>2 DEF peven
<1>5. Fine(L, h, [q EXCEPT !.jump = v])
  BY <1>3, PutFine
<1> QED BY <1>4, <1>5

(* ORG, and BLOCK with it. *)
LEMMA OrgFine ==
  ASSUME NEW L, NEW h, NEW r0, Fine(L, h, r0), NEW l, IsExpr(l.e)
  PROVE  Fine(L, h, porg(l, r0))
<1>1. PICK r : r = absexpres(l.e, Bare(r0))
  OBVIOUS
<1>2. Fine(L, h, r)
  BY <1>1, BareFine, ExprFine
<1>3. PICK d \in Flags, g \in Segs, x \in Int : d = r.x.data /\ g = r.x.seg /\ x = r.x.val
  BY <1>2, XOf
<1>4. PICK b : b = [r EXCEPT !.loc.data = d, !.loc.seg = g]
  OBVIOUS
<1>5. Fine(L, h, b)
  BY <1>2, <1>4, PutLc
<1>6. PICK v \in Int : v = r.x.val - r.loc.lc
  <2>1. r.x.val \in Int /\ r.loc.lc \in Int
    BY <1>2, XOf
  <2> QED BY <2>1
<1>7. PICK q : q = Rmb(b, v)
  OBVIOUS
<1>8. Fine(L, h, q)
  BY <1>5, <1>7, RmbFine
<1>9. Fine(L, h, [q EXCEPT !.loc.lc = x])
  BY <1>8, PutLc
<1>10. porg(l, r0) = IF Undefined(r) THEN b ELSE [q EXCEPT !.loc.lc = x]
  <2>1. b = [r EXCEPT !.loc.data = r.x.data, !.loc.seg = r.x.seg]
    BY <1>3, <1>4
  <2>2. porg(l, r0) = IF Undefined(r) THEN b ELSE [Rmb(b, r.x.val - r.loc.lc) EXCEPT !.loc.lc = r.x.val]
    <3> DEFINE bound(z) == [z EXCEPT !.loc.data = z.x.data, !.loc.seg = z.x.seg]
    <3>1. porg(l, r0) = Bind(r, LAMBDA z : IF Undefined(z) THEN bound(z)
                     ELSE [Rmb(bound(z), z.x.val - z.loc.lc) EXCEPT !.loc.lc = z.x.val])
      BY <1>1, Zenon DEF porg
    <3>2. porg(l, r0) = IF Undefined(r) THEN bound(r)
                     ELSE [Rmb(bound(r), r.x.val - r.loc.lc) EXCEPT !.loc.lc = r.x.val]
      <4> HIDE DEF bound
      <4> QED BY <3>1, SMT DEF Bind
    <3> QED BY <2>1, <3>2
  <2> QED BY <1>3, <1>6, <1>7, <2>2
<1> QED BY <1>5, <1>9, <1>10

(* LOC. *)
LEMMA LocFine ==
  ASSUME NEW L, NEW h, NEW r0, Fine(L, h, r0), NEW l, IsExpr(l.e)
  PROVE  Fine(L, h, ploc(l, r0))
<1>1. PICK r : r = absexpres(l.e, Bare(r0))
  OBVIOUS
<1>2. Fine(L, h, r)
  BY <1>1, BareFine, ExprFine
<1>3. \/ ploc(l, r0) = r \/ ploc(l, r0) = Err(r)
      \/ r.x.val \in Segs /\ ploc(l, r0) = setloc(r.x.val, r)
  BY <1>1 DEF ploc, Bind, Segs
<1> QED BY <1>2, <1>3, ErrFine, SetLocFine

(* .TEXT and .DATA. *)
LEMMA SectionFine ==
  ASSUME NEW L, NEW h, NEW r, Fine(L, h, r), NEW l, TextLoc \in Segs
  PROVE  Fine(L, h, ptext(l, r)) /\ Fine(L, h, pdata(l, r))
<1>1. BssLoc \in Segs
  BY SegsHave DEF BssLoc
<1> QED BY <1>1, SetLocFine DEF ptext, pdata

(* ENDB, of a block on the stack. *)
BlockT == [lc : Int, data : Flags, seg : Segs]
(* ENDB. *)
LEMMA EndBFine ==
  ASSUME NEW L, NEW h, NEW r0, Fine(L, h, r0), NEW l, blocks \in Seq(BlockT)
  PROVE  Fine(L, h, pendb(l, r0))
<1>1. PICK r : r = Bare(r0)
  OBVIOUS
<1>2. Fine(L, h, r)
  BY <1>1, BareFine
<1>3. CASE blocks = <<>>
  BY <1>1, <1>2, <1>3, ErrFine DEF pendb
<1>4. CASE blocks # <<>>
  <2>1. PICK b \in BlockT : b = blocks[1]
    BY <1>4
  <2>2. PICK lc \in Int, d \in Flags, g \in Segs : lc = b.lc /\ d = b.data /\ g = b.seg
    BY DEF BlockT
  <2>3. PICK v \in Int : v = lc - r.loc.lc
    <3>1. r.loc.lc \in Int
      BY <1>2, XOf
    <3> QED BY <3>1
  <2>4. PICK q : q = Rmb(r, v)
    OBVIOUS
  <2>5. Fine(L, h, q)
    BY <1>2, <2>4, RmbFine
  <2>6. pendb(l, r0) = [q EXCEPT !.loc.lc = lc, !.loc.data = d, !.loc.seg = g]
    BY <1>1, <1>4, <2>1, <2>2, <2>3, <2>4 DEF pendb
  <2>7. Fine(L, h, [q EXCEPT !.loc.lc = lc, !.loc.data = d, !.loc.seg = g])
    BY <2>5, PutLc
  <2> QED BY <2>6, <2>7
<1> QED BY <1>3, <1>4

(* Instructions. *)
LEMMA MemoryFine ==
  ASSUME NEW L, NEW h, NEW r0, Fine(L, h, r0), NEW l, IsExpr(l.e), l.opcode \in 0..255
  PROVE  Fine(L, h, doaltind(l, r0))
<1>1. PICK r : r = expres(l.e, r0)
  OBVIOUS
<1>2. Fine(L, h, r)
  BY <1>1, ExprFine
<1>3. PICK a, b, c \in Int : a = Mode(l.opcode, 32) /\ b = Mode(l.opcode, 16) /\ c = Mode(l.opcode, 48)
  <2>1. Mode(l.opcode, 32) \in Int /\ Mode(l.opcode, 16) \in Int /\ Mode(l.opcode, 48) \in Int
    BY DEF Mode
  <2> QED BY <2>1
<1>4. /\ Fine(L, h, ErrIf(r.x.val \notin 0..255, r)) /\ Fine(L, h, ErrIf(l.mode = "byte", r))
  BY <1>2, ErrFine
<1>5. \/ doaltind(l, r0) = Code(Literal(ErrIf(r.x.val \notin 0..255, r), a), 1)
      \/ doaltind(l, r0) = Code(Literal(r, b), 1)
      \/ doaltind(l, r0) = Code(Literal(ErrIf(l.mode = "byte", r), c), 2)
  BY <1>1, <1>3, ZenonT(40) DEF doaltind, Bind
<1>6. \A s, v : Fine(L, h, s) /\ v \in Int => Fine(L, h, Literal(s, v))
  <2> TAKE s, v
  <2> QED BY CodeFine
<1>7. /\ Fine(L, h, Literal(ErrIf(r.x.val \notin 0..255, r), a)) /\ Fine(L, h, Literal(r, b))
      /\ Fine(L, h, Literal(ErrIf(l.mode = "byte", r), c))
  BY <1>2, <1>3, <1>4, <1>6, ZenonT(40)
<1>8. \A s, n : Fine(L, h, s) /\ n \in {1, 2} => Fine(L, h, Code(s, n))
  <2> TAKE s, n
  <2> QED BY CodeFine
<1>9. /\ Fine(L, h, Code(Literal(ErrIf(r.x.val \notin 0..255, r), a), 1))
      /\ Fine(L, h, Code(Literal(r, b), 1))
      /\ Fine(L, h, Code(Literal(ErrIf(l.mode = "byte", r), c), 2))
  BY <1>7, <1>8
<1> QED BY <1>5, <1>9

(* Immediate operands. *)
LEMMA ImmediateFine ==
  ASSUME NEW L, NEW h, NEW r0, Fine(L, h, r0), NEW l, IsExpr(l.e), l.opcode \in 0..255
  PROVE  Fine(L, h, mimmed(l, r0)) /\ Fine(L, h, minher(l, r0))
<1>1. PICK r : r = expres(l.e, r0)
  OBVIOUS
<1>2. Fine(L, h, r) /\ Typed(L, r)
  BY <1>1, ExprFine DEF Fine
<1>3. Fine(L, h, chkabs(r))
  BY <1>2, ErrorsTyped, EvaluatedFine
<1>4. Fine(L, h, checkdatabounds(chkabs(r)))
  BY <1>3, BoundsFine
<1>5. PICK v \in Int : v = l.opcode
  OBVIOUS
<1>6. \/ mimmed(l, r0) = Code(Literal(r, v), 2)
      \/ mimmed(l, r0) = Code(Literal(r, v), 1)
      \/ mimmed(l, r0) = Code(Literal(checkdatabounds(chkabs(r)), v), 1)
  BY <1>1, <1>5 DEF mimmed, Bind
<1>7. Fine(L, h, Literal(r, v)) /\ Fine(L, h, Literal(checkdatabounds(chkabs(r)), v))
  BY <1>2, <1>4, CodeFine
<1>8. Fine(L, h, mimmed(l, r0))
  BY <1>6, <1>7, CodeFine
<1> QED BY <1>5, <1>8, CodeFine DEF minher

(* Branches. *)
LEMMA BranchFine ==
  ASSUME NEW L, NEW h, NEW r0, Fine(L, h, r0), NEW l, IsExpr(l.e), l.opcode \in 0..255
  PROVE  Fine(L, h, mshort(l, r0))
<1>1. PICK r : r = nonimpexpres(l.e, r0)
  OBVIOUS
<1>2. Fine(L, h, r) /\ Typed(L, r)
  BY <1>1, ExprFine DEF Fine
<1>3. /\ r.x \in ValueT /\ r.x.data \in Flags /\ r.loc.data \in Flags
      /\ r.x.val \in Int /\ r.loc.lc \in Int
  BY <1>2, XOf
<1>4. PICK offset \in Int : offset = r.x.val - r.loc.lc - 2
  <2>1. r.x.val - r.loc.lc - 2 \in Int
    BY <1>3
  <2> QED BY <2>1
<1>5. PICK d \in Flags : d = (r.x.data \union r.loc.data) \ {"REL"}
  <2>1. (r.x.data \union r.loc.data) \ {"REL"} \in Flags
    BY <1>3, SomeFlags
  <2> QED BY <2>1
<1>6. PICK near : near = [r EXCEPT !.x.data = (@ \union r.loc.data) \ {"REL"}, !.x.seg = 0]
  OBVIOUS
<1>7. Fine(L, h, near)
  <2>1. PICK x \in ValueT : x = [r.x EXCEPT !.data = d, !.seg = 0]
    <3>1. [r.x EXCEPT !.data = d, !.seg = 0] \in ValueT
      BY <1>3, SegsHave DEF ValueT
    <3> QED BY <3>1
  <2>2. near = [r EXCEPT !.x = x]
    BY <1>2, <1>5, <1>6, <2>1 DEF Typed, WorkT
  <2> QED BY <1>2, <2>2, PutFine
<1>8. PICK far : far = [near EXCEPT !.x.val = offset]
  OBVIOUS
<1>9. Fine(L, h, far)
  <2>1. near.x \in ValueT
    BY <1>7, XOf
  <2>2. PICK x \in ValueT : x = [near.x EXCEPT !.val = offset]
    <3>1. [near.x EXCEPT !.val = offset] \in ValueT
      BY <2>1 DEF ValueT
    <3> QED BY <3>1
  <2>3. far = [near EXCEPT !.x = x]
    BY <1>8, <2>2
  <2> QED BY <1>7, <2>3, PutFine
<1>10. PICK early : early = [r EXCEPT !.x.data = {}]
  OBVIOUS
<1>11. Fine(L, h, early)
  <2>1. PICK x \in ValueT : x = [r.x EXCEPT !.data = {}]
    <3>1. PICK e \in Flags : e = {}
      BY SomeFlags
    <3>2. [r.x EXCEPT !.data = e] \in ValueT
      BY <1>3 DEF ValueT
    <3> QED BY <3>1, <3>2
  <2>2. early = [r EXCEPT !.x = x]
    BY <1>10, <2>1
  <2> QED BY <1>2, <2>2, PutFine
<1>12. Fine(L, h, showrelbad(r))
  BY <1>2, ErrorsTyped, EvaluatedFine
<1>13. PICK v \in Int : v = l.opcode
  OBVIOUS
<1>14. PICK s : /\ Fine(L, h, s)
                /\ mshort(l, r0) = Code(Literal(s, v), 1)
  <2> DEFINE here == r.x.seg = r.loc.seg /\ "REL" \notin SymDiff(r.x.data, r.loc.data)
             Reach == IF Undefined(near) THEN near ELSE ErrIf(offset \notin -128..127, far)
             which == IF pass # last_pass THEN early ELSE IF here THEN Reach ELSE showrelbad(r)
  <2>1. mshort(l, r0) = Code(Literal(which, v), 1)
    <3> DEFINE close(z) == [z EXCEPT !.x.data = (@ \union z.loc.data) \ {"REL"}, !.x.seg = 0]
               off(z) == z.x.val - z.loc.lc - 2
               Ends(z, s) == IF Undefined(s) THEN s
                             ELSE ErrIf(off(z) \notin -128..127, [s EXCEPT !.x.val = off(z)])
               At0(z) == z.x.seg = z.loc.seg /\ "REL" \notin SymDiff(z.x.data, z.loc.data)
               Sent(z) == IF pass # last_pass THEN [z EXCEPT !.x.data = {}]
                          ELSE IF At0(z) THEN Ends(z, close(z)) ELSE showrelbad(z)
    <3>1. mshort(l, r0) = Bind(r, LAMBDA z : Code(Literal(Sent(z), l.opcode), 1))
      BY <1>1, Zenon DEF mshort
    <3>2. mshort(l, r0) = Code(Literal(Sent(r), l.opcode), 1)
      <4> HIDE DEF Sent
      <4> QED BY <3>1, SMT DEF Bind
    <3>3. close(r) = near /\ off(r) = offset /\ At0(r) = here
      BY <1>4, <1>6
    <3> HIDE DEF close, off, At0, here
    <3>4. Sent(r) = which
      BY <3>3, <1>8, <1>10
    <3> QED BY <3>2, <3>4, <1>13
  <2>2. Fine(L, h, ErrIf(offset \notin -128..127, far))
    BY <1>9, ErrFine
  <2>3. Fine(L, h, which)
    BY <1>7, <1>11, <1>12, <2>2
  <2> HIDE DEF which
  <2> QED BY <2>1, <2>3
<1>15. Fine(L, h, Literal(s, v))
  BY <1>14, CodeFine
<1> QED BY <1>14, <1>15, CodeFine

(* The label is taken: oldlabel is the value that it had. *)
LEMMA TakeLabelFine ==
  ASSUME NEW L, NEW h, NEW r, Fine(L, h, r), r.label = "", NEW n \in DOMAIN r.syms, NEW v \in Int,
         n \in DOMAIN h => h[n].val = v, NEW s, s = [r EXCEPT !.old = v, !.label = n]
  PROVE  Fine(L, h, s) /\ s.label = n /\ s.syms = r.syms /\ s.errs = r.errs
<1>1. n \in SymName
  BY SymOf
<1>2. s = [r EXCEPT !.old = v, !.label = n]
  OBVIOUS
<1>3. /\ s \in WorkT(L) /\ s.label = n /\ s.syms = r.syms /\ s.errs = r.errs /\ s.old = v
  BY <1>1, <1>2 DEF Fine, Typed, WorkT
<1>4. \A m \in DOMAIN h : m # ""
  <2>1. DOMAIN h \subseteq DOMAIN r.syms
    BY DEF Fine, Keeps
  <2> QED BY <2>1, SymOf
<1>5. Keeps(h, s)
  BY <1>3, <1>4 DEF Fine, Keeps
<1> QED BY <1>2, <1>3, <1>5 DEF Fine, Typed

(* The label is given up: its value must not have changed, if it matters. *)
LEMMA DropLabelFine ==
  ASSUME NEW L, NEW h, NEW r, Fine(L, h, r),
         \/ r.label \notin DOMAIN h \/ pass # 1 \/ r.errs
         \/ "EXP" \notin h[r.label].type \/ "VAR" \in r.syms[r.label].type
         \/ r.syms[r.label].val = h[r.label].val,
         NEW s, s = [r EXCEPT !.label = ""]
  PROVE  Fine(L, h, s)
<1>1. s = [r EXCEPT !.label = ""]
  OBVIOUS
<1>2. /\ s \in WorkT(L) /\ s.label = "" /\ s.syms = r.syms /\ s.errs = r.errs
  BY <1>1 DEF Fine, Typed, WorkT
<1>3. \A m \in DOMAIN h : m # ""
  <2>1. DOMAIN h \subseteq DOMAIN r.syms
    BY DEF Fine, Keeps
  <2> QED BY <2>1, SymOf
<1>4. Keeps(h, s)
  BY <1>2, <1>3 DEF Fine, Keeps
<1> QED BY <1>1, <1>2, <1>4 DEF Fine, Typed

(* asline before the operation.  A label that was confirmed, is common and *)
(* marked as redefined is an error at once.                                *)
LEMMA LabelledFine ==
  ASSUME NEW L, NEW h, NEW r0, Fine(L, h, r0), r0.label = "", r0.syms = h, NEW l,
         l.label \in SymName \union {""}
  PROVE  /\ Fine(L, h, Labelled(l, r0)) /\ Labelled(l, r0).label \in {"", l.label}
         /\ Labelled(l, r0).label # ""
              /\ {"COMM", "RED"} \subseteq Labelled(l, r0).syms[Labelled(l, r0).label].type
            => Labelled(l, r0).errs
<1>1. CASE l.label = ""
  BY <1>1 DEF Labelled
<1>2. CASE l.label # ""
  <2>0. PICK n : n = l.label
    OBVIOUS
  <2>1. PICK r1 : r1 = lookup(n, r0)
    OBVIOUS
  <2>2. Fine(L, h, r1) /\ n \in DOMAIN r1.syms /\ Same(r0, r1)
    BY <1>2, <2>0, <2>1, LookupFine, LookupTyped DEF Evaluated, Fine
  <2>3. PICK s : s = r1.syms[n]
    OBVIOUS
  <2>4. /\ s \in SymT(L) /\ s.type \in Flags /\ s.data \in Flags /\ s.val \in Int /\ n \in SymName
        /\ n # ""
    BY <2>2, <2>3, SymOf
  <2>5. n \in DOMAIN h => h[n].val = s.val
    BY <2>2, <2>3 DEF Same
  <2>6. r1.label = ""
    BY <2>2 DEF Same
  <2>7. PICK r : r = [r1 EXCEPT !.old = s.val]
    OBVIOUS
  <2>8. /\ r \in WorkT(L) /\ r.label = "" /\ r.syms = r1.syms /\ r.errs = r1.errs /\ r.loc = r1.loc
    BY <2>2, <2>4, <2>6, <2>7 DEF Fine, Typed, WorkT
  <2>9. Fine(L, h, r)
    <3>1. \A m \in DOMAIN h : m # ""
      <4>1. DOMAIN h \subseteq DOMAIN r1.syms
        BY <2>2 DEF Fine, Keeps
      <4> QED BY <2>2, <4>1, SymOf
    <3>2. Keeps(h, r)
      BY <2>2, <2>6, <2>8, <3>1, ZenonT(40) DEF Fine, Keeps
    <3> QED BY <2>8, <3>2 DEF Fine, Typed
  <2>10. PICK q : q = [r1 EXCEPT !.old = s.val, !.label = n]
    OBVIOUS
  <2>11. Fine(L, h, q) /\ q.label = n /\ q.syms = r1.syms /\ q.errs = r1.errs
    <3>1. PICK v \in Int : v = s.val
      BY <2>4
    <3>2. n \in DOMAIN h => h[n].val = v
      BY <2>5, <3>1
    <3>3. q = [r1 EXCEPT !.old = v, !.label = n]
      BY <2>10, <3>1
    <3>4. Fine(L, h, r1) /\ r1.label = "" /\ n \in DOMAIN r1.syms /\ v \in Int
      BY <2>2, <2>6, <3>1
    <3>5. Fine(L, h, q)
      BY ONLY <3>2, <3>3, <3>4, TakeLabelFine, Zenon
    <3>6. q.label = n /\ q.syms = r1.syms /\ q.errs = r1.errs
      BY <2>2, <2>10 DEF Fine, Typed, WorkT
    <3> QED BY <3>5, <3>6
  <2>12. PICK y : y = At(s, r)
    OBVIOUS
  <2>13. /\ y \in SymT(L) /\ y.type = s.type
    <3>1. PICK d \in Flags : d = (s.data \intersect {"FOR"}) \union r.loc.data
      <4>1. (s.data \intersect {"FOR"}) \union r.loc.data \in Flags
        BY <2>4, <2>9, XOf, SomeFlags
      <4> QED BY <4>1
    <3>2. r.loc.seg \in Segs /\ r.loc.lc \in Int
      BY <2>9, XOf
    <3>3. y = [s EXCEPT !.data = d, !.seg = r.loc.seg, !.val = r.loc.lc]
      BY <2>12, <3>1 DEF At
    <3> QED BY <2>4, <3>2, <3>3 DEF SymT
  <2>14. PICK z : z = [y EXCEPT !.type = @ \ {"COMM"}]
    OBVIOUS
  <2>15. /\ z \in SymT(L) /\ z.type = s.type \ {"COMM"}
    <3>1. PICK t \in Flags : t = y.type \ {"COMM"}
      <4>1. y.type \ {"COMM"} \in Flags
        BY <2>4, <2>13 DEF Flags
      <4> QED BY <4>1
    <3>2. z = [y EXCEPT !.type = t]
      BY <2>14, <3>1
    <3> QED BY <2>13, <3>1, <3>2 DEF SymT
  <2>16. /\ Fine(L, h, [q EXCEPT !.syms[n] = y]) /\ [q EXCEPT !.syms[n] = y].label = n
         /\ Fine(L, h, [q EXCEPT !.syms[n] = z]) /\ [q EXCEPT !.syms[n] = z].label = n
         /\ [q EXCEPT !.syms[n] = z].syms[n] = z
    <3>1. n \in DOMAIN q.syms /\ q.syms[n] = s
      BY <2>2, <2>3, <2>11
    <3>2. /\ "EXP" \in s.type => "EXP" \in y.type /\ "EXP" \in z.type
          /\ "VAR" \in s.type => "VAR" \in y.type /\ "VAR" \in z.type
      BY <2>13, <2>15
    <3>3. /\ Fine(L, h, [q EXCEPT !.syms[n] = y])
          /\ [q EXCEPT !.syms[n] = y].label = n
      <4>1. y \in SymT(L) /\ n \in DOMAIN q.syms /\ n = q.label /\ Fine(L, h, q)
        BY <2>11, <2>13, <3>1
      <4>2. /\ "EXP" \in q.syms[n].type => "EXP" \in y.type
            /\ "VAR" \in q.syms[n].type => "VAR" \in y.type
        BY <3>1, <3>2
      <4> QED BY ONLY <4>1, <4>2, PutSymFine
    <3>4. /\ Fine(L, h, [q EXCEPT !.syms[n] = z])
          /\ [q EXCEPT !.syms[n] = z].label = n /\ [q EXCEPT !.syms[n] = z].syms[n] = z
      <4>1. z \in SymT(L) /\ n \in DOMAIN q.syms /\ n = q.label /\ Fine(L, h, q)
        BY <2>11, <2>15, <3>1
      <4>2. /\ "EXP" \in q.syms[n].type => "EXP" \in z.type
            /\ "VAR" \in q.syms[n].type => "VAR" \in z.type
        BY <3>1, <3>2
      <4> QED BY ONLY <4>1, <4>2, PutSymFine
    <3> QED BY <3>3, <3>4
  <2>17. PICK m : m = IF pass # 0 /\ "VAR" \notin s.type
                      THEN [q EXCEPT !.syms[n] = y] ELSE q
    OBVIOUS
  <2>18. Fine(L, h, m) /\ m.label = n
    BY <2>11, <2>16, <2>17
  <2>19. Labelled(l, r0) =
           IF s.type \intersect {"LAB", "VAR"} # {} THEN ErrIf("RED" \in s.type, m)
           ELSE IF SegRel(s, r) THEN [q EXCEPT !.syms[n] = z] ELSE Err(r)
    <3>1. Labelled(l, r0) =
            IF s.type \intersect {"LAB", "VAR"} # {}
            THEN ErrIf("RED" \in s.type,
                   [(IF pass # 0 /\ "VAR" \notin s.type THEN [r EXCEPT !.syms[n] = y] ELSE r)
                     EXCEPT !.label = n])
            ELSE IF SegRel(s, r) THEN [r EXCEPT !.syms[n] = z, !.label = n] ELSE Err(r)
      <4> DEFINE old(b) == [b EXCEPT !.old = b.syms[l.label].val]
                 moved(b) == IF pass # 0 /\ "VAR" \notin b.syms[l.label].type
                             THEN [old(b) EXCEPT !.syms[l.label] = At(b.syms[l.label], old(b))] ELSE old(b)
                 After(b) == IF b.syms[l.label].type \intersect {"LAB", "VAR"} # {}
                         THEN ErrIf("RED" \in b.syms[l.label].type, [moved(b) EXCEPT !.label = l.label])
                         ELSE IF SegRel(b.syms[l.label], old(b))
                              THEN [old(b) EXCEPT !.syms[l.label] = [At(b.syms[l.label], old(b)) EXCEPT !.type = @ \ {"COMM"}],
                                                  !.label = l.label]
                              ELSE Err(old(b))
      <4>1. Labelled(l, r0) = Bind(lookup(l.label, r0), LAMBDA b : After(b))
        BY <1>2, Zenon DEF Labelled
      <4>2. Labelled(l, r0) = After(r1)
        <5> HIDE DEF After
        <5>1. Labelled(l, r0) = CHOOSE k \in {After(b) : b \in {lookup(l.label, r0)}} : TRUE
          BY <4>1, Zenon DEF Bind
        <5>2. lookup(l.label, r0) = r1
          BY <2>0, <2>1
        <5>3. {After(b) : b \in {lookup(l.label, r0)}} = {After(r1)}
          BY <5>2
        <5> QED BY <5>1, <5>3
      <4>3. old(r1) = r
        BY <2>0, <2>3, <2>7
      <4> HIDE DEF old
      <4>4. moved(r1) = IF pass # 0 /\ "VAR" \notin s.type THEN [r EXCEPT !.syms[n] = y] ELSE r
        BY <2>0, <2>3, <2>12, <4>3
      <4> HIDE DEF moved
      <4> QED BY <2>0, <2>3, <2>12, <2>14, <4>2, <4>3, <4>4
    <3>2. /\ [r EXCEPT !.label = n] = q /\ [r EXCEPT !.syms[n] = z, !.label = n] = [q EXCEPT !.syms[n] = z]
          /\ [[r EXCEPT !.syms[n] = y] EXCEPT !.label = n] = [q EXCEPT !.syms[n] = y]
      BY <2>2, <2>7, <2>10 DEF Fine, Typed, WorkT
    <3> QED BY <3>1, <3>2, <2>17
  <2>20. Fine(L, h, ErrIf("RED" \in s.type, m)) /\ ErrIf("RED" \in s.type, m).label = n
    BY <2>18, ErrFine DEF ErrIf, Err, Fine, Typed, WorkT
  <2>21. "RED" \in s.type => ErrIf("RED" \in s.type, m).errs
    BY <2>18 DEF ErrIf, Err, Fine, Typed, WorkT
  <2>22. ErrIf("RED" \in s.type, m).syms[n].type = s.type
    <3>1. [q EXCEPT !.syms[n] = y].syms[n] = y
      <4>1. q \in WorkT(L) /\ q.syms \in Tables(L)
        BY <2>11 DEF Fine, Typed, WorkT
      <4>2. q.syms = [k \in DOMAIN q.syms |-> q.syms[k]]
        BY <4>1, TableGet
      <4>3. [q EXCEPT !.syms[n] = y].syms = [q.syms EXCEPT ![n] = y]
        BY <4>1 DEF WorkT
      <4> QED BY <2>2, <2>11, <4>2, <4>3
    <3>2. m.syms[n].type = s.type
      BY <2>3, <2>11, <2>13, <2>17, <3>1
    <3>3. ErrIf("RED" \in s.type, m).syms = m.syms
      BY <2>18 DEF ErrIf, Err, Fine, Typed, WorkT
    <3> QED BY <3>2, <3>3
  <2>23. Fine(L, h, Err(r)) /\ Err(r).label = ""
    BY <2>8, <2>9, ErrFine DEF Err, WorkT
  <2>24. CASE s.type \intersect {"LAB", "VAR"} # {}
    BY <2>0, <2>19, <2>20, <2>21, <2>22, <2>24
  <2>25. CASE s.type \intersect {"LAB", "VAR"} = {} /\ SegRel(s, r)
    BY <2>0, <2>15, <2>16, <2>19, <2>25
  <2>26. CASE s.type \intersect {"LAB", "VAR"} = {} /\ ~SegRel(s, r)
    BY <2>19, <2>23, <2>26
  <2> QED BY <2>24, <2>25, <2>26
<1> QED BY <1>1, <1>2

(* showredefinedlabel gives the label up with an error, unless there was one *)
(* for it before.                                                          *)
LEMMA ShownFine ==
  ASSUME NEW L, NEW h, NEW r, Fine(L, h, r), r.label \in DOMAIN r.syms,
         pass # 1 \/ r.errs \/ "RED" \notin r.syms[r.label].type
  PROVE  Fine(L, h, showredefinedlabel(r))
<1>1. PICK n : n = r.label
  OBVIOUS
<1>2. n \in DOMAIN r.syms /\ r.syms[n] \in SymT(L) /\ r.syms[n].type \in Flags
  BY <1>1, SymOf
<1>3. PICK e : e = Err(r)
  OBVIOUS
<1>4. Fine(L, h, e) /\ e.errs /\ e.syms = r.syms /\ e.label = n
  BY <1>1, <1>3, ErrFine DEF Err, Fine, Typed, WorkT
<1>5. PICK t \in Flags : t = r.syms[n].type \union {"RED"}
  <2>1. r.syms[n].type \union {"RED"} \in Flags
    BY <1>2 DEF Flags
  <2> QED BY <2>1
<1>6. PICK w : w = [r.syms[n] EXCEPT !.type = t]
  OBVIOUS
<1>7. w \in SymT(L) /\ w.type = t /\ w.val = r.syms[n].val
  BY <1>2, <1>6 DEF SymT
<1>8. PICK u : u = [e EXCEPT !.syms[n] = w]
  OBVIOUS
<1>9. Fine(L, h, u) /\ u.errs
  <2>1. n \in DOMAIN e.syms /\ w \in SymT(L) /\ w.val = e.syms[n].val /\ Fine(L, h, e)
    BY <1>2, <1>4, <1>7
  <2>2. /\ "EXP" \in e.syms[n].type => "EXP" \in w.type
        /\ "VAR" \in e.syms[n].type => "VAR" \in w.type
    BY <1>4, <1>5, <1>7
  <2>3. Fine(L, h, u) /\ u.errs = e.errs
    BY ONLY <2>1, <2>2, <1>8, PutSymIs
  <2> QED BY <1>4, <2>3
<1>10. PICK v : v = [u EXCEPT !.label = ""]
  OBVIOUS
<1>11. Fine(L, h, v)
  BY ONLY <1>9, <1>10, DropLabelFine
<1>12. showredefinedlabel(r) = IF "RED" \in r.syms[n].type THEN [r EXCEPT !.label = ""] ELSE v
  <2>1. showredefinedlabel(r) =
          IF "RED" \in r.syms[r.label].type THEN [r EXCEPT !.label = ""]
          ELSE Err([[r EXCEPT !.label = ""] EXCEPT !.syms[r.label].type = @ \union {"RED"}])
    BY Zenon DEF showredefinedlabel
  <2>2. r \in WorkT(L) /\ "syms" # "label" /\ "errs" # "label" /\ "errs" # "syms"
    BY DEF Fine, Typed
  <2>3. [[r EXCEPT !.label = ""] EXCEPT !.syms[n].type = @ \union {"RED"}]
          = [[r EXCEPT !.label = ""] EXCEPT !.syms = [r.syms EXCEPT ![n] = w]]
    BY <1>2, <1>5, <1>6, <2>2 DEF WorkT
  <2>4. Err([[r EXCEPT !.label = ""] EXCEPT !.syms = [r.syms EXCEPT ![n] = w]]) = v
    <3>1. u = [e EXCEPT !.syms = [r.syms EXCEPT ![n] = w]]
      BY <1>4, <1>8
    <3> DEFINE T == [r.syms EXCEPT ![n] = w]
    <3> HIDE DEF T
    <3>2. [[[r EXCEPT !.label = ""] EXCEPT !.syms = T] EXCEPT !.errs = TRUE]
            = [[[r EXCEPT !.errs = TRUE] EXCEPT !.syms = T] EXCEPT !.label = ""]
      BY <2>2 DEF WorkT
    <3> QED BY <1>3, <1>10, <3>1, <3>2 DEF T, Err
  <2> QED BY <1>1, <2>1, <2>3, <2>4
<1>13. pass # 1 \/ r.errs => Fine(L, h, [r EXCEPT !.label = ""])
  <2> SUFFICES ASSUME pass # 1 \/ r.errs PROVE Fine(L, h, [r EXCEPT !.label = ""])
    OBVIOUS
  <2>1. PICK k : k = [r EXCEPT !.label = ""]
    OBVIOUS
  <2>2. Fine(L, h, k)
    BY <2>1, DropLabelFine
  <2> QED BY <2>1, <2>2
<1> QED BY <1>1, <1>11, <1>12, <1>13

(* EQU and SET: the label gets the value of the expression and is given    *)
(* up; in the last pass a value that changed is an error, but for SET.     *)
LEMMA EquSetFine ==
  ASSUME NEW L, NEW h, NEW r0, Fine(L, h, r0), r0.label \in DOMAIN r0.syms, NEW bits, bits \subseteq {"LAB", "VAR"},
         NEW l, IsExpr(l.e), pass \in {0, 1}
  PROVE  Fine(L, h, doequset(bits, l, r0))
<1>1. PICK n, old : n = r0.label /\ old = r0.syms[n]
  OBVIOUS
<1>2. n \in DOMAIN r0.syms
  BY <1>1
<1>3. /\ old \in SymT(L) /\ old.type \in Flags /\ old.data \in Flags /\ old.val \in Int
  BY <1>1, <1>2, SymOf
<1>4. PICK y \in SymT(L) : /\ y = [old EXCEPT !.type = @ \union bits, !.data = @ \ {"IMP"}]
                           /\ y.type = old.type \union bits /\ y.val = old.val
  <2>1. PICK t \in Flags, d \in Flags : t = old.type \union bits /\ d = old.data \ {"IMP"}
    <3>1. old.type \union bits \in Flags /\ old.data \ {"IMP"} \in Flags
      BY <1>3 DEF Flags
    <3> QED BY <3>1
  <2>2. PICK y : y = [old EXCEPT !.type = t, !.data = d]
    OBVIOUS
  <2>3. y \in SymT(L) /\ y.type = t /\ y.val = old.val
    BY <1>3, <2>1, <2>2 DEF SymT
  <2> QED BY <2>1, <2>2, <2>3
<1>5. PICK q : q = [r0 EXCEPT !.syms[n] = y]
  OBVIOUS
<1>6. Fine(L, h, q) /\ q.label = n /\ q.old = r0.old /\ DOMAIN q.syms = DOMAIN r0.syms /\ q.syms[n] = y
  <2>1. n \in DOMAIN r0.syms /\ n = r0.label /\ y \in SymT(L) /\ Fine(L, h, r0)
    BY <1>1, <1>2, <1>4
  <2>2. /\ "EXP" \in r0.syms[n].type => "EXP" \in y.type
        /\ "VAR" \in r0.syms[n].type => "VAR" \in y.type
    BY <1>1, <1>4
  <2>3. /\ Fine(L, h, q) /\ q.label = r0.label /\ q.errs = r0.errs /\ q.old = r0.old
        /\ DOMAIN q.syms = DOMAIN r0.syms /\ q.syms[n] = y
    BY ONLY <2>1, <2>2, <1>5, PutSymIs
  <2> QED BY <1>1, <2>3
<1>7. PICK r : r = nonimpexpres(l.e, q)
  OBVIOUS
<1>8. Fine(L, h, r) /\ Same(q, r)
  BY <1>6, <1>7, ExprFine
<1>9. /\ r.label = n /\ n \in DOMAIN r.syms /\ r.syms[n].type = y.type /\ n # ""
      /\ r.syms[n] \in SymT(L) /\ r.syms[n].type \in Flags
  BY <1>2, <1>6, <1>8, SymOf DEF Same
<1>10. PICK z \in SymT(L) :
         /\ z = [r.syms[n] EXCEPT !.data = r.x.data \union (old.data \intersect {"FOR"}),
                                  !.seg = r.x.seg, !.val = r.x.val]
         /\ z.type = y.type /\ z.val = r.x.val
  <2>1. PICK d \in Flags : d = r.x.data \union (old.data \intersect {"FOR"})
    <3>1. r.x.data \union (old.data \intersect {"FOR"}) \in Flags
      BY <1>3, <1>8, XOf, SomeFlags
    <3> QED BY <3>1
  <2>2. r.x.seg \in Segs /\ r.x.val \in Int
    BY <1>8, XOf
  <2>3. PICK z : z = [r.syms[n] EXCEPT !.data = d, !.seg = r.x.seg, !.val = r.x.val]
    OBVIOUS
  <2>4. z \in SymT(L) /\ z.type = y.type /\ z.val = r.x.val
    BY <1>9, <2>1, <2>2, <2>3 DEF SymT
  <2> QED BY <2>1, <2>3, <2>4
<1>11. PICK s : s = [r EXCEPT !.syms[n] = z]
  OBVIOUS
<1>12. Fine(L, h, s) /\ s.label = n /\ s.errs = r.errs /\ s.old = r.old /\ s.syms[n] = z
  <2>1. n \in DOMAIN r.syms /\ n = r.label /\ z \in SymT(L) /\ Fine(L, h, r)
    BY <1>8, <1>9, <1>10
  <2>2. /\ "EXP" \in r.syms[n].type => "EXP" \in z.type
        /\ "VAR" \in r.syms[n].type => "VAR" \in z.type
    BY <1>9, <1>10
  <2>3. /\ Fine(L, h, s) /\ s.label = r.label /\ s.errs = r.errs /\ s.old = r.old
        /\ DOMAIN s.syms = DOMAIN r.syms /\ s.syms[n] = z
    BY ONLY <2>1, <2>2, <1>11, PutSymIs
  <2> QED BY <1>9, <2>3
<1>13. PICK set : set = [s EXCEPT !.label = ""]
  OBVIOUS
<1>16. doequset(bits, l, r0) =
         IF /\ "LAB" \in old.type /\ "UND" \notin old.data /\ pass = 0
            /\ \/ SymDiff(old.data, r.x.data \union (old.data \intersect {"FOR"})) \intersect {"REL", "UND"} # {}
               \/ r.syms[n].val # r.x.val
         THEN showredefinedlabel(r)
         ELSE IF "VAR" \in bits THEN set ELSE Unstable(pass, n, set)
  <2> DEFINE data(b) == b.x.data \union (r0.syms[r0.label].data \intersect {"FOR"})
             new(b) == [b EXCEPT !.syms[r0.label].data = data(b), !.syms[r0.label].seg = b.x.seg,
                                 !.syms[r0.label].val = b.x.val, !.label = ""]
             After(b) ==
               IF /\ "LAB" \in r0.syms[r0.label].type /\ "UND" \notin r0.syms[r0.label].data /\ pass = 0
                  /\ \/ SymDiff(r0.syms[r0.label].data, data(b)) \intersect {"REL", "UND"} # {}
                     \/ b.syms[r0.label].val # b.x.val
               THEN showredefinedlabel(b)
               ELSE IF "VAR" \in bits THEN new(b) ELSE Unstable(pass, r0.label, new(b))
             put == [r0 EXCEPT !.syms[r0.label].type = @ \union bits,
                               !.syms[r0.label].data = @ \ {"IMP"}]
  <2>1. doequset(bits, l, r0) = Bind(nonimpexpres(l.e, put), LAMBDA b : After(b))
    BY Zenon DEF doequset
  <2>2. put = q
    BY <1>1, <1>2, <1>4, <1>5
  <2> HIDE DEF put
  <2>3. doequset(bits, l, r0) = After(r)
    <3> HIDE DEF After
    <3>1. doequset(bits, l, r0) = CHOOSE k \in {After(b) : b \in {nonimpexpres(l.e, put)}} : TRUE
      BY <2>1, Zenon DEF Bind
    <3>2. {After(b) : b \in {nonimpexpres(l.e, put)}} = {After(r)}
      BY <1>7, <2>2
    <3> QED BY <3>1, <3>2
  <2>4. new(r) = set
    <3>1. [r EXCEPT !.syms[n].data = r.x.data \union (old.data \intersect {"FOR"}),
                    !.syms[n].seg = r.x.seg, !.syms[n].val = r.x.val] = s
      BY <1>10, <1>11, ZenonT(40)
    <3>2. new(r) = [[r EXCEPT !.syms[n].data = r.x.data \union (old.data \intersect {"FOR"}),
                    !.syms[n].seg = r.x.seg, !.syms[n].val = r.x.val] EXCEPT !.label = ""]
      BY <1>1
    <3> QED BY <1>13, <3>1, <3>2
  <2> HIDE DEF new
  <2> QED BY <1>1, <2>3, <2>4
<1>17. CASE doequset(bits, l, r0) = showredefinedlabel(r) /\ pass = 0
  <2>1. pass # 1
    BY <1>17
  <2>2. r.label \in DOMAIN r.syms
    BY <1>9
  <2> QED BY <1>8, <1>17, <2>1, <2>2, ShownFine
<1>18. CASE doequset(bits, l, r0) = set /\ "VAR" \in bits
  <2>1. "VAR" \in s.syms[s.label].type
    BY <1>4, <1>10, <1>12, <1>18
  <2>2. Fine(L, h, set)
    BY ONLY <1>12, <1>13, <2>1, DropLabelFine
  <2> QED BY <1>18, <2>2
<1>19. CASE doequset(bits, l, r0) = Unstable(pass, n, set)
  <2>1. set.syms = s.syms /\ set.old = s.old
    BY <1>12, <1>13 DEF Fine, Typed, WorkT
  <2>2. CASE pass # 0 /\ z.val # s.old
    <3>1. PICK e, f : e = [s EXCEPT !.dirty = TRUE] /\ f = Err(e)
      OBVIOUS
    <3>2. Fine(L, h, f) /\ f.errs
      <4>1. Fine(L, h, [s EXCEPT !.dirty = TRUE])
        BY <1>12, PutFine
      <4>2. Fine(L, h, e) /\ Typed(L, e)
        BY <3>1, <4>1 DEF Fine
      <4> QED BY <3>1, <4>2, ErrFine, PutErr
    <3>3. Unstable(pass, n, set) = [f EXCEPT !.label = ""]
      <4>1. Unstable(pass, n, set) = Moved(set)
        BY <1>12, <2>1, <2>2 DEF Unstable
      <4> QED BY <1>12, <1>13, <3>1, <4>1 DEF Moved, Err, Fine, Typed, WorkT
    <3>4. Fine(L, h, [f EXCEPT !.label = ""])
      BY ONLY <3>2, DropLabelFine
    <3> QED BY <1>19, <3>3, <3>4
  <2>3. CASE ~(pass # 0 /\ z.val # s.old)
    <3>1. Unstable(pass, n, set) = set
      BY <1>12, <2>1, <2>3 DEF Unstable
    <3>2. n \in DOMAIN h /\ pass = 1 /\ ~s.errs => s.syms[n].val = h[n].val
      <4>1. SUFFICES ASSUME n \in DOMAIN h, pass = 1, ~s.errs PROVE s.syms[n].val = h[n].val
        OBVIOUS
      <4>2. s.old = h[n].val
        BY <1>12, <4>1 DEF Fine, Keeps
      <4> QED BY <1>12, <2>3, <4>1, <4>2
    <3>3. \/ s.label \notin DOMAIN h \/ pass # 1 \/ s.errs \/ s.syms[s.label].val = h[s.label].val
      BY <1>12, <3>2
    <3>4. Fine(L, h, set)
      BY ONLY <1>12, <1>13, <3>3, DropLabelFine
    <3> QED BY <1>19, <3>1, <3>4
  <2> QED BY <2>2, <2>3
<1> QED BY <1>16, <1>17, <1>18, <1>19

(* EQU: in the last pass a value that differs is an error, or that of a variable. *)
LEMMA EquFine ==
  ASSUME NEW L, NEW h, NEW r, Fine(L, h, r), NEW l, IsExpr(l.e), pass \in {0, 1},
         r.label # "" /\ {"COMM", "RED"} \subseteq r.syms[r.label].type => r.errs
  PROVE  Fine(L, h, pequ(l, r)) /\ Fine(L, h, pset(l, r))
<1>1. CASE r.label = ""
  BY <1>1, LabelErrorFine DEF pequ, pset
<1>2. CASE r.label # ""
  <2>1. r.label \in DOMAIN r.syms
    BY <1>2, XOf
  <2>2. Fine(L, h, labelerror(r))
    BY LabelErrorFine
  <2>3. "COMM" \in r.syms[r.label].type => Fine(L, h, showredefinedlabel(r))
    <3> SUFFICES ASSUME "COMM" \in r.syms[r.label].type PROVE Fine(L, h, showredefinedlabel(r))
      OBVIOUS
    <3>1. "RED" \in r.syms[r.label].type => r.errs
      BY <1>2
    <3> QED BY <2>1, <3>1, ShownFine
  <2>4. /\ Fine(L, h, doequset({"LAB"}, l, r)) /\ Fine(L, h, doequset({"VAR"}, l, r))
        /\ Fine(L, h, doequset({}, l, r))
    <3>1. {"LAB"} \subseteq {"LAB", "VAR"} /\ {"VAR"} \subseteq {"LAB", "VAR"}
          /\ {} \subseteq {"LAB", "VAR"}
      OBVIOUS
    <3>2. \A bits : bits \subseteq {"LAB", "VAR"} => Fine(L, h, doequset(bits, l, r))
      BY <2>1, EquSetFine
    <3> QED BY <3>1, <3>2
  <2>6. \/ pequ(l, r) = showredefinedlabel(r) /\ "COMM" \in r.syms[r.label].type
        \/ pequ(l, r) = labelerror(r) \/ pequ(l, r) = doequset({"LAB"}, l, r)
    BY <1>2 DEF pequ
  <2>7. \/ pset(l, r) = labelerror(r) \/ pset(l, r) = doequset({"VAR"}, l, r)
        \/ pset(l, r) = doequset({}, l, r)
    BY <1>2 DEF pset
  <2> QED BY <2>2, <2>3, <2>4, <2>6, <2>7
<1> QED BY <1>1, <1>2

(* COMM: only a name that is not exported, and has no value in the code,   *)
(* becomes common.                                                         *)
LEMMA DoCommFine ==
  ASSUME NEW L, NEW h, NEW r0, Fine(L, h, r0), NEW n \in DOMAIN r0.syms, r0.label \in {"", n},
         NEW l, IsExpr(l.e)
  PROVE  Fine(L, h, docomm(n, l, r0))
<1>1. PICK r : r = absexpres(l.e, r0)
  OBVIOUS
<1>2. Fine(L, h, r) /\ Same(r0, r)
  BY <1>1, ExprFine
<1>3. n \in DOMAIN r.syms /\ r.label = r0.label
  BY <1>2 DEF Same
<1>4. PICK s : s = r.syms[n]
  OBVIOUS
<1>5. /\ s \in SymT(L) /\ s.type \in Flags /\ s.val \in Int /\ r.x.val \in Int /\ r.loc.seg \in Segs
      /\ n # ""
  BY <1>2, <1>3, <1>4, SymOf, XOf
<1>6. PICK v \in Int, t \in Flags, d \in Flags :
        /\ v = IF "COMM" \notin s.type \/ Unsigned(r.x.val) > Unsigned(s.val) THEN r.x.val ELSE s.val
        /\ t = s.type \union {"COMM"} \union (IF l.local THEN {"RED"} ELSE {})
        /\ d = {"FOR", "IMP", "REL"}
  <2>1. (IF "COMM" \notin s.type \/ Unsigned(r.x.val) > Unsigned(s.val) THEN r.x.val ELSE s.val) \in Int
    BY <1>5
  <2>2. s.type \union {"COMM"} \union (IF l.local THEN {"RED"} ELSE {}) \in Flags
    BY <1>5 DEF Flags
  <2>3. {"FOR", "IMP", "REL"} \in Flags
    BY SomeFlags
  <2> QED BY <2>1, <2>2, <2>3
<1>7. PICK y : y = [s EXCEPT !.val = v, !.type = t, !.data = d, !.seg = r.loc.seg]
  OBVIOUS
<1>8. y \in SymT(L) /\ y.type = t
  BY <1>5, <1>6, <1>7 DEF SymT
<1>9. PICK q : q = [r EXCEPT !.syms[n] = y]
  OBVIOUS
<1>10. PICK k : k = [q EXCEPT !.label = ""]
  OBVIOUS
<1>11. s.type \intersect {"EXP", "LAB"} = {} => Fine(L, h, k)
  <2> SUFFICES ASSUME s.type \intersect {"EXP", "LAB"} = {} PROVE Fine(L, h, k)
    OBVIOUS
  <2>1. "EXP" \notin r.syms[n].type
    BY <1>4
  <2>2. "VAR" \in r.syms[n].type => "VAR" \in y.type
    BY <1>4, <1>6, <1>8
  <2>3. n \in DOMAIN r.syms /\ y \in SymT(L) /\ Fine(L, h, r)
    BY <1>2, <1>3, <1>8
  <2>4. Fine(L, h, q) /\ q.label = r.label
    BY ONLY <1>9, <2>1, <2>2, <2>3, PutSymIs
  <2>5. n \in DOMAIN h => "EXP" \notin h[n].type
    BY <1>2, <2>1 DEF Fine, Keeps
  <2>6. \A m \in DOMAIN h : m # ""
    <3>1. DOMAIN h \subseteq DOMAIN r.syms
      BY <1>2 DEF Fine, Keeps
    <3> QED BY <1>2, <3>1, SymOf
  <2>7. q.label \notin DOMAIN h \/ "EXP" \notin h[q.label].type
    BY <1>3, <2>4, <2>5, <2>6
  <2> QED BY ONLY <1>10, <2>4, <2>7, DropLabelFine
<1>12. docomm(n, l, r0) = IF ~SegRel(s, r) THEN Err(r)
                          ELSE IF s.type \intersect {"EXP", "LAB"} # {} THEN labelerror(r) ELSE k
  <2> DEFINE new(b) == [b.syms[n] EXCEPT
                    !.val = IF "COMM" \notin b.syms[n].type \/ Unsigned(b.x.val) > Unsigned(b.syms[n].val)
                            THEN b.x.val ELSE b.syms[n].val,
                    !.type = @ \union {"COMM"} \union (IF l.local THEN {"RED"} ELSE {}),
                    !.data = {"FOR", "IMP", "REL"}, !.seg = b.loc.seg]
             After(b) == IF ~SegRel(b.syms[n], b) THEN Err(b)
                         ELSE IF b.syms[n].type \intersect {"EXP", "LAB"} # {} THEN labelerror(b)
                         ELSE [b EXCEPT !.syms[n] = new(b), !.label = ""]
  <2>1. docomm(n, l, r0) = Bind(absexpres(l.e, r0), LAMBDA b : After(b))
    BY Zenon DEF docomm
  <2>2. docomm(n, l, r0) = After(r)
    <3> HIDE DEF After
    <3>1. docomm(n, l, r0) = CHOOSE c \in {After(b) : b \in {absexpres(l.e, r0)}} : TRUE
      BY <2>1, Zenon DEF Bind
    <3>2. {After(b) : b \in {absexpres(l.e, r0)}} = {After(r)}
      BY <1>1
    <3> QED BY <3>1, <3>2
  <2>3. new(r) = y
    BY <1>4, <1>6, <1>7
  <2> HIDE DEF new
  <2>4. [r EXCEPT !.syms[n] = new(r), !.label = ""] = k
    BY <1>9, <1>10, <2>3
  <2> QED BY <1>4, <2>2, <2>4
<1>13. Fine(L, h, Err(r)) /\ Fine(L, h, labelerror(r))
  BY <1>2, ErrFine, LabelErrorFine
<1> QED BY <1>11, <1>12, <1>13

(* COMM. *)
LEMMA CommFine ==
  ASSUME NEW L, NEW h, NEW r, Fine(L, h, r), NEW l, IsExpr(l.e)
  PROVE  Fine(L, h, pcomm(l, r))
<1>1. CASE r.label = "" \/ "VAR" \in r.syms[r.label].type
  BY <1>1, LabelErrorFine DEF pcomm
<1>2. CASE ~(r.label = "" \/ "VAR" \in r.syms[r.label].type)
  <2>1. r.label \in DOMAIN r.syms
    BY <1>2, XOf
  <2>2. Fine(L, h, docomm(r.label, l, r))
    BY <2>1, DoCommFine
  <2> QED BY <1>2, <2>2 DEF pcomm
<1> QED BY <1>1, <1>2

(* .COMM names its symbol in the operand. *)
LEMMA Comm1Fine ==
  ASSUME NEW L, NEW h, NEW r0, Fine(L, h, r0), NEW l, IsExpr(l.e), l.name \in SymName
  PROVE  Fine(L, h, pcomm1(l, r0))
<1>1. PICK n \in SymName : n = l.name
  OBVIOUS
<1>2. PICK b : b = IF r0.label # "" THEN labelerror(r0) ELSE r0
  OBVIOUS
<1>3. Fine(L, h, b) /\ b.label = ""
  BY <1>2, LabelErrorFine DEF labelerror, Fine, Typed, WorkT
<1>4. PICK p : p = lookup(n, b)
  OBVIOUS
<1>5. Fine(L, h, p) /\ n \in DOMAIN p.syms /\ p.label = ""
  BY <1>3, <1>4, LookupFine, LookupTyped, ZenonT(40) DEF Evaluated, Same, Fine
<1>6. PICK r : r = setloc(BssLoc, p)
  OBVIOUS
<1>7. Fine(L, h, r) /\ n \in DOMAIN r.syms /\ r.label = ""
  <2>1. BssLoc \in Segs
    BY SegsHave DEF BssLoc
  <2> QED BY <1>5, <1>6, <2>1, SetLocFine
<1>8. PICK s : s = r.syms[n]
  OBVIOUS
<1>9. s \in SymT(L) /\ s.type \in Flags /\ s.val \in Int /\ r.loc.seg \in Segs
  BY <1>7, <1>8, SymOf, XOf
<1>10. PICK d \in Flags : d = r.loc.data \union {"FOR", "IMP", "REL"}
  <2>1. r.loc.data \union {"FOR", "IMP", "REL"} \in Flags
    BY <1>7, XOf, SomeFlags
  <2> QED BY <2>1
<1>11. PICK y : y = [s EXCEPT !.data = d, !.seg = r.loc.seg]
  OBVIOUS
<1>12. y \in SymT(L) /\ y.type = s.type /\ y.val = s.val
  BY <1>9, <1>10, <1>11 DEF SymT
<1>13. PICK q : q = [r EXCEPT !.syms[n] = y]
  OBVIOUS
<1>14. Fine(L, h, q) /\ q.label = r.label /\ DOMAIN q.syms = DOMAIN r.syms
  <2>1. n \in DOMAIN r.syms /\ y \in SymT(L) /\ Fine(L, h, r) /\ y.val = r.syms[n].val
    BY <1>7, <1>8, <1>12
  <2>2. /\ "EXP" \in r.syms[n].type => "EXP" \in y.type
        /\ "VAR" \in r.syms[n].type => "VAR" \in y.type
    BY <1>8, <1>12
  <2> QED BY ONLY <1>13, <2>1, <2>2, PutSymIs
<1>15. Fine(L, h, docomm(n, l, q))
  BY <1>7, <1>14, DoCommFine
<1>16. PICK k : k = Err([r EXCEPT !.label = n])
  OBVIOUS
<1>17. Fine(L, h, k)
  <2>1. k \in WorkT(L) /\ k.errs /\ k.syms = r.syms /\ k.label = n
    BY <1>7, <1>16 DEF Err, Fine, Typed, WorkT
  <2> QED BY <1>7, <2>1 DEF Fine, Typed, Keeps
<1>18. Fine(L, h, Err(r))
  BY <1>7, ErrFine
<1>a. Fine(L, h, absexpres(l.e, k))
  BY <1>17, ExprFine
<1>19. PICK x : /\ pcomm1(l, r0) = setloc(r0.loc.seg, x)
                /\ x = Err(r) \/ x = k \/ x = absexpres(l.e, k) \/ x = docomm(n, l, q)
  <2> DEFINE common(c) == [c EXCEPT !.syms[l.name].data = c.loc.data \union {"FOR", "IMP", "REL"},
                                    !.syms[l.name].seg = c.loc.seg]
             what(c) == IF ~(c.syms[l.name].type \intersect {"MAC", "VAR"} = {}) THEN Err(c)
                        ELSE IF ~SegRel(c.syms[l.name], c) THEN Err([c EXCEPT !.label = l.name])
                        ELSE IF c.syms[l.name].type \intersect {"EXP", "LAB"} # {}
                             THEN absexpres(l.e, Err([c EXCEPT !.label = l.name]))
                             ELSE docomm(l.name, l, common(c))
             After(c) == setloc(r0.loc.seg, what(c))
             first == setloc(BssLoc, lookup(l.name, IF r0.label # "" THEN labelerror(r0) ELSE r0))
  <2>1. pcomm1(l, r0) = Bind(first, LAMBDA c : After(c))
    BY Zenon DEF pcomm1
  <2>2. first = r
    BY <1>1, <1>2, <1>4, <1>6
  <2>3. pcomm1(l, r0) = After(r)
    <3> HIDE DEF After, first
    <3>1. pcomm1(l, r0) = CHOOSE z \in {After(c) : c \in {first}} : TRUE
      BY <2>1, Zenon DEF Bind
    <3>2. {After(c) : c \in {first}} = {After(r)}
      BY <2>2
    <3> QED BY <3>1, <3>2
  <2>4. common(r) = q
    BY <1>1, <1>8, <1>10, <1>11, <1>13
  <2> HIDE DEF common
  <2>5. \/ what(r) = Err(r) \/ what(r) = k \/ what(r) = absexpres(l.e, k) \/ what(r) = docomm(n, l, q)
    BY <1>1, <1>16, <2>4
  <2> HIDE DEF what
  <2> QED BY <2>3, <2>5
<1>20. Fine(L, h, x) /\ r0.loc.seg \in Segs
  BY <1>15, <1>17, <1>a, <1>18, <1>19, XOf
<1> QED BY <1>19, <1>20, SetLocFine

(* A name becomes a macro. *)
LEMMA MacroFine ==
  ASSUME NEW L, NEW h, NEW r, Fine(L, h, r), NEW n \in DOMAIN r.syms
  PROVE  Fine(L, h, MacroSymbol(n, r)) /\ DOMAIN MacroSymbol(n, r).syms = DOMAIN r.syms
<1>1. PICK s : s = r.syms[n]
  OBVIOUS
<1>2. s \in SymT(L) /\ s.type \in Flags
  BY <1>1, SymOf
<1>3. PICK t \in Flags, d \in Flags :
        t = s.type \union (IF "MAC" \in s.type THEN {"RED"} ELSE {"MAC"}) /\ d = {"UND"}
  <2>1. s.type \union (IF "MAC" \in s.type THEN {"RED"} ELSE {"MAC"}) \in Flags /\ {"UND"} \in Flags
    BY <1>2 DEF Flags
  <2> QED BY <2>1
<1>4. PICK y : y = [s EXCEPT !.type = t, !.data = d]
  OBVIOUS
<1>5. y \in SymT(L) /\ y.type = t /\ y.val = s.val
  BY <1>2, <1>3, <1>4 DEF SymT
<1>6. PICK q : q = [r EXCEPT !.syms[n] = y]
  OBVIOUS
<1>7. Fine(L, h, q) /\ DOMAIN q.syms = DOMAIN r.syms
  <2>1. n \in DOMAIN r.syms /\ y \in SymT(L) /\ Fine(L, h, r) /\ y.val = r.syms[n].val
    BY <1>1, <1>5
  <2>2. /\ "EXP" \in r.syms[n].type => "EXP" \in y.type
        /\ "VAR" \in r.syms[n].type => "VAR" \in y.type
    BY <1>1, <1>3, <1>5
  <2> QED BY ONLY <1>6, <2>1, <2>2, PutSymIs
<1>8. MacroSymbol(n, r) = q
  BY <1>1, <1>3, <1>4, <1>6 DEF MacroSymbol
<1> QED BY <1>7, <1>8

(***************************************************************************)
(* The end of a line: the label is confirmed and the code is emitted.      *)
(***************************************************************************)
(* What a line leaves: exported symbols and SET symbols stay such, and in  *)
(* the last pass the values of exported symbols stay, or there is an error.*)
Settled(h, e, t) ==
  \A n \in DOMAIN h :
    /\ n \in DOMAIN t
    /\ "EXP" \in h[n].type => "EXP" \in t[n].type
    /\ "VAR" \in h[n].type => "VAR" \in t[n].type
    /\ pass = 1 /\ "EXP" \in h[n].type /\ ~e /\ "VAR" \notin t[n].type => t[n].val = h[n].val

(* Confirming changes no value, and takes no flag EXP or VAR away. *)
LEMMA ConfirmedTyped ==
  ASSUME NEW L, NEW p, NEW r, Typed(L, r)
  PROVE  LET c == Confirmed(p, r)
         IN  /\ c \in WorkT(L) /\ DOMAIN c.syms = DOMAIN r.syms
             /\ \A n \in DOMAIN r.syms :
                  /\ c.syms[n].val = r.syms[n].val
                  /\ "EXP" \in r.syms[n].type => "EXP" \in c.syms[n].type
<1>1. CASE r.label = ""
  <2>1. Confirmed(p, r) = r
    BY <1>1 DEF Confirmed
  <2> QED BY <2>1 DEF Typed
<1>2. CASE r.label # ""
  <2>1. PICK n : n = r.label
    OBVIOUS
  <2>2. n \in DOMAIN r.syms /\ r.syms \in Tables(L) /\ r \in WorkT(L)
    <3>1. r.syms \in Tables(L)
      BY DEF Typed, WorkT
    <3>2. n \in DOMAIN r.syms
      BY <1>2, <2>1 DEF Typed
    <3> QED BY <3>1, <3>2 DEF Typed
  <2>3. PICK u : u = Unstable(p, n, r)
    OBVIOUS
  <2>4. u \in WorkT(L) /\ u.syms = r.syms
    <3>1. Moved(r) \in WorkT(L) /\ Moved(r).syms = r.syms
      BY <2>2 DEF Moved, Err, WorkT
    <3> QED BY <2>2, <2>3, <3>1 DEF Unstable
  <2>5. PICK s : s = r.syms[n]
    OBVIOUS
  <2>6. s \in SymT(L) /\ s.type \in Flags /\ n \in SymName
    BY <2>2, <2>5, TableGet DEF SymT
  <2>7. PICK t \in Flags : t = IF "RED" \in s.type THEN (s.type \union {"LAB", "EXP"}) \ {"RED"}
                               ELSE s.type \union {"LAB"}
    <3>1. (s.type \union {"LAB", "EXP"}) \ {"RED"} \in Flags /\ s.type \union {"LAB"} \in Flags
      BY <2>6 DEF Flags
    <3> QED BY <3>1
  <2>8. PICK y : y = [s EXCEPT !.type = t]
    OBVIOUS
  <2>9. y \in SymT(L) /\ y.val = s.val /\ ("EXP" \in s.type => "EXP" \in y.type)
    BY <2>6, <2>7, <2>8 DEF SymT
  <2>10. PICK table : table = [r.syms EXCEPT ![n] = y]
    OBVIOUS
  <2>11. /\ table \in Tables(L) /\ DOMAIN table = DOMAIN r.syms
         /\ \A m \in DOMAIN r.syms : table[m] = IF m = n THEN y ELSE r.syms[m]
    BY <2>2, <2>6, <2>9, <2>10, TablePut
  <2>12. PICK c : c = [u EXCEPT !.syms = table]
    OBVIOUS
  <2>13. c \in WorkT(L) /\ c.syms = table
    BY <2>4, <2>11, <2>12 DEF WorkT
  <2>14. Confirmed(p, r) = c
    <3>1. Confirmed(p, r) = [Unstable(p, r.label, r) EXCEPT !.syms[r.label].type =
                           IF "RED" \in @ THEN (@ \union {"LAB", "EXP"}) \ {"RED"} ELSE @ \union {"LAB"}]
      BY <1>2, Zenon DEF Confirmed
    <3> QED BY <2>1, <2>3, <2>4, <2>5, <2>7, <2>8, <2>10, <2>12, <3>1
  <2> QED BY <2>5, <2>9, <2>11, <2>13, <2>14
<1> QED BY <1>1, <1>2

(* Confirming the label: one that moved is an error. *)
LEMMA ConfirmedFine ==
  ASSUME NEW L, NEW h, NEW r, Fine(L, h, r), pass \in {0, 1}
  PROVE  LET c == Confirmed(pass, r)
         IN  Fine(L, h, c) /\ Settled(h, c.errs, c.syms) /\ DOMAIN c.syms = DOMAIN r.syms
<1>1. CASE r.label = ""
  <2>1. Confirmed(pass, r) = r
    BY <1>1 DEF Confirmed
  <2>2. \A m \in DOMAIN h : m # ""
    <3>1. DOMAIN h \subseteq DOMAIN r.syms
      BY DEF Fine, Keeps
    <3> QED BY <3>1, SymOf
  <2>3. Settled(h, r.errs, r.syms)
    BY <1>1, <2>2 DEF Settled, Fine, Keeps
  <2> QED BY <2>1, <2>3
<1>2. CASE r.label # ""
  <2>1. PICK n : n = r.label
    OBVIOUS
  <2>2. n \in DOMAIN r.syms
    BY <1>2, <2>1, XOf
  <2>3. PICK u : u = Unstable(pass, n, r)
    OBVIOUS
  <2>4. Fine(L, h, u) /\ u.label = n /\ u.syms = r.syms
    <3>1. Fine(L, h, [r EXCEPT !.dirty = TRUE])
      BY PutFine
    <3>2. Fine(L, h, Moved(r))
      BY <3>1, ErrFine DEF Moved
    <3>3. Moved(r).label = r.label /\ Moved(r).syms = r.syms
      BY DEF Moved, Err, Fine, Typed, WorkT
    <3> QED BY <2>1, <2>3, <3>2, <3>3 DEF Unstable
  <2>5. n \in DOMAIN h /\ pass = 1 /\ ~u.errs => u.syms[n].val = h[n].val
    <3> SUFFICES ASSUME n \in DOMAIN h, pass = 1, ~u.errs PROVE u.syms[n].val = h[n].val
      OBVIOUS
    <3>1. u.old = h[n].val
      BY <2>4 DEF Fine, Keeps
    <3>2. pass # 0
      OBVIOUS
    <3>3. Moved(r).errs
      BY DEF Moved, Err, Fine, Typed, WorkT
    <3>4. u = r /\ r.syms[n].val = r.old
      BY <2>3, <3>2, <3>3 DEF Unstable
    <3> QED BY <3>1, <3>4
  <2>6. PICK s : s = r.syms[n]
    OBVIOUS
  <2>7. s \in SymT(L) /\ s.type \in Flags /\ n # ""
    BY <2>2, <2>6, SymOf
  <2>8. PICK t \in Flags : t = IF "RED" \in s.type THEN (s.type \union {"LAB", "EXP"}) \ {"RED"}
                               ELSE s.type \union {"LAB"}
    <3>1. (s.type \union {"LAB", "EXP"}) \ {"RED"} \in Flags /\ s.type \union {"LAB"} \in Flags
      BY <2>7 DEF Flags
    <3> QED BY <3>1
  <2>9. PICK y : y = [s EXCEPT !.type = t]
    OBVIOUS
  <2>10. y \in SymT(L) /\ y.type = t /\ y.val = s.val
    BY <2>7, <2>8, <2>9 DEF SymT
  <2>11. PICK c : c = [u EXCEPT !.syms[n] = y]
    OBVIOUS
  <2>12. Fine(L, h, c) /\ c.label = n /\ c.errs = u.errs /\ c.syms[n] = y /\ DOMAIN c.syms = DOMAIN r.syms
    <3>1. n \in DOMAIN u.syms /\ y \in SymT(L) /\ Fine(L, h, u) /\ y.val = u.syms[n].val
      BY <2>2, <2>4, <2>6, <2>10
    <3>2. /\ "EXP" \in u.syms[n].type => "EXP" \in y.type
          /\ "VAR" \in u.syms[n].type => "VAR" \in y.type
      BY <2>4, <2>6, <2>8, <2>10
    <3>3. /\ Fine(L, h, c) /\ c.label = u.label /\ c.errs = u.errs /\ c.syms[n] = y
          /\ DOMAIN c.syms = DOMAIN u.syms
      BY ONLY <2>11, <3>1, <3>2, PutSymIs
    <3> QED BY <2>4, <3>3
  <2>13. Confirmed(pass, r) = c
    <3>1. Confirmed(pass, r) = [Unstable(pass, r.label, r) EXCEPT !.syms[r.label].type =
                           IF "RED" \in @ THEN (@ \union {"LAB", "EXP"}) \ {"RED"} ELSE @ \union {"LAB"}]
      BY <1>2, Zenon DEF Confirmed
    <3> QED BY <2>1, <2>3, <2>4, <2>6, <2>8, <2>9, <2>11, <3>1
  <2>14. n \in DOMAIN h /\ pass = 1 /\ ~c.errs => c.syms[n].val = h[n].val
    BY <2>4, <2>5, <2>6, <2>10, <2>12
  <2>15. Settled(h, c.errs, c.syms)
    BY <2>12, <2>14 DEF Settled, Fine, Keeps
  <2> QED BY <2>12, <2>13, <2>15
<1> QED BY <1>1, <1>2

(* What emitting leaves alone: symbols, errors and the rest of the code. *)
Sent(L, r, s) ==
  /\ s \in WorkT(L) /\ s.syms = r.syms /\ s.errs = r.errs /\ s.dirty = r.dirty /\ s.label = r.label
  /\ s.trap = r.trap

(* One address written by genobj. *)
LEMMA EmitItemTyped ==
  ASSUME NEW L, NEW r \in WorkT(L), NEW c \in ItemT, NEW kept, header.arrext \in Seq(SymName)
  PROVE  Sent(L, r, EmitItem(c, kept, r))
<1>1. /\ r.loc \in LocT /\ r.loc.lc \in Int /\ r.loc.cur \in Segs /\ r.enc \in EncT
      /\ r.emitted \in Pieces
  BY DEF WorkT, LocT
<1>2. c.x \in ValueT /\ c.size \in {1, 2}
  BY DEF ItemT
<1>3. PICK l \in LocT : l = [r.loc EXCEPT !.lc = r.loc.lc + c.size]
  <2>1. PICK k \in Int : k = r.loc.lc + c.size
    <3>1. r.loc.lc + c.size \in Int
      BY <1>1, <1>2
    <3> QED BY <3>1
  <2>2. [r.loc EXCEPT !.lc = k] \in LocT
    BY <1>1 DEF LocT
  <2> QED BY <2>1, <2>2
<1>4. PICK o \in EncT : o = IF kept THEN genobjadr(r.enc, c.x, c.size, header.arrext) ELSE r.enc
  <2>1. genobjadr(r.enc, c.x, c.size, header.arrext) \in EncT
    BY <1>1, <1>2, GenObjTyped
  <2> QED BY <1>1, <2>1
<1> DEFINE put == [k \in {<<r.loc.cur, r.loc.lc + i>> : i \in 0..(c.size - 1)} |->
                     [x |-> c.x, size |-> c.size, i |-> k[2] - r.loc.lc + 1]]
<1>5. put \in Pieces
  <2>1. {<<r.loc.cur, r.loc.lc + i>> : i \in 0..(c.size - 1)} \subseteq Segs \X Int
    BY <1>1, <1>2
  <2>2. \A k \in Segs \X Int : [x |-> c.x, size |-> c.size, i |-> k[2] - r.loc.lc + 1] \in PieceT
    BY <1>1, <1>2 DEF PieceT
  <2>3. DOMAIN put \in SUBSET (Segs \X Int) /\ put \in [DOMAIN put -> PieceT]
    BY <2>1, <2>2
  <2> QED BY <2>3 DEF Pieces
<1> HIDE DEF put
<1>6. PICK m \in Pieces : m = Over(put, r.emitted)
  <2>1. PICK D \in SUBSET (Segs \X Int) : put \in [D -> PieceT]
    BY <1>5 DEF Pieces
  <2>2. PICK E \in SUBSET (Segs \X Int) : r.emitted \in [E -> PieceT]
    BY <1>1 DEF Pieces
  <2>3. Over(put, r.emitted) \in [D \union E -> PieceT]
    BY <2>1, <2>2 DEF Over
  <2>4. D \union E \in SUBSET (Segs \X Int)
    OBVIOUS
  <2>5. Over(put, r.emitted) \in Pieces
    BY <2>3, <2>4 DEF Pieces
  <2> QED BY <2>5
<1>7. PICK moved : moved = [r EXCEPT !.loc = l]
  OBVIOUS
<1>8. moved \in WorkT(L) /\ Sent(L, r, moved) /\ moved.enc = r.enc /\ moved.emitted = r.emitted
  BY <1>7 DEF WorkT, Sent
<1>9. PICK s : s = [moved EXCEPT !.enc = o, !.emitted = m]
  OBVIOUS
<1>10. Sent(L, r, s)
  BY <1>8, <1>9 DEF WorkT, Sent
<1>11. EmitItem(c, kept, r) = IF pass = last_pass THEN s ELSE moved
  <2>1. EmitItem(c, kept, r) =
          IF pass = last_pass
          THEN [[r EXCEPT !.loc.lc = @ + c.size] EXCEPT
                  !.enc = IF kept THEN genobjadr(@, c.x, c.size, header.arrext) ELSE @,
                  !.emitted = Over(put, @)]
          ELSE [r EXCEPT !.loc.lc = @ + c.size]
    BY Zenon DEF EmitItem, put
  <2>2. [r EXCEPT !.loc.lc = @ + c.size] = moved
    BY <1>1, <1>3, <1>7 DEF WorkT, LocT
  <2> QED BY <1>4, <1>6, <1>8, <1>9, <2>1, <2>2
<1> QED BY <1>8, <1>10, <1>11

(* The function that Emit defines. *)
Whole(r, i) == i <= Kept(Len(r.code))
Itemwise(g, r, n) ==
  g = [i \in 0..n |-> IF i = 0 THEN r ELSE EmitItem(r.code[i], Whole(r, i), g[i - 1])]

(* The recursive function in Emit has a value for every address. *)
LEMMA ItemwiseExists ==
  ASSUME NEW r
  PROVE  \A n \in Nat : \E g : Itemwise(g, r, n)
<1> DEFINE Fits(g, n) == Itemwise(g, r, n)
           T == {n \in Nat : \E g : Fits(g, n)}
<1>1. 0 \in T
  <2> DEFINE g == [i \in 0..0 |-> r]
  <2>1. Fits(g, 0)
    BY DEF Itemwise
  <2> QED BY <2>1
<1>2. ASSUME NEW n \in Nat, n \in T PROVE n + 1 \in T
  <2>1. PICK g : Fits(g, n)
    BY <1>2
  <2> DEFINE k == [i \in 0..(n + 1) |-> IF i = n + 1 THEN EmitItem(r.code[n + 1], Whole(r, n + 1), g[n]) ELSE g[i]]
             f == [i \in 0..(n + 1) |-> IF i = 0 THEN r ELSE EmitItem(r.code[i], Whole(r, i), k[i - 1])]
  <2>2. ASSUME NEW i \in 0..(n + 1) PROVE k[i] = f[i]
    <3>1. CASE i = 0
      <4>1. g[0] = r
        BY <2>1 DEF Itemwise
      <4> QED BY <3>1, <4>1
    <3>2. CASE i = n + 1
      <4>1. k[n] = g[n] /\ i - 1 = n
        BY <3>2
      <4> QED BY <3>2, <4>1
    <3>3. CASE i \in 1..n
      <4>1. i \in 0..n /\ i # 0 /\ k[i] = g[i] /\ k[i - 1] = g[i - 1]
        BY <3>3
      <4>2. g[i] = EmitItem(r.code[i], Whole(r, i), g[i - 1])
        BY <2>1, <4>1 DEF Itemwise
      <4> QED BY <4>1, <4>2
    <3> QED BY <3>1, <3>2, <3>3
  <2>3. k = f
    <3> HIDE DEF k, f
    <3>1. k = [i \in 0..(n + 1) |-> k[i]] /\ f = [i \in 0..(n + 1) |-> f[i]]
      BY DEF k, f
    <3> QED BY <2>2, <3>1
  <2>4. Fits(k, n + 1)
    BY <2>3 DEF Itemwise
  <2>5. n + 1 \in Nat /\ \E kk : Fits(kk, n + 1)
    <3> HIDE DEF k, Fits
    <3> QED BY <2>4
  <2> QED BY <2>5
<1>3. \A n \in Nat : n \in T
  <2> HIDE DEF T
  <2> QED BY <1>1, <1>2, SetInduction
<1> QED BY <1>3

(* Emit is the value of that function at the last address. *)
LEMMA EmitIs ==
  ASSUME NEW r, Len(r.code) \in Nat
  PROVE  \E g : Itemwise(g, r, Len(r.code)) /\ Emit(r) = [g[Len(r.code)] EXCEPT !.loc.lc = @ + r.jump]
<1>1. PICK n \in Nat : n = Len(r.code)
  OBVIOUS
<1>2. PICK g : Itemwise(g, r, n)
  BY ItemwiseExists
<1> DEFINE Eq(k) == k = [i \in 0..Len(r.code) |-> IF i = 0 THEN r
                           ELSE Bind(k[i - 1], LAMBDA s : EmitItem(r.code[i], i <= Kept(Len(r.code)), s))]
           f == CHOOSE k : Eq(k)
<1>3. \A k : Eq(k) <=> Itemwise(k, r, Len(r.code))
  <2> TAKE k
  <2>1. \A i \in 0..Len(r.code) :
          (IF i = 0 THEN r ELSE Bind(k[i - 1], LAMBDA s : EmitItem(r.code[i], i <= Kept(Len(r.code)), s)))
            = IF i = 0 THEN r ELSE EmitItem(r.code[i], Whole(r, i), k[i - 1])
    BY DEF Bind, Whole
  <2> QED BY <2>1 DEF Itemwise, Bind, Whole
<1>4. Eq(f)
  <2>1. Eq(g)
    BY <1>1, <1>2, <1>3
  <2> HIDE DEF Eq
  <2> QED BY <2>1
<1>5. Itemwise(f, r, Len(r.code))
  <2> HIDE DEF Eq, f
  <2> QED BY <1>3, <1>4
<1>6. Emit(r) = [f[Len(r.code)] EXCEPT !.loc.lc = @ + r.jump]
  BY Zenon DEF Emit
<1> HIDE DEF f
<1> QED BY <1>5, <1>6

(* The code of a line is written, and the symbols are left alone. *)
LEMMA EmitTyped ==
  ASSUME NEW L, NEW r \in WorkT(L), header.arrext \in Seq(SymName)
  PROVE  Sent(L, r, Emit(r))
<1>1. r.code \in Seq(ItemT) /\ Len(r.code) \in Nat /\ r.jump \in Int
  <2>1. r.code \in Seq(ItemT) /\ r.jump \in Int
    BY DEF WorkT
  <2>2. PICK q \in Seq(ItemT) : q = r.code
    BY <2>1
  <2>3. Len(q) \in Nat
    OBVIOUS
  <2> QED BY <2>1, <2>2, <2>3
<1>2. PICK g : /\ Itemwise(g, r, Len(r.code))
               /\ Emit(r) = [g[Len(r.code)] EXCEPT !.loc.lc = @ + r.jump]
  BY <1>1, EmitIs
<1> DEFINE T == {i \in Nat : i <= Len(r.code) => Sent(L, r, g[i])}
<1>3. 0 \in T
  <2>1. 0 \in 0..Len(r.code)
    BY <1>1
  <2>2. g[0] = r
    BY <1>2, <2>1 DEF Itemwise
  <2> QED BY <2>2 DEF Sent
<1>4. ASSUME NEW i \in Nat, i \in T PROVE i + 1 \in T
  <2> SUFFICES ASSUME i + 1 <= Len(r.code) PROVE Sent(L, r, g[i + 1])
    OBVIOUS
  <2>1. PICK k : k = i + 1
    OBVIOUS
  <2>2. k \in 0..Len(r.code) /\ k # 0 /\ k - 1 = i /\ k \in 1..Len(r.code) /\ i <= Len(r.code)
    BY <1>1, <2>1
  <2>3. g[k] = EmitItem(r.code[k], Whole(r, k), g[k - 1])
    BY <1>2, <2>2 DEF Itemwise
  <2>4. Sent(L, r, g[i]) /\ r.code[k] \in ItemT
    BY <1>1, <1>4, <2>2
  <2>5. g[i] \in WorkT(L)
    BY <2>4 DEF Sent
  <2>6. Sent(L, g[i], EmitItem(r.code[k], Whole(r, k), g[i]))
    BY <2>4, <2>5, EmitItemTyped
  <2> QED BY <2>1, <2>2, <2>3, <2>4, <2>6 DEF Sent
<1>5. \A i \in Nat : i \in T
  <2> HIDE DEF T
  <2> QED BY <1>3, <1>4, SetInduction
<1>6. Len(r.code) \in T
  BY <1>1, <1>5
<1>7. PICK s : s = g[Len(r.code)]
  OBVIOUS
<1>8. Sent(L, r, s)
  BY <1>1, <1>6, <1>7
<1>9. PICK l \in LocT : l = [s.loc EXCEPT !.lc = @ + r.jump]
  <2>1. s.loc \in LocT /\ s.loc.lc \in Int
    BY <1>8 DEF Sent, WorkT, LocT
  <2>2. PICK v \in Int : v = s.loc.lc + r.jump
    <3>1. s.loc.lc + r.jump \in Int
      BY <1>1, <2>1
    <3> QED BY <3>1
  <2>3. [s.loc EXCEPT !.lc = v] \in LocT
    BY <2>1 DEF LocT
  <2> QED BY <2>1, <2>2, <2>3
<1>10. Emit(r) = [s EXCEPT !.loc = l]
  BY <1>2, <1>7, <1>9
<1> QED BY <1>8, <1>9, <1>10 DEF Sent, WorkT

(***************************************************************************)
(* The steps.                                                              *)
(***************************************************************************)
LineT(L) ==
  /\ syms \in Tables(L) /\ loc \in LocT /\ enc \in EncT /\ errs \in BOOLEAN /\ dirty \in BOOLEAN
  /\ emitted \in Pieces

(* What a line may do to the variables that it works on. *)
LineStep(L) ==
  /\ phase' \in {phase, "crash"} /\ LineT(L)'
  /\ errs => errs'
  /\ Settled(syms, errs', syms')

(* A line starts without a change. *)
LEMMA FreshFine ==
  ASSUME NEW L, LineT(L)
  PROVE  Fine(L, syms, Fresh) /\ Fresh.label = "" /\ Fresh.syms = syms /\ Fresh.errs = errs
<1>1. Value(0, {}, 0) \in ValueT
  BY SomeFlags, SegsHave DEF Value, ValueT
<1>2. <<>> \in Seq(ValueT) /\ <<>> \in Seq(ItemT)
  OBVIOUS
<1>z. PICK z \in Int : z = 0
  OBVIOUS
<1>3. PICK r : r = Fresh
  OBVIOUS
<1>4. /\ r \in WorkT(L) /\ r.label = "" /\ r.syms = syms /\ r.errs = errs
  <2>a. PICK x \in ValueT : x = Value(0, {}, 0)
    BY <1>1
  <2>b. PICK vs \in Seq(ValueT) : vs = <<>>
    BY <1>2
  <2>c. PICK co \in Seq(ItemT) : co = <<>>
    BY <1>2
  <2>d. PICK k \in SymName \union {""} : k = ""
    OBVIOUS
  <2>e. PICK t \in BOOLEAN : t = FALSE
    OBVIOUS
  <2>1. x = Value(0, {}, 0) /\ vs = <<>> /\ co = <<>> /\ z = 0 /\ k = "" /\ t = FALSE
    BY <1>z, <2>a, <2>b, <2>c, <2>d, <2>e
  <2>2. r = [syms |-> syms, loc |-> loc, enc |-> enc, errs |-> errs, dirty |-> dirty,
             emitted |-> emitted, label |-> k, old |-> z, x |-> x,
             vals |-> vs, jump |-> z, code |-> co, trap |-> t]
    BY <1>3, <2>1, Zenon DEF Fresh
  <2>3. r \in WorkT(L) /\ r.label = k /\ r.syms = syms /\ r.errs = errs
    BY <2>2 DEF LineT, WorkT
  <2> QED BY <2>1, <2>3
<1>5. \A m \in DOMAIN syms : m # ""
  <2>1. DOMAIN syms \subseteq SymName
    BY TableGet DEF LineT
  <2> QED BY <2>1 DEF SymName, Name
<1>6. Keeps(syms, r)
  BY <1>4, <1>5 DEF Keeps
<1>7. Fine(L, syms, r)
  BY <1>4, <1>6 DEF Fine, Typed
<1> QED BY <1>3, <1>4, <1>7

(* Its label is bound. *)
LEMMA StartFine ==
  ASSUME NEW L, LineT(L), NEW j, NEW l, IsLine(l, j)
  PROVE  /\ Fine(L, syms, Labelled(l, Fresh)) /\ Labelled(l, Fresh).label \in {"", l.label}
         /\ Labelled(l, Fresh).label # ""
              /\ {"COMM", "RED"} \subseteq Labelled(l, Fresh).syms[Labelled(l, Fresh).label].type
            => Labelled(l, Fresh).errs
<1>1. PICK r : r = Fresh
  OBVIOUS
<1>2. Fine(L, syms, r) /\ r.label = "" /\ r.syms = syms
  BY <1>1, FreshFine
<1>3. l.label \in SymName \union {""}
  BY DEF IsLine, SymName, Name
<1> QED BY <1>1, <1>2, <1>3, LabelledFine

(* The end of a line: what its steps may do to the state of the assembler. *)
LEMMA CommitFine ==
  ASSUME NEW L, LineT(L), pass \in {0, 1}, header.arrext \in Seq(SymName), NEW r, Fine(L, syms, r),
         Commit(r)
  PROVE  LineStep(L) /\ DOMAIN syms' = DOMAIN r.syms
<1>1. PICK c : c = Confirmed(pass, r)
  OBVIOUS
<1>2. Fine(L, syms, c) /\ Settled(syms, c.errs, c.syms) /\ DOMAIN c.syms = DOMAIN r.syms
  BY <1>1, ConfirmedFine
<1>3. c \in WorkT(L)
  BY <1>2 DEF Fine, Typed
<1>4. PICK f : f = Emit(c)
  OBVIOUS
<1>5. Sent(L, c, f)
  BY <1>3, <1>4, EmitTyped
<1>6. /\ phase' = IF f.trap \/ Overrun(f.code) THEN "crash" ELSE phase
      /\ syms' = f.syms /\ loc' = f.loc /\ enc' = f.enc
      /\ errs' = f.errs /\ dirty' = f.dirty /\ emitted' = f.emitted
  BY <1>1, <1>4 DEF Commit
<1>7. LineT(L)'
  BY <1>5, <1>6 DEF LineT, Sent, WorkT
<1>8. errs => c.errs
  BY <1>2 DEF Fine, Keeps
<1>9. f.errs = c.errs /\ f.syms = c.syms
  BY <1>5 DEF Sent
<1>10. Settled(syms, errs', syms')
  BY <1>2, <1>6, <1>9
<1>11. phase' \in {phase, "crash"} /\ (errs => errs')
  BY <1>6, <1>8, <1>9
<1> QED BY <1>2, <1>6, <1>7, <1>9, <1>10, <1>11 DEF LineStep

(***************************************************************************)
(* The source that is being read.                                          *)
(***************************************************************************)
OpenFile == [file : DOMAIN job.files, next : Nat]
FilesOK(fs) ==
  /\ fs \in Seq(OpenFile) /\ fs # <<>> /\ Len(fs) - 1 <= MaxGet
  /\ \A i \in 1..Len(fs) : fs[i].next \in 1..(Len(Text(fs[i].file)) + 1)
MacsOK(L, ms) == ms \in Seq(Seq(L)) /\ Len(ms) <= MaxMac
SourceT(L) == FilesOK(files) /\ MacsOK(L, macs)

(* The lines of a source. *)
LEMMA JobLines ==
  ASSUME job \in Jobs
  PROVE  /\ job.files \in Seq(Seq(Lines(job))) /\ 1 \in DOMAIN job.files
         /\ \A l \in Lines(job) : IsLine(l, job)
         /\ TextLoc \in Segs
<1>1. /\ job.files \in Seq(Seq(Lines(job))) /\ job.files # <<>>
      /\ \A l \in Lines(job) : IsLine(l, job)
      /\ job.textseg \in Int /\ job.textseg < NLoc
  BY JobsAssumption
<1>2. 1 \in DOMAIN job.files
  BY <1>1
<1>3. TextLoc \in Segs
  BY <1>1, SegsHave DEF TextLoc, Segs
<1> QED BY <1>1, <1>2, <1>3

(* The text of a file is a sequence of lines. *)
LEMMA TextLines ==
  ASSUME NEW L, L = Lines(job), job \in Jobs, NEW f \in DOMAIN job.files
  PROVE  Text(f) \in Seq(L) /\ Len(Text(f)) \in Nat
<1>1. Text(f) \in Seq(L)
  BY JobLines DEF Text
<1> QED BY <1>1

(* The macros that have lines left are the innermost of them. *)
LEMMA LiveTyped ==
  ASSUME NEW L, NEW ms, MacsOK(L, ms)
  PROVE  /\ MacsOK(L, Live(ms))
         /\ Live(ms) # <<>> => Live(ms)[1] \in Seq(L) /\ Live(ms)[1] # <<>>
<1> DEFINE lines == {i \in DOMAIN ms : ms[i] # <<>>}
<1>1. ms \in Seq(Seq(L)) /\ Len(ms) \in Nat /\ DOMAIN ms = 1..Len(ms) /\ MaxMac \in Nat /\ Len(ms) <= MaxMac
  BY LimitsAssumption DEF MacsOK
<1>2. CASE lines = {}
  <2>1. Live(ms) = <<>>
    BY <1>2 DEF Live
  <2> QED BY <2>1, <1>1 DEF MacsOK
<1>3. CASE lines # {}
  <2>1. lines \subseteq Nat
    BY <1>1
  <2>2. \E i \in lines : \A j \in lines : i <= j
    <3> HIDE DEF lines
    <3> QED BY <1>3, <2>1, LeastNat
  <2>3. PICK k : k = CHOOSE i \in lines : \A j \in lines : i <= j
    OBVIOUS
  <2>4. k \in lines
    BY <2>2, <2>3
  <2>5. Live(ms) = SubSeq(ms, k, Len(ms))
    BY <1>3, <2>3 DEF Live
  <2>6. k \in 1..Len(ms) /\ ms[k] # <<>> /\ ms[k] \in Seq(L)
    BY <1>1, <2>4
  <2>7. /\ SubSeq(ms, k, Len(ms)) \in Seq(Seq(L)) /\ Len(SubSeq(ms, k, Len(ms))) = Len(ms) - k + 1
        /\ SubSeq(ms, k, Len(ms))[1] = ms[k]
    BY <1>1, <2>6
  <2> QED BY <1>1, <2>5, <2>6, <2>7 DEF MacsOK
<1> QED BY <1>2, <1>3

(* Reading takes a line of the source and leaves the places in it in order. *)
LEMMA ReadTyped ==
  ASSUME NEW L, L = Lines(job), job \in Jobs, SourceT(L), ~AtEof
  PROVE  /\ Line \in L /\ IsLine(Line, job)
         /\ MacsOK(L, MacsAfter) /\ FilesOK(FilesAfter)
<1>1. /\ files \in Seq(OpenFile) /\ Len(files) \in Nat /\ 1 \in 1..Len(files)
      /\ \A i \in 1..Len(files) : files[i].next \in 1..(Len(Text(files[i].file)) + 1)
  BY DEF SourceT, FilesOK
<1>2. PICK lv : lv = Live(macs)
  OBVIOUS
<1>3. MacsOK(L, lv) /\ (lv # <<>> => lv[1] \in Seq(L) /\ lv[1] # <<>>)
  BY <1>2, LiveTyped DEF SourceT
<1>4. CASE lv = <<>>
  <2>0. files[1] \in OpenFile
    BY <1>1
  <2>1. PICK f, n : f = files[1].file /\ n = files[1].next
    OBVIOUS
  <2>2. f \in DOMAIN job.files /\ n \in 1..(Len(Text(f)) + 1)
    BY <1>1, <2>0, <2>1 DEF OpenFile
  <2>3. Text(f) \in Seq(L) /\ Len(Text(f)) \in Nat
    BY <2>2, TextLines
  <2>4. n \in 1..Len(Text(f))
    BY <1>2, <1>4, <2>1, <2>2, <2>3 DEF AtEof
  <2>5. Line = Text(f)[n]
    BY <1>2, <1>4, <2>1 DEF Line
  <2>6. Line \in L
    BY <2>3, <2>4, <2>5
  <2>7. MacsAfter = <<>>
    BY <1>2, <1>4 DEF MacsAfter
  <2>8. MacsOK(L, MacsAfter)
    BY <2>7, LimitsAssumption DEF MacsOK
  <2>9. PICK fs : fs = [files EXCEPT ![1].next = @ + 1]
    OBVIOUS
  <2>10. PICK g : g = [files[1] EXCEPT !.next = n + 1]
    OBVIOUS
  <2>11. g \in OpenFile /\ g.file = f /\ g.next = n + 1
    <3>1. files[1] = [file |-> f, next |-> n]
      BY <2>0, <2>1 DEF OpenFile
    <3>2. g = [file |-> f, next |-> n + 1]
      BY <3>1, <2>10
    <3>3. n + 1 \in Nat
      BY <2>2, <2>3
    <3> QED BY <2>2, <3>2, <3>3 DEF OpenFile
  <2>12. g \in OpenFile
    BY <2>11
  <2>13. fs = [files EXCEPT ![1] = g]
    BY <2>1, <2>9, <2>10
  <2>14. /\ fs \in Seq(OpenFile) /\ Len(fs) = Len(files) /\ fs # <<>>
         /\ \A i \in 1..Len(fs) : fs[i] = IF i = 1 THEN g ELSE files[i]
    BY <1>1, <2>12, <2>13
  <2>15. \A i \in 1..Len(fs) : fs[i].next \in 1..(Len(Text(fs[i].file)) + 1)
    <3>1. n + 1 \in 1..(Len(Text(f)) + 1)
      BY <2>3, <2>4
    <3> QED BY <1>1, <2>11, <2>14, <3>1
  <2>16. FilesOK(fs)
    BY <2>14, <2>15 DEF SourceT, FilesOK
  <2>17. FilesAfter = fs
    BY <1>2, <1>4, <2>9 DEF FilesAfter
  <2> QED BY <2>6, <2>8, <2>16, <2>17, JobLines
<1>5. CASE lv # <<>>
  <2>1. Line = lv[1][1]
    BY <1>2, <1>5 DEF Line
  <2>2. Line \in L
    BY <1>3, <1>5, <2>1
  <2>3. FilesAfter = files
    BY <1>2, <1>5 DEF FilesAfter
  <2>4. MacsAfter = <<Tail(lv[1])>> \o Tail(lv)
    BY <1>2, <1>5 DEF MacsAfter
  <2>5. Tail(lv[1]) \in Seq(L)
    BY <1>3, <1>5
  <2>6. PICK u \in Seq(L) : u = Tail(lv[1])
    BY <2>5
  <2>7. lv \in Seq(Seq(L)) /\ Len(lv) <= MaxMac
    BY <1>3 DEF MacsOK
  <2>8. Tail(lv) \in Seq(Seq(L)) /\ Len(Tail(lv)) = Len(lv) - 1
    BY <1>5, <2>7
  <2>9. <<u>> \o Tail(lv) \in Seq(Seq(L)) /\ Len(<<u>> \o Tail(lv)) = Len(lv)
    BY <2>6, <2>7, <2>8
  <2> QED BY <2>2, <2>3, <2>4, <2>6, <2>7, <2>9, JobLines DEF SourceT, MacsOK
<1> QED BY <1>4, <1>5

(***************************************************************************)
(* The inductive invariant.                                                *)
(***************************************************************************)
LoadT(L) ==
  /\ load \in [on : BOOLEAN, name : SymName \union {""}, saving : BOOLEAN, text : Seq(L), last : Seq(L)]
  /\ load.on => load.last # <<>> /\ load.name \in DOMAIN syms
BlocksT == blocks \in Seq(BlockT) /\ Len(blocks) <= MaxBlock

(* What the object header says of a symbol stays true while the last pass  *)
(* goes on without an error, but for the label of the last END line.       *)
HeaderKept ==
  pass = 1 =>
    \A n \in DOMAIN header.syms :
      /\ n \in DOMAIN syms
      /\ header.syms[n].exported =>
           /\ "EXP" \in syms[n].type
           /\ errs \/ "VAR" \in syms[n].type \/ header.syms[n].val = syms[n].val % 65536
                \/ n \in EndLabels
Accepted == phase \in {"done", "link", "pad", "linked", "refused"}

Inv(L) ==
  /\ job \in Jobs /\ pass \in {0, 1} /\ phase \in {"as", "done", "link", "pad"} \union Ended
  /\ SourceT(L) /\ LoadT(L) /\ BlocksT /\ CondInv /\ Len(conds.stack) <= MaxIf
  /\ LineT(L) /\ header.arrext \in Seq(SymName) /\ HeaderKept
  /\ Accepted => pass = 1 /\ ~errs
  /\ curseg \in Segs /\ relocsize \in {1, 2}

(***************************************************************************)
(* One lemma for the lines that only work on symbols, counters and code,   *)
(* with a step for each operation.                                         *)
(***************************************************************************)
SimpleAction ==
  \/ Plain \/ Fcb \/ Fdb \/ Fcc \/ Rmbs \/ Blkw \/ Align \/ Even \/ Org \/ Loc \/ TextSect \/ DataSect
  \/ Equ \/ Set \/ Comm \/ Comm1 \/ Import \/ (\E k \in {"entry", "export", "globl"} : Export(k))
  \/ Fail \/ Memory \/ Immediate \/ Inherent \/ Branch \/ StrayMend

(* A line that is assembled begins with a fine record. *)
LEMMA LineFacts ==
  ASSUME NEW L, L = Lines(job), Inv(L), Reading
  PROVE  /\ Line \in L /\ IsLine(Line, job) /\ MacsOK(L, MacsAfter) /\ FilesOK(FilesAfter)
         /\ Fine(L, syms, Labelled(Line, Fresh)) /\ Labelled(Line, Fresh).label \in {"", Line.label}
         /\ Labelled(Line, Fresh).label # ""
              /\ {"COMM", "RED"} \subseteq Labelled(Line, Fresh).syms[Labelled(Line, Fresh).label].type
            => Labelled(Line, Fresh).errs
<1>1. Line \in L /\ IsLine(Line, job) /\ MacsOK(L, MacsAfter) /\ FilesOK(FilesAfter)
  BY ReadTyped DEF Inv, Reading
<1> QED BY <1>1, StartFine DEF Inv

(* The directives and instructions that change no stack. *)
LEMMA SimpleSteps ==
  ASSUME NEW L, L = Lines(job), Inv(L), SimpleAction
  PROVE  LineStep(L) /\ Reading
<1>1. Reading
  BY DEF SimpleAction, Plain, Fcb, Fdb, Fcc, Rmbs, Blkw, Align, Even, Org, Loc, TextSect, DataSect, Equ,
    Set, Comm, Comm1, Import, Export, Fail, Memory, Immediate, Inherent, Branch, StrayMend, OnLine
<1>2. PICK l : l = Line
  OBVIOUS
<1>3. PICK r : r = Labelled(Line, Fresh)
  OBVIOUS
<1>4. r.label # "" /\ {"COMM", "RED"} \subseteq r.syms[r.label].type => r.errs
  BY <1>1, <1>3, LineFacts, Zenon
<1>5. IsLine(l, job) /\ Fine(L, syms, r)
  BY <1>1, <1>2, <1>3, LineFacts, Zenon
<1>6. pass \in {0, 1} /\ LineT(L) /\ header.arrext \in Seq(SymName) /\ TextLoc \in Segs
  BY JobLines DEF Inv
<1>7. ASSUME NEW s, Fine(L, syms, s), Commit(s) PROVE LineStep(L) /\ Reading
  BY <1>1, <1>6, <1>7, CommitFine
<1>8. CASE Plain
  <2>1. Commit(r)
    BY <1>2, <1>3, <1>8 DEF Plain, Simple, Do
  <2> QED BY <1>5, <1>7, <2>1
<1>9. CASE Fcb
  <2>1. Commit(Each("fcb", l.es, r)) /\ l.op = "fcb"
    BY <1>2, <1>3, <1>9 DEF Fcb, Simple, Do, OnLine
  <2>2. Len(l.es) \in Nat /\ \A i \in 1..Len(l.es) : ElementOK("fcb", l.es[i])
    BY <1>5, <2>1 DEF IsLine, ElementOK
  <2> QED BY <1>5, <1>7, <2>1, <2>2, EachFine
<1>10. CASE Fdb
  <2>1. Commit(Each("fdb", l.es, r)) /\ l.op = "fdb"
    BY <1>2, <1>3, <1>10 DEF Fdb, Simple, Do, OnLine
  <2>2. Len(l.es) \in Nat /\ \A i \in 1..Len(l.es) : ElementOK("fdb", l.es[i])
    BY <1>5, <2>1 DEF IsLine, ElementOK
  <2> QED BY <1>5, <1>7, <2>1, <2>2, EachFine
<1>11. CASE Fcc
  <2>1. Commit(pfcc(l, r)) /\ l.op = "fcc"
    BY <1>2, <1>3, <1>11 DEF Fcc, Simple, Do, OnLine
  <2>2. l.n \in Nat
    BY <1>5, <2>1 DEF IsLine
  <2> QED BY <1>5, <1>7, <2>1, <2>2, FccFine
<1>12. CASE Rmbs
  <2>1. Commit(constdata(l, 1, r)) /\ l.op = "rmb"
    BY <1>2, <1>3, <1>12 DEF Rmbs, Simple, Do, OnLine
  <2>2. IsExpr(l.e) /\ (l.fill = <<>> \/ IsExpr(l.fill))
    BY <1>5, <2>1 DEF IsLine
  <2>3. Fine(L, syms, constdata(l, 1, r))
    BY <1>5, <2>2, ConstDataFine
  <2> QED BY <1>7, <2>1, <2>3
<1>13. CASE Blkw
  <2>1. Commit(constdata(l, 2, r)) /\ l.op = "blkw"
    BY <1>2, <1>3, <1>13 DEF Blkw, Simple, Do, OnLine
  <2>2. IsExpr(l.e)
    BY <1>5, <2>1 DEF IsLine
  <2>3. Fine(L, syms, constdata(l, 2, r))
    BY <1>5, <2>2, ConstDataFine
  <2> QED BY <1>7, <2>1, <2>3
<1>14. CASE Align
  <2>1. Commit(palign(l, r)) /\ l.op = "align"
    BY <1>2, <1>3, <1>14 DEF Align, Simple, Do, OnLine
  <2>2. IsExpr(l.e)
    BY <1>5, <2>1 DEF IsLine
  <2> QED BY <1>5, <1>7, <2>1, <2>2, AlignFine
<1>15. CASE Even
  <2>1. Commit(peven(l, r))
    BY <1>2, <1>3, <1>15 DEF Even, Simple, Do
  <2> QED BY <1>5, <1>7, <2>1, EvenFine
<1>16. CASE Org
  <2>1. Commit(porg(l, r)) /\ l.op = "org"
    BY <1>2, <1>3, <1>16 DEF Org, Simple, Do, OnLine
  <2>2. IsExpr(l.e)
    BY <1>5, <2>1 DEF IsLine
  <2> QED BY <1>5, <1>7, <2>1, <2>2, OrgFine
<1>17. CASE Loc
  <2>1. Commit(ploc(l, r)) /\ l.op = "loc"
    BY <1>2, <1>3, <1>17 DEF Loc, Simple, Do, OnLine
  <2>2. IsExpr(l.e)
    BY <1>5, <2>1 DEF IsLine
  <2> QED BY <1>5, <1>7, <2>1, <2>2, LocFine
<1>18. CASE TextSect
  <2>1. Commit(ptext(l, r))
    BY <1>2, <1>3, <1>18 DEF TextSect, Simple, Do
  <2> QED BY <1>5, <1>6, <1>7, <2>1, SectionFine
<1>19. CASE DataSect
  <2>1. Commit(pdata(l, r))
    BY <1>2, <1>3, <1>19 DEF DataSect, Simple, Do
  <2> QED BY <1>5, <1>6, <1>7, <2>1, SectionFine
<1>20. CASE Equ
  <2>1. Commit(pequ(l, r)) /\ l.op = "equ"
    BY <1>2, <1>3, <1>20 DEF Equ, Simple, Do, OnLine
  <2>2. IsExpr(l.e)
    BY <1>5, <2>1 DEF IsLine
  <2>3. Fine(L, syms, pequ(l, r))
    BY <1>4, <1>5, <1>6, <2>2, EquFine, Zenon
  <2> QED BY <1>7, <2>1, <2>3
<1>21. CASE Set
  <2>1. Commit(pset(l, r)) /\ l.op = "set"
    BY <1>2, <1>3, <1>21 DEF Set, Simple, Do, OnLine
  <2>2. IsExpr(l.e)
    BY <1>5, <2>1 DEF IsLine
  <2>3. Fine(L, syms, pset(l, r))
    BY <1>4, <1>5, <1>6, <2>2, EquFine, Zenon
  <2> QED BY <1>7, <2>1, <2>3
<1>22. CASE Comm
  <2>1. Commit(pcomm(l, r)) /\ l.op = "comm"
    BY <1>2, <1>3, <1>22 DEF Comm, Simple, Do, OnLine
  <2>2. IsExpr(l.e)
    BY <1>5, <2>1 DEF IsLine
  <2> QED BY <1>5, <1>7, <2>1, <2>2, CommFine
<1>23. CASE Comm1
  <2>1. Commit(pcomm1(l, r)) /\ l.op = "comm1"
    BY <1>2, <1>3, <1>23 DEF Comm1, Simple, Do, OnLine
  <2>2. IsExpr(l.e) /\ l.name \in SymName
    BY <1>5, <2>1 DEF IsLine, SymName
  <2> QED BY <1>5, <1>7, <2>1, <2>2, Comm1Fine
<1>24. CASE Import
  <2>1. Commit(Each("import", l.names, r)) /\ l.op = "import"
    BY <1>2, <1>3, <1>24 DEF Import, Simple, Do, OnLine
  <2>2. Len(l.names) \in Nat /\ \A i \in 1..Len(l.names) : ElementOK("import", l.names[i])
    BY <1>5, <2>1 DEF IsLine, ElementOK, SymName
  <2> QED BY <1>5, <1>7, <2>1, <2>2, EachFine
<1>25. ASSUME NEW k \in {"entry", "export", "globl"}, Export(k) PROVE LineStep(L) /\ Reading
  <2>1. Commit(Each(k, l.names, r)) /\ l.op = k
    BY <1>2, <1>3, <1>25 DEF Export, Simple, Do, OnLine
  <2>2. Len(l.names) \in Nat /\ \A i \in 1..Len(l.names) : ElementOK(k, l.names[i])
    BY <1>5, <2>1 DEF IsLine, ElementOK, SymName
  <2> QED BY <1>5, <1>7, <2>1, <2>2, EachFine
<1>26. CASE Fail
  <2>1. Commit(ErrLast(r))
    BY <1>2, <1>3, <1>26 DEF Fail, Simple, Do, pfail
  <2> QED BY <1>5, <1>7, <2>1, ErrFine
<1>27. CASE Memory
  <2>1. Commit(doaltind(l, r)) /\ l.op = "mem"
    BY <1>2, <1>3, <1>27 DEF Memory, Simple, Do, OnLine
  <2>2. IsExpr(l.e) /\ l.opcode \in 0..255
    BY <1>5, <2>1 DEF IsLine
  <2> QED BY <1>5, <1>7, <2>1, <2>2, MemoryFine
<1>28. CASE Immediate
  <2>1. Commit(mimmed(l, r)) /\ l.op = "imm"
    BY <1>2, <1>3, <1>28 DEF Immediate, Simple, Do, OnLine
  <2>2. IsExpr(l.e) /\ l.opcode \in 0..255
    BY <1>5, <2>1 DEF IsLine
  <2> QED BY <1>5, <1>7, <2>1, <2>2, ImmediateFine
<1>29. CASE Inherent
  <2>1. Commit(minher(l, r)) /\ l.op = "inher"
    BY <1>2, <1>3, <1>29 DEF Inherent, Simple, Do, OnLine
  <2>2. l.opcode \in 0..255
    BY <1>5, <2>1 DEF IsLine
  <2>3. l.opcode \in Int
    BY <2>2
  <2>4. Fine(L, syms, minher(l, r))
    BY <1>5, <2>3, CodeFine DEF minher
  <2> QED BY <1>7, <2>1, <2>4
<1>30. CASE Branch
  <2>1. Commit(mshort(l, r)) /\ l.op = "branch"
    BY <1>2, <1>3, <1>30 DEF Branch, Simple, Do, OnLine
  <2>2. IsExpr(l.e) /\ l.opcode \in 0..255
    BY <1>5, <2>1 DEF IsLine
  <2> QED BY <1>5, <1>7, <2>1, <2>2, BranchFine
<1>31. CASE StrayMend
  <2>1. Commit(Err(lookup("mend", r)))
    BY <1>2, <1>3, <1>31 DEF StrayMend, Simple, Do
  <2>2. "mend" \in SymName
    BY DEF SymName
  <2>3. Fine(L, syms, lookup("mend", r))
    BY <1>5, <2>2, LookupFine
  <2> QED BY <1>7, <2>1, <2>3, ErrFine
<1> QED BY <1>1, <1>8, <1>9, <1>10, <1>11, <1>12, <1>13, <1>14, <1>15, <1>16, <1>17, <1>18, <1>19, <1>20,
    <1>21, <1>22, <1>23, <1>24, <1>25, <1>26, <1>27, <1>28, <1>29, <1>30, <1>31 DEF SimpleAction

(* BLOCK and ENDB, conditionals, macros and GET work on the same variables *)
(* in the same way.                                                        *)
LEMMA BlockSteps ==
  ASSUME NEW L, L = Lines(job), Inv(L), Block \/ EndB
  PROVE  LineStep(L)
<1>1. Reading
  BY DEF Block, EndB, OnLine
<1>2. PICK l : l = Line
  OBVIOUS
<1>3. PICK r : r = Labelled(Line, Fresh)
  OBVIOUS
<1>4. IsLine(l, job) /\ Fine(L, syms, r)
  BY <1>1, <1>2, <1>3, LineFacts, Zenon
<1>5. ASSUME NEW s, Fine(L, syms, s), Commit(s) PROVE LineStep(L)
  BY <1>5, CommitFine DEF Inv
<1>6. CASE Block
  <2>1. l.op = "block"
    BY <1>2, <1>6 DEF Block, OnLine
  <2>2. Commit(Err(r)) \/ Commit(porg(l, r))
    BY <1>2, <1>3, <1>6 DEF Block, Do
  <2>3. IsExpr(l.e)
    BY <1>4, <2>1 DEF IsLine
  <2>4. Fine(L, syms, Err(r)) /\ Fine(L, syms, porg(l, r))
    BY <1>4, <2>3, ErrFine, OrgFine
  <2> QED BY <1>5, <2>2, <2>4
<1>7. CASE EndB
  <2>1. Commit(pendb(l, r))
    BY <1>2, <1>3, <1>7 DEF EndB, Do
  <2>2. Fine(L, syms, pendb(l, r))
    BY <1>4, EndBFine DEF Inv, BlocksT
  <2> QED BY <1>5, <2>1, <2>2
<1> QED BY <1>6, <1>7

(* IF, ELSEIF, ELSE and ENDIF as lines. *)
LEMMA CondLineSteps ==
  ASSUME NEW L, L = Lines(job), Inv(L), If \/ ElseIf \/ Else \/ EndIf
  PROVE  LineStep(L)
<1>1. Reading
  BY DEF If, ElseIf, Else, EndIf, CondLine
<1>2. PICK l : l = Line
  OBVIOUS
<1>3. PICK r : r = Labelled(Line, Fresh)
  OBVIOUS
<1>4. IsLine(l, job) /\ Fine(L, syms, r)
  BY <1>1, <1>2, <1>3, LineFacts, Zenon
<1>5. ASSUME NEW s, Fine(L, syms, s), Commit(s) PROVE LineStep(L)
  BY <1>5, CommitFine DEF Inv
<1>6. Fine(L, syms, Err(r))
  BY <1>4, ErrFine
<1>7. CASE If
  <2>1. l.op = "if"
    BY <1>2, <1>7 DEF If, CondLine
  <2>2. IsExpr(l.e)
    BY <1>4, <2>1 DEF IsLine
  <2>3. Fine(L, syms, absexpres(l.e, r))
    BY <1>4, <2>2, ExprFine
  <2>4. Commit(Err(r)) \/ Commit(r) \/ Commit(absexpres(l.e, r))
    BY <1>2, <1>3, <1>7 DEF If, Switch
  <2> QED BY <1>4, <1>5, <1>6, <2>3, <2>4
<1>8. CASE ElseIf
  <2>1. l.op = "elseif"
    BY <1>2, <1>8 DEF ElseIf, CondLine
  <2>2. IsExpr(l.e)
    BY <1>4, <2>1 DEF IsLine
  <2>3. PICK q : q = Scanned(l.e, r)
    OBVIOUS
  <2>4. Fine(L, syms, q)
    <3>1. CASE q = r
      BY <1>4, <3>1
    <3>2. CASE q # r
      <4>1. l.e[1].op = "id" /\ q = lookup(l.e[1].name, r)
        BY <2>3, <3>2 DEF Scanned
      <4>2. l.e[1].name \in SymName
        BY <2>2, <4>1 DEF IsExpr, SymName
      <4> QED BY <1>4, <4>1, <4>2, LookupFine
    <3> QED BY <3>1, <3>2
  <2>5. Fine(L, syms, Err(q)) /\ Fine(L, syms, absexpres(l.e, q))
    BY <2>2, <2>4, ErrFine, ExprFine
  <2>6. \/ phase' = "crash" /\ UNCHANGED lineVars
        \/ Commit(Err(q)) \/ Commit(q) \/ Commit(absexpres(l.e, q))
    BY <1>2, <1>3, <1>8, <2>3 DEF ElseIf, Switch
  <2>7. CASE phase' = "crash" /\ UNCHANGED lineVars
    <3>1. UNCHANGED <<syms, loc, enc, errs, dirty, emitted>>
      BY <2>7 DEF lineVars
    <3>2. LineT(L)'
      BY <3>1 DEF Inv, LineT
    <3>3. Settled(syms, errs', syms')
      BY <3>1 DEF Settled
    <3> QED BY <2>7, <3>1, <3>2, <3>3 DEF LineStep
  <2> QED BY <1>5, <2>4, <2>5, <2>6, <2>7
<1>9. CASE Else
  <2>1. Commit(Err(r)) \/ Commit(r)
    BY <1>3, <1>9 DEF Else, Switch
  <2> QED BY <1>4, <1>5, <1>6, <2>1
<1>10. CASE EndIf
  <2>1. Commit(Err(r)) \/ Commit(r)
    BY <1>3, <1>10 DEF EndIf, Switch
  <2> QED BY <1>4, <1>5, <1>6, <2>1
<1> QED BY <1>7, <1>8, <1>9, <1>10

(* MACRO as a line. *)
LEMMA MacroStep ==
  ASSUME NEW L, L = Lines(job), Inv(L), Macro
  PROVE  LineStep(L) /\ LoadT(L)'
<1>1. Reading
  BY DEF Macro, OnLine
<1>2. PICK l : l = Line
  OBVIOUS
<1>3. PICK r0 : r0 = Labelled(Line, Fresh)
  OBVIOUS
<1>4. IsLine(l, job) /\ l \in L /\ Fine(L, syms, r0)
  BY <1>1, <1>2, <1>3, LineFacts, Zenon
<1>5. l.op = "macro"
  BY <1>2 DEF Macro, OnLine
<1>6. l.name \in SymName
  BY <1>4, <1>5 DEF IsLine, SymName
<1>7. PICK r : r = lookup(l.name, r0)
  OBVIOUS
<1>8. Fine(L, syms, r) /\ l.name \in DOMAIN r.syms
  BY <1>4, <1>6, <1>7, LookupFine
<1>9. \E bad, saving \in BOOLEAN :
        /\ Commit(IF bad THEN Err(r) ELSE IF saving THEN MacroSymbol(l.name, r) ELSE r)
        /\ load' = [on |-> TRUE, name |-> l.name, saving |-> saving, text |-> <<>>, last |-> <<l>>]
  <2> DEFINE bad == r.label # "" \/ "LAB" \in r.syms[l.name].type \/ "FOR" \in r.syms[l.name].data
             saving == ~bad /\ (pass # last_pass \/ "RED" \in r.syms[l.name].type)
  <2>1. /\ Commit(IF bad THEN Err(r) ELSE IF saving THEN MacroSymbol(l.name, r) ELSE r)
        /\ load' = [on |-> TRUE, name |-> l.name, saving |-> saving, text |-> <<>>, last |-> <<l>>]
    BY <1>2, <1>3, <1>7, ZenonT(40) DEF Macro
  <2>2. bad \in BOOLEAN /\ saving \in BOOLEAN
    BY Zenon
  <2> HIDE DEF bad, saving
  <2> QED BY <2>1, <2>2
<1>10. PICK bad \in BOOLEAN, saving \in BOOLEAN :
        /\ Commit(IF bad THEN Err(r) ELSE IF saving THEN MacroSymbol(l.name, r) ELSE r)
        /\ load' = [on |-> TRUE, name |-> l.name, saving |-> saving, text |-> <<>>, last |-> <<l>>]
  BY <1>9
<1>11. PICK q : q = IF bad THEN Err(r) ELSE IF saving THEN MacroSymbol(l.name, r) ELSE r
  OBVIOUS
<1>12. Fine(L, syms, q) /\ Commit(q)
  BY <1>8, <1>10, <1>11, ErrFine, MacroFine
<1>13. l.name \in DOMAIN q.syms
  <2>1. r \in WorkT(L)
    BY <1>8 DEF Fine, Typed
  <2>2. Err(r).syms = r.syms
    BY <2>1 DEF Err, WorkT
  <2>3. DOMAIN MacroSymbol(l.name, r).syms = DOMAIN r.syms
    BY <1>8, MacroFine
  <2> QED BY <1>8, <1>11, <2>2, <2>3
<1>14. LineStep(L) /\ l.name \in DOMAIN syms'
  BY <1>12, <1>13, CommitFine DEF Inv
<1>15. LoadT(L)'
  <2>1. <<l>> \in Seq(L) /\ <<>> \in Seq(L) /\ <<l>> # <<>>
    BY <1>4
  <2>2. l.name \in SymName \union {""}
    BY <1>6
  <2>3. PICK n : n = l.name
    OBVIOUS
  <2>4. load' \in [on : BOOLEAN, name : SymName \union {""}, saving : BOOLEAN, text : Seq(L), last : Seq(L)]
    BY <1>10, <2>1, <2>2, Zenon
  <2>5. load'.last # <<>> /\ load'.name \in DOMAIN syms'
    BY <1>10, <1>14, <2>1
  <2> QED BY <2>4, <2>5, Zenon DEF LoadT
<1> QED BY <1>14, <1>15

(* A macro call as a line. *)
LEMMA CallStep ==
  ASSUME NEW L, L = Lines(job), Inv(L), Call
  PROVE  LineStep(L) /\ SourceT(L)'
<1>1. Reading
  BY DEF Call, OnLine
<1>2. PICK l : l = Line
  OBVIOUS
<1>3. PICK r0 : r0 = Labelled(Line, Fresh)
  OBVIOUS
<1>4. IsLine(l, job) /\ Fine(L, syms, r0) /\ MacsOK(L, MacsAfter) /\ FilesOK(FilesAfter)
  BY <1>1, <1>2, <1>3, LineFacts, Zenon
<1>5. l.op = "call"
  BY <1>2 DEF Call, OnLine
<1>6. l.name \in SymName
  BY <1>4, <1>5 DEF IsLine, SymName
<1>7. PICK r : r = lookup(l.name, r0)
  OBVIOUS
<1>8. Fine(L, syms, r) /\ l.name \in DOMAIN r.syms
  BY <1>4, <1>6, <1>7, LookupFine
<1>9. PICK ms : ms = MacsAfter
  OBVIOUS
<1>10. PICK w : w = r.syms[l.name].text
  OBVIOUS
<1>11. /\ Commit(r) \/ Commit(Err(r))
       /\ macs' = ms \/ (~(Len(ms) >= MaxMac) /\ macs' = <<w>> \o ms)
       /\ files' = FilesAfter /\ job' = job
  BY <1>2, <1>3, <1>7, <1>9, <1>10 DEF Call, MacrosFull
<1>12. LineStep(L)
  BY <1>8, <1>11, ErrFine, CommitFine DEF Inv
<1>13. w \in Seq(L)
  BY <1>8, <1>10, SymOf
<1>14. ms \in Seq(Seq(L)) /\ Len(ms) \in Nat /\ Len(ms) <= MaxMac /\ MaxMac \in Nat
  BY <1>4, <1>9, LimitsAssumption DEF MacsOK
<1>15. <<w>> \o ms \in Seq(Seq(L)) /\ Len(<<w>> \o ms) = Len(ms) + 1
  BY <1>13, <1>14
<1>16. macs' \in Seq(Seq(L)) /\ Len(macs') <= MaxMac
  <2>1. CASE macs' = ms
    BY <1>14, <2>1
  <2>2. CASE ~(Len(ms) >= MaxMac) /\ macs' = <<w>> \o ms
    BY <1>14, <1>15, <2>2
  <2> QED BY <1>11, <2>1, <2>2
<1>17. FilesOK(files)'
  BY <1>4, <1>11 DEF FilesOK, OpenFile, Text
<1> QED BY <1>12, <1>16, <1>17 DEF SourceT, MacsOK

(* GET as a line. *)
LEMMA GetStep ==
  ASSUME NEW L, L = Lines(job), Inv(L), Get
  PROVE  LineStep(L) /\ SourceT(L)'
<1>1. Reading
  BY DEF Get, OnLine
<1>2. PICK l : l = Line
  OBVIOUS
<1>3. PICK r : r = Labelled(Line, Fresh)
  OBVIOUS
<1>4. IsLine(l, job) /\ Fine(L, syms, r) /\ MacsOK(L, MacsAfter) /\ FilesOK(FilesAfter)
  BY <1>1, <1>2, <1>3, LineFacts, Zenon
<1>5. l.op = "get"
  BY <1>2 DEF Get, OnLine
<1>6. l.file \in DOMAIN job.files
  BY <1>4, <1>5 DEF IsLine
<1>7. PICK fs : fs = FilesAfter
  OBVIOUS
<1>8. PICK f : f = l.file
  OBVIOUS
<1>9. PICK o : o = [file |-> f, next |-> 1]
  OBVIOUS
<1>10. /\ Commit(r) \/ Commit(Err(r))
       /\ files' = fs \/ (~(Len(files) - 1 >= MaxGet) /\ files' = <<o>> \o fs)
       /\ macs' = MacsAfter /\ job' = job
  BY <1>2, <1>3, <1>7, <1>8, <1>9 DEF Get
<1>11. LineStep(L)
  BY <1>4, <1>10, ErrFine, CommitFine DEF Inv
<1>12. MacsOK(L, macs)'
  BY <1>4, <1>10 DEF MacsOK
<1>13. fs \in Seq(OpenFile) /\ Len(fs) = Len(files) /\ Len(files) \in Nat /\ MaxGet \in Nat
  BY <1>4, <1>7, LimitsAssumption DEF FilesOK, FilesAfter, Inv, SourceT
<1>14. o \in OpenFile /\ o.next = 1 /\ o.file = f
  BY <1>6, <1>8, <1>9 DEF OpenFile
<1>15. /\ <<o>> \o fs \in Seq(OpenFile) /\ Len(<<o>> \o fs) = Len(fs) + 1
       /\ \A i \in 1..(Len(fs) + 1) : (<<o>> \o fs)[i] = IF i = 1 THEN o ELSE fs[i - 1]
  BY <1>13, <1>14
<1>16. 1 \in 1..(Len(Text(f)) + 1)
  <2>1. Len(Text(f)) \in Nat
    BY <1>6, <1>8, TextLines DEF Inv
  <2> QED BY <2>1
<1>17. CASE files' = fs
  BY <1>4, <1>7, <1>10, <1>11, <1>12, <1>17 DEF SourceT, FilesOK, OpenFile, Text
<1>18. CASE ~(Len(files) - 1 >= MaxGet) /\ files' = <<o>> \o fs
  <2>1. Len(files') - 1 <= MaxGet /\ files' # <<>>
    BY <1>13, <1>15, <1>18
  <2>2. \A i \in 1..Len(files') : files'[i].next \in 1..(Len(Text(files'[i].file)) + 1)
    <3>1. SUFFICES ASSUME NEW i \in 1..(Len(fs) + 1)
                   PROVE  files'[i].next \in 1..(Len(Text(files'[i].file)) + 1)
      BY <1>15, <1>18
    <3>2. CASE i = 1
      BY <1>14, <1>15, <1>16, <1>18, <3>2
    <3>3. CASE i # 1
      <4>1. i - 1 \in 1..Len(fs) /\ files'[i] = fs[i - 1]
        BY <1>13, <1>15, <1>18, <3>3
      <4>2. fs[i - 1].next \in 1..(Len(Text(fs[i - 1].file)) + 1)
        BY <1>4, <1>7, <4>1 DEF FilesOK
      <4> QED BY <4>1, <4>2
    <3> QED BY <3>2, <3>3
  <2>3. files' \in Seq(OpenFile)
    BY <1>15, <1>18
  <2>4. FilesOK(files)'
    BY <1>10, <2>1, <2>2, <2>3 DEF FilesOK, OpenFile, Text
  <2> QED BY <1>11, <1>12, <2>4 DEF SourceT
<1> QED BY <1>10, <1>17, <1>18

(* The symbols of the header are in some order: every finite set has one.  *)
LEMMA ArrextTyped ==
  ASSUME NEW L, NEW t \in Tables(L), NEW tab
  PROVE  objheader(tab, t).arrext \in Seq(SymName)
<1> DEFINE named == {n \in DOMAIN t : InObject(t[n])}
           Orders == {q \in [1..Cardinality(named) -> named] : \A n \in named : \E i \in DOMAIN q : q[i] = n}
<1>1. named \subseteq DOMAIN t
  OBVIOUS
<1>2. IsFiniteSet(DOMAIN t) /\ DOMAIN t \subseteq SymName
  BY TableGet
<1>3. IsFiniteSet(named)
  <2> HIDE DEF named
  <2> QED BY <1>1, <1>2, FS_Subset
<1>4. Cardinality(named) \in Nat /\ ExistsBijection(1..Cardinality(named), named)
  <2> HIDE DEF named
  <2> QED BY <1>3, FS_CardinalityType
<1>5. PICK q \in [1..Cardinality(named) -> named] : \A n \in named : \E i \in DOMAIN q : q[i] = n
  <2> HIDE DEF named
  <2> QED BY <1>4 DEF ExistsBijection, Bijection, Injection, Surjection
<1>6. objheader(tab, t).arrext
        = CHOOSE p \in [1..Cardinality(named) -> named] : \A n \in named : \E i \in DOMAIN p : p[i] = n
  BY DEF objheader
<1>7. objheader(tab, t).arrext \in [1..Cardinality(named) -> named]
  <2> HIDE DEF named
  <2> QED BY <1>5, <1>6
<1>8. \A p \in [1..Cardinality(named) -> named] : p \in Seq(SymName)
  <2> HIDE DEF named
  <2> QED BY <1>1, <1>2, <1>4
<1> QED BY <1>7, <1>8

(* A line is added to the macro that is being read. *)
LEMMA LoadedTyped ==
  ASSUME NEW L, Inv(L), load.on, NEW l \in L, load' = Loaded(l), DOMAIN syms \subseteq DOMAIN syms'
  PROVE  LoadT(L)'
<1>1. PICK o, n, sv, w, q : o = load.on /\ n = load.name /\ sv = load.saving /\ w = load.text /\ q = load.last
  OBVIOUS
<1>2. /\ load \in [on : BOOLEAN, name : SymName \union {""}, saving : BOOLEAN, text : Seq(L), last : Seq(L)]
      /\ load.name \in DOMAIN syms
  BY Zenon DEF Inv, LoadT
<1>3. load = [on |-> o, name |-> n, saving |-> sv, text |-> w, last |-> q]
      /\ o \in BOOLEAN /\ n \in SymName \union {""} /\ sv \in BOOLEAN /\ w \in Seq(L)
  BY <1>1, <1>2, Zenon
<1>4. PICK t : t = IF Comment(l) THEN w ELSE Append(w, l)
  OBVIOUS
<1>5. w \in Seq(L)
  BY <1>3
<1>6. t \in Seq(L) /\ <<l>> \in Seq(L) /\ <<l>> # <<>>
  BY <1>4, <1>5
<1>7. load = [on |-> o, name |-> n, saving |-> sv, text |-> w, last |-> q]
  BY <1>3
<1>8. load' = [on |-> o, name |-> n, saving |-> sv, text |-> t, last |-> <<l>>]
  BY <1>4, <1>7 DEF Loaded
<1>9. load' \in [on : BOOLEAN, name : SymName \union {""}, saving : BOOLEAN, text : Seq(L), last : Seq(L)]
  <2>1. o \in BOOLEAN /\ n \in SymName \union {""} /\ sv \in BOOLEAN
    BY <1>3
  <2>2. t \in Seq(L) /\ <<l>> \in Seq(L)
    BY <1>6
  <2>3. PICK k : k = <<l>>
    OBVIOUS
  <2>4. [on |-> o, name |-> n, saving |-> sv, text |-> t, last |-> k]
          \in [on : BOOLEAN, name : SymName \union {""}, saving : BOOLEAN, text : Seq(L), last : Seq(L)]
    BY <2>1, <2>2, <2>3, Zenon
  <2> QED BY <1>8, <2>3, <2>4, Zenon
<1>10. load'.last # <<>> /\ load'.name \in DOMAIN syms'
  <2>1. load'.last = <<l>> /\ load'.name = n
    BY <1>8
  <2>2. n \in DOMAIN syms'
    BY <1>1, <1>2, Zenon
  <2> QED BY <1>6, <2>1, <2>2, Zenon
<1> QED BY <1>9, <1>10, Zenon DEF LoadT

(* No macro is being read. *)
LEMMA NoLoadTyped ==
  ASSUME NEW L, load' = NoLoad
  PROVE  LoadT(L)'
<1>1. <<>> \in Seq(L)
  OBVIOUS
<1>2. load' \in [on : BOOLEAN, name : SymName \union {""}, saving : BOOLEAN, text : Seq(L), last : Seq(L)]
  BY <1>1, Zenon DEF NoLoad
<1>3. ~load'.on
  BY Zenon DEF NoLoad
<1> QED BY <1>2, <1>3, Zenon DEF LoadT

(* A line keeps the invariant when what it does to the source does. *)
LEMMA LineKeeps ==
  ASSUME NEW L, Inv(L), phase = "as", LineStep(L), UNCHANGED <<job, pass, header, curseg, relocsize>>,
         SourceT(L)', LoadT(L)', BlocksT', CondInv', Len(conds'.stack) <= MaxIf
  PROVE  Inv(L)'
<1>1. phase' \in {"as", "crash"} /\ LineT(L)' /\ (errs => errs') /\ Settled(syms, errs', syms')
  BY DEF LineStep
<1>2. HeaderKept'
  <2> SUFFICES ASSUME pass = 1, NEW n \in DOMAIN header.syms
               PROVE  /\ n \in DOMAIN syms'
                      /\ header.syms[n].exported =>
                           /\ "EXP" \in syms'[n].type
                           /\ \/ errs' \/ "VAR" \in syms'[n].type
                              \/ header.syms[n].val = syms'[n].val % 65536
                              \/ n \in EndLabels
    BY DEF HeaderKept, EndLabels
  <2>1. /\ n \in DOMAIN syms
        /\ header.syms[n].exported =>
             "EXP" \in syms[n].type
             /\ (errs \/ "VAR" \in syms[n].type \/ header.syms[n].val = syms[n].val % 65536
                   \/ n \in EndLabels)
    BY DEF Inv, HeaderKept
  <2>2. /\ n \in DOMAIN syms'
        /\ "EXP" \in syms[n].type => "EXP" \in syms'[n].type
        /\ "VAR" \in syms[n].type => "VAR" \in syms'[n].type
        /\ "EXP" \in syms[n].type /\ ~errs' /\ "VAR" \notin syms'[n].type => syms'[n].val = syms[n].val
    BY <1>1, <2>1 DEF Settled
  <2> QED BY <1>1, <2>1, <2>2
<1>3. ~Accepted'
  BY <1>1 DEF Accepted
<1> QED BY <1>1, <1>2, <1>3 DEF Inv, Ended

(* A macro that is being read stays in the symbol table. *)
LEMMA LoadKept ==
  ASSUME NEW L, Inv(L), LineStep(L), load' = load
  PROVE  LoadT(L)'
<1>1. DOMAIN syms \subseteq DOMAIN syms'
  BY DEF LineStep, Settled
<1> QED BY <1>1, Zenon DEF Inv, LoadT

(* Reading a line keeps the places in the source. *)
LEMMA ConsumedKept ==
  ASSUME NEW L, L = Lines(job), Inv(L), Reading, Consumed, job' = job
  PROVE  SourceT(L)'
<1>1. MacsOK(L, MacsAfter) /\ FilesOK(FilesAfter)
  BY LineFacts
<1> QED BY <1>1 DEF Consumed, SourceT, FilesOK, MacsOK, OpenFile, Text

(* BLOCK and ENDB keep the stack of blocks. *)
LEMMA BlocksKept ==
  ASSUME NEW L, L = Lines(job), Inv(L), Block \/ EndB
  PROVE  BlocksT'
<1>1. blocks \in Seq(BlockT) /\ Len(blocks) <= MaxBlock /\ MaxBlock \in Nat /\ Len(blocks) \in Nat
  BY LimitsAssumption DEF Inv, BlocksT
<1>2. CASE blocks' = blocks
  BY <1>1, <1>2 DEF BlocksT
<1>3. CASE ~(Len(blocks) >= MaxBlock)
           /\ blocks' = <<[lc |-> loc.lc, data |-> loc.data, seg |-> loc.seg]>> \o blocks
  <2>1. PICK b : b = [lc |-> loc.lc, data |-> loc.data, seg |-> loc.seg]
    OBVIOUS
  <2>2. b \in BlockT
    BY <2>1 DEF Inv, LineT, LocT, BlockT
  <2>3. <<b>> \o blocks \in Seq(BlockT) /\ Len(<<b>> \o blocks) = Len(blocks) + 1
    BY <1>1, <2>2
  <2> QED BY <1>1, <1>3, <2>1, <2>3 DEF BlocksT
<1>4. CASE blocks # <<>> /\ blocks' = Tail(blocks)
  <2>1. Tail(blocks) \in Seq(BlockT) /\ Len(Tail(blocks)) = Len(blocks) - 1
    BY <1>1, <1>4
  <2> QED BY <1>1, <1>4, <2>1 DEF BlocksT
<1> QED BY <1>2, <1>3, <1>4 DEF Block, EndB

(* What the lines do that are assembled. *)
LEMMA LineActions ==
  ASSUME NEW L, L = Lines(job), Inv(L), CondInv', Len(conds'.stack) <= MaxIf, UNCHANGED ldVars,
         \/ SimpleAction \/ Block \/ EndB \/ If \/ ElseIf \/ Else \/ EndIf \/ Macro \/ Call \/ Get
  PROVE  Inv(L)' /\ job' = job
<1>1. UNCHANGED <<curseg, relocsize>>
  BY DEF ldVars
<1>2. CASE SimpleAction
  <2>1. LineStep(L) /\ Reading
    BY <1>2, SimpleSteps
  <2>2. Consumed /\ UNCHANGED <<job, pass, header, load, conds, blocks>>
    BY <1>2 DEF SimpleAction, Plain, Fcb, Fdb, Fcc, Rmbs, Blkw, Align, Even, Org, Loc, TextSect,
      DataSect, Equ, Set, Comm, Comm1, Import, Export, Fail, Memory, Immediate, Inherent, Branch,
      StrayMend, Simple, Do
  <2>3. SourceT(L)' /\ LoadT(L)'
    BY <2>1, <2>2, ConsumedKept, LoadKept
  <2>4. BlocksT'
    BY <2>2 DEF BlocksT, Inv
  <2> QED BY <1>1, <2>1, <2>2, <2>3, <2>4, LineKeeps DEF Reading
<1>3. CASE Block \/ EndB
  <2>1. LineStep(L) /\ BlocksT'
    BY <1>3, BlockSteps, BlocksKept
  <2>2. Reading /\ Consumed /\ UNCHANGED <<job, pass, header, load, conds>>
    BY <1>3 DEF Block, EndB, Do, OnLine
  <2>3. SourceT(L)' /\ LoadT(L)'
    BY <2>1, <2>2, ConsumedKept, LoadKept
  <2> QED BY <1>1, <2>1, <2>2, <2>3, LineKeeps DEF Reading
<1>4. CASE If \/ ElseIf \/ Else \/ EndIf
  <2>1. LineStep(L)
    BY <1>4, CondLineSteps
  <2>2. Reading
    BY <1>4 DEF If, ElseIf, Else, EndIf, CondLine
  <2>3. UNCHANGED <<job, pass, header, load, blocks>> /\ (Consumed \/ UNCHANGED <<files, macs>>)
    BY <1>4 DEF If, ElseIf, Else, EndIf, Switch, srcVars
  <2>4. SourceT(L)'
    <3>1. CASE Consumed
      BY <2>2, <2>3, <3>1, ConsumedKept
    <3>2. CASE UNCHANGED <<files, macs>>
      BY <2>3, <3>2 DEF Inv, SourceT, FilesOK, MacsOK, OpenFile, Text
    <3> QED BY <2>3, <3>1, <3>2
  <2>5. LoadT(L)' /\ BlocksT'
    BY <2>1, <2>3, LoadKept DEF BlocksT, Inv
  <2> QED BY <1>1, <2>1, <2>2, <2>3, <2>4, <2>5, LineKeeps DEF Reading
<1>5. CASE Macro
  <2>1. LineStep(L) /\ LoadT(L)'
    BY <1>5, MacroStep
  <2>2. Reading /\ Consumed /\ UNCHANGED <<job, pass, header, conds, blocks>>
    BY <1>5 DEF Macro, OnLine
  <2>3. SourceT(L)' /\ BlocksT'
    BY <2>2, ConsumedKept DEF BlocksT, Inv
  <2> QED BY <1>1, <2>1, <2>2, <2>3, LineKeeps DEF Reading
<1>6. CASE Call \/ Get
  <2>1. LineStep(L) /\ SourceT(L)'
    BY <1>6, CallStep, GetStep
  <2>2. Reading /\ UNCHANGED <<job, pass, header, load, conds, blocks>>
    BY <1>6 DEF Call, Get, OnLine
  <2>3. LoadT(L)' /\ BlocksT'
    BY <2>1, <2>2, LoadKept DEF BlocksT, Inv
  <2> QED BY <1>1, <2>1, <2>2, <2>3, LineKeeps DEF Reading
<1> QED BY <1>2, <1>3, <1>4, <1>5, <1>6

(* Lines that are skipped or belong to a macro's text, and MEND. *)
LEMMA OtherLines ==
  ASSUME NEW L, L = Lines(job), Inv(L), CondInv', Len(conds'.stack) <= MaxIf, UNCHANGED ldVars,
         SkipLine \/ LoadLine \/ Mend
  PROVE  Inv(L)' /\ job' = job
<1>1. /\ Reading /\ Consumed /\ UNCHANGED <<phase, job, pass, header, blocks, loc, errs, dirty, enc, emitted>>
      /\ UNCHANGED <<curseg, relocsize>> /\ phase = "as"
  BY DEF SkipLine, LoadLine, Mend, lineVars, ldVars, Reading
<1>2. SourceT(L)' /\ BlocksT'
  BY <1>1, ConsumedKept DEF BlocksT, Inv
<1>3. Line \in L
  BY <1>1, LineFacts
<1>4. ASSUME syms' \in Tables(L), Settled(syms, errs, syms') PROVE LineStep(L)
  BY <1>1, <1>4 DEF LineStep, LineT, Inv
<1>5. Settled(syms, errs, syms) /\ syms \in Tables(L)
  BY DEF Settled, Inv, LineT
<1>6. CASE SkipLine
  <2>1. UNCHANGED <<syms, load>>
    BY <1>6 DEF SkipLine, lineVars
  <2>2. LineStep(L)
    BY <1>4, <1>5, <2>1
  <2> QED BY <1>1, <1>2, <2>1, <2>2, LoadKept, LineKeeps
<1>7. CASE LoadLine
  <2>1. syms' = syms /\ load' = Loaded(Line) /\ load.on
    BY <1>7 DEF LoadLine, lineVars
  <2>2. LineStep(L)
    BY <1>4, <1>5, <2>1
  <2>3. LoadT(L)'
    BY <1>3, <2>1, LoadedTyped
  <2> QED BY <1>1, <1>2, <2>2, <2>3, LineKeeps
<1>8. CASE Mend
  <2>1. load' = NoLoad
    BY <1>8 DEF Mend
  <2>2. LoadT(L)'
    BY <2>1, NoLoadTyped
  <2>3. CASE syms' = syms
    <3>1. LineStep(L)
      BY <1>4, <1>5, <2>3
    <3> QED BY <1>1, <1>2, <2>2, <3>1, LineKeeps
  <2>4. CASE syms' # syms
    <3>1. PICK n, w : n = load.name /\ w = load.text
      OBVIOUS
    <3>2. load.on /\ syms' = [syms EXCEPT ![n].text = w, ![n].data = {}]
      BY <1>8, <2>4, <3>1 DEF Mend
    <3>3. n \in DOMAIN syms /\ w \in Seq(L)
      BY <3>1, <3>2, Zenon DEF Inv, LoadT
    <3>4. PICK s : s = syms[n]
      OBVIOUS
    <3>5. s \in SymT(L) /\ n \in SymName
      BY <1>5, <3>3, <3>4, TableGet
    <3>6. PICK y : y = [s EXCEPT !.text = w, !.data = {}]
      OBVIOUS
    <3>7. y \in SymT(L) /\ y.type = s.type /\ y.val = s.val
      BY <3>3, <3>5, <3>6, SomeFlags DEF SymT
    <3>8. syms' = [syms EXCEPT ![n] = y]
      BY <3>2, <3>4, <3>6
    <3>9. /\ syms' \in Tables(L) /\ DOMAIN syms' = DOMAIN syms
          /\ \A m \in DOMAIN syms : syms'[m] = IF m = n THEN y ELSE syms[m]
      BY <1>5, <3>5, <3>7, <3>8, TablePut
    <3>10. Settled(syms, errs, syms')
      BY <3>4, <3>7, <3>9 DEF Settled
    <3>11. LineStep(L)
      BY <1>4, <3>9, <3>10
    <3> QED BY <1>1, <1>2, <2>2, <3>11, LineKeeps
  <2> QED BY <2>3, <2>4
<1> QED BY <1>6, <1>7, <1>8

(* What an END line, or the end of a file, begins with: no other value than *)
(* that of an END label is changed.                                        *)
LEMMA EndingFine ==
  ASSUME NEW L, L = Lines(job), Inv(L), AtEnd
  PROVE  /\ Fine(L, syms, Ending) /\ Ending.label \in {""} \union EndLabels
         /\ MacsOK(L, MacsAfter)
<1>1. CASE AtEof
  <2>1. Ending = Fresh /\ MacsAfter = <<>>
    BY <1>1 DEF Ending, AtEof, MacsAfter
  <2>2. Fine(L, syms, Fresh) /\ Fresh.label = ""
    BY FreshFine DEF Inv
  <2>3. MacsOK(L, MacsAfter)
    BY <2>1, LimitsAssumption DEF MacsOK
  <2> QED BY <2>1, <2>2, <2>3, Zenon
<1>2. CASE ~AtEof
  <2>1. Reading /\ Line.op = "end" /\ Ending = Labelled(Line, Fresh)
    BY <1>2 DEF AtEnd, OnLine, Ending
  <2>2. /\ Line \in Lines(job) /\ MacsOK(L, MacsAfter) /\ Fine(L, syms, Labelled(Line, Fresh))
        /\ Labelled(Line, Fresh).label \in {"", Line.label}
    BY <2>1, LineFacts
  <2>3. Line.label \in EndLabels
    BY <2>1, <2>2 DEF EndLabels
  <2> QED BY <2>1, <2>2, <2>3
<1> QED BY <1>1, <1>2

(* The end of a GET file, of a pass and of the source. *)
LEMMA EndOfGetKeeps ==
  ASSUME NEW L, L = Lines(job), Inv(L), CondInv', Len(conds'.stack) <= MaxIf, UNCHANGED ldVars, EndOfGet
  PROVE  Inv(L)' /\ job' = job
<1>1. /\ AtEnd /\ Len(files) > 1 /\ files' = Tail(files) /\ macs' = MacsAfter
      /\ Commit(ErrIf(load.on, Ending))
      /\ load' = (IF load.on THEN Loaded(load.last[1]) ELSE load)
      /\ UNCHANGED <<job, pass, conds, blocks, header>>
      /\ phase = "as" /\ UNCHANGED <<curseg, relocsize>>
  BY DEF EndOfGet, Unstacked, AtEnd, ldVars
<1>2. MacsOK(L, macs)'
  <2>1. MacsOK(L, MacsAfter)
    BY <1>1, EndingFine
  <2> QED BY <1>1, <2>1 DEF MacsOK
<1>3. FilesOK(files)'
  <2>1. /\ files \in Seq(OpenFile) /\ Len(files) \in Nat /\ Len(files) - 1 <= MaxGet /\ MaxGet \in Nat
        /\ \A i \in 1..Len(files) : files[i].next \in 1..(Len(Text(files[i].file)) + 1)
    BY LimitsAssumption DEF Inv, SourceT, FilesOK
  <2>2. /\ files' \in Seq(OpenFile) /\ Len(files') = Len(files) - 1 /\ files' # <<>>
        /\ \A i \in 1..Len(files') : i + 1 \in 1..Len(files) /\ files'[i] = files[i + 1]
    <3>1. PICK fs \in Seq(OpenFile) : fs = files
      BY <2>1
    <3>2. Len(fs) > 1 /\ fs # <<>> /\ files' = Tail(fs)
      BY <1>1, <2>1, <3>1
    <3>3. /\ Tail(fs) \in Seq(OpenFile) /\ Len(Tail(fs)) = Len(fs) - 1
          /\ \A i \in 1..(Len(fs) - 1) : Tail(fs)[i] = fs[i + 1]
      BY <3>2
    <3>4. Tail(fs) # <<>>
      <4>1. PICK k \in Nat : k = Len(fs)
        BY <3>1, <2>1
      <4>2. Len(Tail(fs)) = k - 1 /\ k > 1
        BY <3>2, <3>3, <4>1
      <4>3. Len(Tail(fs)) # 0
        BY ONLY <4>1, <4>2
      <4>4. Len(<<>>) = 0
        OBVIOUS
      <4> QED BY ONLY <4>3, <4>4
    <3>5. \A i \in 1..(Len(fs) - 1) : i + 1 \in 1..Len(fs)
      BY <2>1, <3>1
    <3> QED BY <3>1, <3>2, <3>3, <3>4, <3>5
  <2> QED BY <1>1, <2>1, <2>2 DEF FilesOK, OpenFile, Text
<1>4. load.on => load.last[1] \in L
  <2>1. load.on \in BOOLEAN /\ load.last \in Seq(L) /\ (load.on => load.last # <<>>)
    BY Zenon DEF Inv, LoadT
  <2>2. load.on => load.last[1] \in L
    BY <2>1
  <2> QED BY <2>2
<1>5. LineStep(L)
  <2>1. PICK r : r = ErrIf(load.on, Ending)
    OBVIOUS
  <2>2. Fine(L, syms, r) /\ Commit(r)
    BY <1>1, <2>1, EndingFine, ErrFine
  <2>3. LineT(L) /\ pass \in {0, 1} /\ header.arrext \in Seq(SymName)
    BY DEF Inv
  <2> QED BY <2>2, <2>3, CommitFine
<1>6. LoadT(L)'
  <2>1. CASE load.on
    <3>1. load' = Loaded(load.last[1])
      BY <1>1, <2>1
    <3>2. DOMAIN syms \subseteq DOMAIN syms'
      BY <1>5 DEF LineStep, Settled
    <3> QED BY <1>4, <2>1, <3>1, <3>2, LoadedTyped
  <2>2. CASE ~load.on
    <3>1. load' = load
      BY <1>1, <2>2
    <3> QED BY <1>5, <3>1, LoadKept
  <2> QED BY <2>1, <2>2
<1> QED BY <1>1, <1>2, <1>3, <1>5, <1>6, LineKeeps DEF SourceT, BlocksT, Inv

(* The location counters at the start of a pass. *)
LEMMA StartsTyped ==
  ASSUME job \in Jobs
  PROVE  line_zero \in LocT /\ FilesOK(AtMain) /\ initobj \in EncT
<1>1. TextLoc \in Segs /\ 1 \in DOMAIN job.files
  BY JobLines
<1>2. FreshLoc \in LocT
  <2>1. 0 \in Segs /\ {"REL"} \in Flags
    BY SegsHave, SomeFlags
  <2>2. [s \in 0..(NLoc - 1) |-> [data |-> {"REL"}, lc |-> 0]] \in [Segs -> CounterT]
    BY <2>1 DEF Segs, CounterT
  <2> QED BY <2>1, <2>2 DEF FreshLoc, LocT
<1>3. line_zero \in LocT
  BY <1>1, <1>2 DEF line_zero, LocT
<1>4. initobj \in EncT
  BY DEF initobj, EncT
<1>5. FilesOK(AtMain)
  <2>1. PICK o : o = [file |-> 1, next |-> 1]
    OBVIOUS
  <2>2. o \in OpenFile /\ o.next = 1 /\ o.file = 1
    BY <1>1, <2>1 DEF OpenFile
  <2>3. 1 \in 1..(Len(Text(1)) + 1)
    <3>1. Len(Text(1)) \in Nat
      BY <1>1, TextLines
    <3> QED BY <3>1
  <2>4. AtMain = <<o>>
    BY <2>1 DEF AtMain
  <2> QED BY <2>2, <2>3, <2>4, LimitsAssumption DEF FilesOK
<1> QED BY <1>3, <1>4, <1>5

(* What the header says of a symbol. *)
LEMMA EntryIs ==
  ASSUME NEW s
  PROVE  (SymEntry(s).exported => "EXP" \in s.type) /\ SymEntry(s).val = s.val % 65536
<1>1. SymEntry(s).exported = ("EXP" \in s.type)
  BY DEF SymEntry
<1>2. SymEntry(s).val = s.val % 65536
  BY DEF SymEntry
<1>3. CASE "EXP" \in s.type
  BY <1>2, <1>3
<1>4. CASE "EXP" \notin s.type
  <2>1. ("EXP" \in s.type) = FALSE
    BY <1>4
  <2>2. SymEntry(s).exported = FALSE
    BY <1>1, <2>1
  <2> QED BY <1>2, <2>2
<1> QED BY <1>3, <1>4

(* Between the passes: the header is what the table says. *)
LEMMA EndOfPassKeeps ==
  ASSUME NEW L, L = Lines(job), Inv(L), CondInv', Len(conds'.stack) <= MaxIf, UNCHANGED ldVars, EndOfPass
  PROVE  Inv(L)' /\ job' = job
<1>1. /\ phase = "as" /\ AtEnd /\ pass # 1 /\ pass' = pass + 1
      /\ files' = AtMain /\ macs' = <<>> /\ blocks' = <<>> /\ loc' = line_zero
      /\ enc' = putobj1(initobj, <<SegCode>> \o IF TextLoc = 0 THEN <<>> ELSE <<SegCode + TextLoc>>)
      /\ UNCHANGED <<phase, job, load, emitted>> /\ UNCHANGED <<curseg, relocsize>>
  BY DEF EndOfPass, AtEnd, ldVars
<1>a. PICK r : r = Ending
  OBVIOUS
<1>b. PICK q : q = [r EXCEPT !.errs = FALSE, !.dirty = FALSE]
  OBVIOUS
<1>c. PICK c : c = Confirmed(pass + 1, q)
  OBVIOUS
<1>d. /\ header' = objheader(FinalTab, r.syms)
      /\ syms' = c.syms /\ errs' = c.errs /\ dirty' = c.dirty
  BY <1>a, <1>b, <1>c DEF EndOfPass
<1>e. Fine(L, syms, r)
  BY <1>1, <1>a, EndingFine
<1>f. /\ r.syms \in Tables(L) /\ DOMAIN syms \subseteq DOMAIN r.syms
  BY <1>e DEF Fine, Typed, WorkT, Keeps
<1>g. Typed(L, q) /\ q.syms = r.syms
  <2>1. r \in WorkT(L) /\ q \in WorkT(L) /\ q.syms = r.syms /\ q.label = r.label
    BY <1>b, <1>e DEF Fine, Typed, WorkT
  <2> QED BY <1>e, <2>1 DEF Fine, Typed
<1>h. /\ c \in WorkT(L) /\ DOMAIN c.syms = DOMAIN r.syms
      /\ \A n \in DOMAIN r.syms :
           c.syms[n].val = r.syms[n].val /\ ("EXP" \in r.syms[n].type => "EXP" \in c.syms[n].type)
  BY <1>c, <1>g, ConfirmedTyped
<1>2. line_zero \in LocT /\ FilesOK(AtMain) /\ initobj \in EncT /\ TextLoc \in Segs
  BY StartsTyped, JobLines DEF Inv
<1>3. enc' \in EncT
  <2>1. SegCode + TextLoc \in Octet /\ SegCode \in Octet
    BY <1>2, SmallSums DEF SegCode, Octet
  <2>2. PICK b : b = <<SegCode>> \o IF TextLoc = 0 THEN <<>> ELSE <<SegCode + TextLoc>>
    OBVIOUS
  <2>3. b \in Seq(Octet)
    <3>1. CASE TextLoc = 0
      BY <2>1, <2>2, <3>1
    <3>2. CASE TextLoc # 0
      BY <2>1, <2>2, <3>2
    <3> QED BY <3>1, <3>2
  <2> QED BY <1>1, <1>2, <2>2, <2>3, PutOut
<1>4. pass' = 1
  BY <1>1 DEF Inv
<1>5. LineT(L)'
  BY <1>1, <1>2, <1>3, <1>d, <1>h DEF Inv, LineT, WorkT
<1>6. header'.arrext \in Seq(SymName)
  BY <1>d, <1>f, ArrextTyped
<1>7. HeaderKept'
  <2>1. header'.syms = [n \in {m \in DOMAIN r.syms : InObject(r.syms[m])} |-> SymEntry(r.syms[n])]
    BY <1>d DEF objheader
  <2> SUFFICES ASSUME NEW n \in DOMAIN header'.syms
               PROVE  /\ n \in DOMAIN syms'
                      /\ header'.syms[n].exported =>
                           /\ "EXP" \in syms'[n].type
                           /\ errs' \/ "VAR" \in syms'[n].type \/ header'.syms[n].val = syms'[n].val % 65536
    BY DEF HeaderKept
  <2>3. n \in DOMAIN r.syms /\ header'.syms[n] = SymEntry(r.syms[n])
    BY <2>1
  <2>4. PICK e, s : e = header'.syms[n] /\ s = r.syms[n]
    OBVIOUS
  <2>5. e = SymEntry(s)
    BY <2>3, <2>4
  <2>6. (e.exported => "EXP" \in s.type) /\ e.val = s.val % 65536
    BY <2>5, EntryIs
  <2> QED BY <1>d, <1>h, <2>3, <2>4, <2>6
<1>8. SourceT(L)'
  <2>1. FilesOK(files)'
    BY <1>1, <1>2 DEF FilesOK, OpenFile, Text
  <2>2. MacsOK(L, macs)'
    BY <1>1, LimitsAssumption DEF MacsOK
  <2> QED BY <2>1, <2>2 DEF SourceT
<1>9. LoadT(L)'
  <2>1. DOMAIN syms \subseteq DOMAIN syms'
    BY <1>d, <1>f, <1>h
  <2> QED BY <1>1, <2>1, Zenon DEF Inv, LoadT
<1>10. BlocksT'
  BY <1>1, LimitsAssumption DEF BlocksT
<1>11. ~Accepted'
  BY <1>1 DEF Accepted
<1> QED BY <1>1, <1>4, <1>5, <1>6, <1>7, <1>8, <1>9, <1>10, <1>11 DEF Inv

(* finishup: an accepted object file had no error in the last pass. *)
LEMMA FinishKeeps ==
  ASSUME NEW L, L = Lines(job), Inv(L), CondInv', Len(conds'.stack) <= MaxIf, UNCHANGED ldVars, finishup
  PROVE  Inv(L)' /\ job' = job
<1>a. PICK r : r = Ending
  OBVIOUS
<1>1. /\ pass = 1 /\ AtEnd /\ errs' = (r.errs \/ Unclosed) /\ syms' = r.syms
      /\ phase' = (IF r.errs \/ Unclosed THEN "failed" ELSE "done")
      /\ loc' = [loc EXCEPT !.tab = FinalTab] /\ enc' = putobj(enc, <<0>>)
      /\ UNCHANGED <<job, pass, files, macs, load, conds, blocks, dirty, header, emitted>>
      /\ UNCHANGED <<curseg, relocsize>>
  BY <1>a DEF finishup, srcVars, ldVars
<1>b. Fine(L, syms, r) /\ r.label \in {""} \union EndLabels
  BY <1>1, <1>a, EndingFine
<1>c. r.syms \in Tables(L) /\ r.errs \in BOOLEAN /\ (errs => r.errs)
  BY <1>b DEF Fine, Typed, WorkT, Keeps
<1>d. \A n \in DOMAIN syms :
        /\ n \in DOMAIN r.syms
        /\ "EXP" \in syms[n].type => "EXP" \in r.syms[n].type
        /\ "VAR" \in syms[n].type => "VAR" \in r.syms[n].type
        /\ \/ "EXP" \notin syms[n].type \/ r.errs \/ "VAR" \in r.syms[n].type \/ n \in EndLabels
           \/ r.syms[n].val = syms[n].val
  <2>1. \A n \in DOMAIN syms : n # ""
    <3>1. DOMAIN syms \subseteq SymName
      BY TableGet DEF Inv, LineT
    <3> QED BY <3>1 DEF SymName, Name
  <2> QED BY <1>1, <1>b, <2>1 DEF Fine, Keeps
<1>2. Unclosed \in BOOLEAN
  <2>1. load.on \in BOOLEAN
    BY Zenon DEF Inv, LoadT
  <2> QED BY <2>1, Zenon DEF Unclosed
<1>3. errs' \in BOOLEAN
  BY <1>1, <1>2, <1>c
<1>4. loc' \in LocT
  <2>1. PICK d, c : d = loc.data /\ c = loc.lc
    OBVIOUS
  <2>2. loc \in LocT /\ loc.tab \in [Segs -> CounterT] /\ d \in Flags /\ c \in Int
    BY <2>1 DEF Inv, LineT, LocT
  <2>3. [data |-> d, lc |-> c] \in CounterT
    BY <2>2 DEF CounterT
  <2>4. PICK t : t = FinalTab
    OBVIOUS
  <2>5. t \in [Segs -> CounterT]
    BY <2>1, <2>2, <2>3, <2>4 DEF FinalTab
  <2> QED BY <1>1, <2>2, <2>4, <2>5 DEF LocT
<1>5. enc' \in EncT
  <2>1. <<0>> \in Seq(Octet) /\ enc \in EncT
    BY DEF Inv, LineT, Octet
  <2> QED BY <1>1, <2>1, PutObjTyped
<1>6. LineT(L)'
  BY <1>1, <1>3, <1>4, <1>5, <1>c DEF Inv, LineT
<1>7. LoadT(L)'
  <2>1. DOMAIN syms \subseteq DOMAIN syms'
    BY <1>1, <1>d
  <2> QED BY <1>1, <2>1, Zenon DEF Inv, LoadT
<1>8. SourceT(L)' /\ BlocksT'
  BY <1>1 DEF Inv, SourceT, FilesOK, MacsOK, OpenFile, Text, BlocksT
<1>9. HeaderKept'
  <2> SUFFICES ASSUME NEW n \in DOMAIN header.syms
               PROVE  /\ n \in DOMAIN syms'
                      /\ header.syms[n].exported =>
                           /\ "EXP" \in syms'[n].type
                           /\ \/ errs' \/ "VAR" \in syms'[n].type
                              \/ header.syms[n].val = syms'[n].val % 65536
                              \/ n \in EndLabels
    BY <1>1 DEF HeaderKept, EndLabels
  <2>1. /\ n \in DOMAIN syms
        /\ header.syms[n].exported =>
             "EXP" \in syms[n].type
             /\ (errs \/ "VAR" \in syms[n].type \/ header.syms[n].val = syms[n].val % 65536
                   \/ n \in EndLabels)
    BY <1>1 DEF Inv, HeaderKept
  <2>2. r.errs => errs'
    BY <1>1, <1>2, <1>c
  <2> QED BY <1>1, <1>c, <1>d, <2>1, <2>2
<1>10. Accepted' => ~errs'
  BY <1>1, <1>2, <1>c DEF Accepted
<1>11. phase' \in {"done", "failed"}
  BY <1>1
<1> QED BY <1>1, <1>6, <1>7, <1>8, <1>9, <1>10, <1>11 DEF Inv, Ended

(* The linker reads the object file and changes nothing of the assembler's. *)
LEMMA LinkKeeps ==
  ASSUME NEW L, L = Lines(job), Inv(L), LinkMod
  PROVE  Inv(L)' /\ job' = job
<1>1. UNCHANGED <<job, pass, files, macs, load, conds, blocks, syms, loc, errs, dirty, enc, emitted, header>>
  BY DEF LinkMod, Open, SetSize, skip, SetSeg, Absolute, OffsetReloc, SymbolReloc, EndOfText, padmod,
    ObjectKept, srcVars, lineVars
<1>2. /\ phase' \in {"as", "done", "link", "pad"} \union Ended
      /\ Accepted' => Accepted
  <2>1. phase \in {"done", "link", "pad"}
    BY DEF LinkMod, Open, SetSize, skip, SetSeg, Absolute, OffsetReloc, SymbolReloc, EndOfText, padmod,
      Command
  <2>2. phase' \in {"link", "pad", "crash", "refused", "linked"} \/ phase' = phase
    BY DEF LinkMod, Open, SetSize, skip, SetSeg, Absolute, OffsetReloc, SymbolReloc, EndOfText, padmod
  <2> QED BY <2>1, <2>2 DEF Accepted, Ended
<1>3. curseg' \in Segs
  <2>1. 0 \in Segs /\ curseg \in Segs /\ NLoc \in Nat
    BY SegsHave DEF Inv
  <2>2. CASE SetSeg
    <3>1. Byte(0) \in SegCode..(SegCode + NLoc - 1) /\ (curseg' = curseg \/ curseg' = Byte(0) - SegCode)
      BY <2>2 DEF SetSeg, Command, setseg
    <3>2. PICK b : b = Byte(0)
      OBVIOUS
    <3>3. b \in Int /\ b - SegCode \in 0..(NLoc - 1)
      BY <2>1, <3>1, <3>2 DEF SegCode
    <3> QED BY <2>1, <3>1, <3>2, <3>3 DEF Segs
  <2>3. CASE ~SetSeg
    <3>1. curseg' = 0 \/ curseg' = curseg
      BY <2>3 DEF LinkMod, Open, SetSize, skip, Absolute, OffsetReloc, SymbolReloc, EndOfText, padmod
    <3> QED BY <2>1, <3>1
  <2> QED BY <2>2, <2>3
<1>4. relocsize' \in {1, 2}
  <2>1. relocsize \in {1, 2}
    BY DEF Inv
  <2>2. CASE SetSize
    <3>1. Byte(0) \in 1..2 /\ relocsize' = Byte(0)
      BY <2>2 DEF SetSize, Command
    <3> QED BY <3>1
  <2>3. CASE ~SetSize
    <3>1. relocsize' = 2 \/ relocsize' = relocsize
      BY <2>3 DEF LinkMod, Open, skip, SetSeg, Absolute, OffsetReloc, SymbolReloc, EndOfText, padmod
    <3> QED BY <2>1, <3>1
  <2> QED BY <2>2, <2>3
<1>5. LineT(L)' /\ HeaderKept' /\ SourceT(L)' /\ BlocksT' /\ CondInv'
  BY <1>1 DEF Inv, LineT, HeaderKept, EndLabels, SourceT, FilesOK, MacsOK, OpenFile, Text, BlocksT, CondInv, NestedOff
<1>6. LoadT(L)'
  BY <1>1, Zenon DEF Inv, LoadT
<1> QED BY <1>1, <1>2, <1>3, <1>4, <1>5, <1>6 DEF Inv

(***************************************************************************)
(* The theorems.                                                           *)
(***************************************************************************)
AsInv == \E L : L = Lines(job) /\ Inv(L)

(* The invariant holds at the start. *)
LEMMA InvStarts ==
  ASSUME Init
  PROVE  AsInv
<1>1. PICK L : L = Lines(job)
  OBVIOUS
<1>2. /\ phase = "as" /\ job \in Jobs /\ pass = 0 /\ files = AtMain /\ macs = <<>> /\ blocks = <<>>
      /\ conds = [ifflag |-> TRUE, elseflag |-> FALSE, stack |-> <<>>]
      /\ syms = <<>> /\ loc = line_zero /\ errs = FALSE /\ dirty = FALSE
      /\ header.arrext = <<>> /\ enc = initobj /\ emitted = <<>> /\ curseg = 0 /\ relocsize = 2
  BY DEF Init, AsInit, LinkInit
<1>3. line_zero \in LocT /\ FilesOK(AtMain) /\ initobj \in EncT
  BY <1>2, StartsTyped
<1>4. SourceT(L) /\ BlocksT
  BY <1>2, <1>3, LimitsAssumption DEF SourceT, MacsOK, BlocksT
<1>5. CondInv /\ Len(conds.stack) <= MaxIf
  BY <1>2, LimitsAssumption DEF CondInv, NestedOff, StackNested
<1>6. LoadT(L)
  <2>1. <<>> \in Seq(L)
    OBVIOUS
  <2>2. load = NoLoad
    BY DEF Init, AsInit
  <2>3. load \in [on : BOOLEAN, name : SymName \union {""}, saving : BOOLEAN, text : Seq(L), last : Seq(L)]
    BY <2>1, <2>2, Zenon DEF NoLoad
  <2>4. ~load.on
    BY <2>2, Zenon DEF NoLoad
  <2> QED BY <2>3, <2>4, Zenon DEF LoadT
<1>7. syms \in Tables(L)
  <2>1. DOMAIN syms = {} /\ syms = [n \in DOMAIN syms |-> syms[n]]
    BY <1>2
  <2>2. IsFiniteSet({})
    BY FS_EmptySet
  <2>3. /\ DOMAIN syms \subseteq SymName /\ IsFiniteSet(DOMAIN syms)
        /\ \A n \in DOMAIN syms : syms[n] \in SymT(L)
    BY <2>1, <2>2
  <2> QED BY <2>1, <2>3, TableIs
<1>8. emitted \in Pieces
  <2>1. DOMAIN emitted = {} /\ emitted = [n \in DOMAIN emitted |-> emitted[n]]
    BY <1>2
  <2>2. emitted \in [{} -> PieceT]
    BY <2>1
  <2>3. {} \in SUBSET (Segs \X Int)
    OBVIOUS
  <2> QED BY <2>2, <2>3, Zenon DEF Pieces
<1>9. LineT(L)
  BY <1>2, <1>3, <1>7, <1>8 DEF LineT
<1>10. curseg \in Segs
  BY <1>2, SegsHave
<1>11. HeaderKept /\ ~Accepted
  BY <1>2 DEF HeaderKept, Accepted
<1>12. header.arrext \in Seq(SymName)
  BY <1>2
<1> QED BY <1>1, <1>2, <1>4, <1>5, <1>6, <1>9, <1>10, <1>11, <1>12 DEF AsInv, Inv

(* A step that changes nothing keeps the invariant. *)
LEMMA InvStutters ==
  ASSUME NEW L, Inv(L), UNCHANGED vars
  PROVE  Inv(L)' /\ job' = job
<1>1. /\ UNCHANGED <<phase, job, pass, files, macs, load, conds, blocks>>
      /\ UNCHANGED <<syms, loc, errs, dirty, enc, emitted, header, curseg, relocsize>>
  BY DEF vars, asVars, srcVars, lineVars, ldVars
<1>2. LineT(L)' /\ HeaderKept' /\ SourceT(L)' /\ BlocksT' /\ CondInv' /\ (Accepted' => Accepted)
  BY <1>1 DEF Inv, LineT, HeaderKept, EndLabels, SourceT, FilesOK, MacsOK, OpenFile, Text, BlocksT, CondInv, NestedOff,
    Accepted
<1>3. LoadT(L)'
  BY <1>1, Zenon DEF Inv, LoadT
<1> QED BY <1>1, <1>2, <1>3 DEF Inv

(* Every step of the assembler and of the linker keeps the invariant. *)
LEMMA InvSteps ==
  ASSUME AsInv, [Next]_vars
  PROVE  AsInv'
<1>1. PICK L : L = Lines(job) /\ Inv(L)
  BY DEF AsInv
<1>2. CondInv /\ Len(conds.stack) <= MaxIf
  BY <1>1 DEF Inv
<1>3. CondInv' /\ Len(conds'.stack) <= MaxIf
  BY <1>2, CondSteps, CondKept, StackLimit
<1>4. Inv(L)' /\ job' = job
  <2>1. CASE LinkMod
    BY <1>1, <2>1, LinkKeeps
  <2>2. CASE UNCHANGED vars
    BY <1>1, <2>2, InvStutters
  <2>3. CASE Assemble
    <3>1. AsNext /\ UNCHANGED ldVars
      BY <2>3 DEF Assemble
    <3>2. \/ SimpleAction \/ Block \/ EndB \/ If \/ ElseIf \/ Else \/ EndIf \/ Macro \/ Call \/ Get
          \/ SkipLine \/ LoadLine \/ Mend \/ EndOfGet \/ EndOfPass \/ finishup
      BY <3>1 DEF AsNext, SimpleAction
    <3>3. CASE \/ SimpleAction \/ Block \/ EndB \/ If \/ ElseIf \/ Else \/ EndIf \/ Macro \/ Call \/ Get
      BY <1>1, <1>3, <3>1, <3>3, LineActions
    <3>4. CASE SkipLine \/ LoadLine \/ Mend
      BY <1>1, <1>3, <3>1, <3>4, OtherLines
    <3>5. CASE EndOfGet
      BY <1>1, <1>3, <3>1, <3>5, EndOfGetKeeps
    <3>6. CASE EndOfPass
      BY <1>1, <1>3, <3>1, <3>6, EndOfPassKeeps
    <3>7. CASE finishup
      BY <1>1, <1>3, <3>1, <3>7, FinishKeeps
    <3> QED BY <3>2, <3>3, <3>4, <3>5, <3>6, <3>7
  <2> QED BY <2>1, <2>2, <2>3 DEF Next
<1> QED BY <1>1, <1>4 DEF AsInv

(* The invariant holds of every source: all variables of the assembler     *)
(* keep their types, no stack outgrows its array, and in the last pass the *)
(* values of exported symbols are those of the header or an error is       *)
(* counted.                                                                *)
THEOREM AsInvariant == Spec => []AsInv
<1>1. Init => AsInv
  BY InvStarts
<1>2. AsInv /\ [Next]_vars => AsInv'
  BY InvSteps
<1> QED BY <1>1, <1>2, PTL DEF Spec

(* TypeOK of AsLink: hid_getstak, hid_macstak, hid_ifstak and              *)
(* hid_blockstak are never overrun, whatever a source nests, counters are  *)
(* of the table, and the object file is bytes.                             *)
THEOREM AsTypes == Spec => []TypeOK
<1>1. ASSUME AsInv PROVE TypeOK
  <2>1. PICK L : L = Lines(job) /\ Inv(L)
    BY <1>1 DEF AsInv
  <2>2. phase \in {"as", "done", "link", "pad"} \union Ended /\ pass \in 0..last_pass
    BY <2>1 DEF Inv
  <2>3. /\ files \in Seq(OpenFile) /\ files # <<>> /\ Len(files) - 1 <= MaxGet
        /\ \A i \in 1..Len(files) : files[i].next \in 1..(Len(Text(files[i].file)) + 1)
    BY <2>1 DEF Inv, SourceT, FilesOK
  <2>4. MaxGet \in Nat
    BY LimitsAssumption
  <2>5. Len(files) - 1 \in 0..MaxGet /\ DOMAIN files = 1..Len(files)
    <3>1. Len(files) \in Nat /\ Len(files) # 0 /\ DOMAIN files = 1..Len(files)
      BY <2>3
    <3> QED BY <2>3, <2>4, <3>1
  <2>6. Len(macs) <= MaxMac /\ Len(conds.stack) <= MaxIf /\ Len(blocks) <= MaxBlock
    BY <2>1 DEF Inv, SourceT, MacsOK, BlocksT
  <2>7. loc.cur \in Segs /\ loc.seg \in Segs /\ curseg \in Segs /\ relocsize \in {1, 2}
    BY <2>1 DEF Inv, LineT, LocT
  <2>8. enc.out \in Seq(Octet)
    BY <2>1 DEF Inv, LineT, EncT
  <2>9. \A i \in DOMAIN enc.out : enc.out[i] \in 0..255
    <3>1. PICK o \in Seq(Octet) : o = enc.out
      BY <2>8
    <3>2. \A i \in DOMAIN o : o[i] \in Octet
      OBVIOUS
    <3> QED BY <3>1, <3>2 DEF Octet
  <2> QED BY <2>2, <2>3, <2>5, <2>6, <2>7, <2>9 DEF TypeOK
<1> QED BY <1>1, AsInvariant, PTL

(* HeaderIsFinal of AsLink: an accepted object file gives its exported     *)
(* symbols the values that they have at the end of the last pass, though   *)
(* the header was written before it: all but SET symbols and the labels of *)
(* END lines.                                                              *)
THEOREM HeaderHolds == Spec => []HeaderIsFinal
<1>1. ASSUME AsInv PROVE HeaderIsFinal
  <2>1. PICK L : L = Lines(job) /\ Inv(L)
    BY <1>1 DEF AsInv
  <2>2. Accepted => pass = 1 /\ ~errs
    BY <2>1 DEF Inv
  <2>3. HeaderKept
    BY <2>1 DEF Inv
  <2> QED BY <2>2, <2>3 DEF HeaderKept, Accepted, HeaderIsFinal
<1> QED BY <1>1, AsInvariant, PTL
=============================================================================
