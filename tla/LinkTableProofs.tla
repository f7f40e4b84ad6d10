--------------------------- MODULE LinkTableProofs --------------------------
(***************************************************************************)
(* Proofs about the contents of ld01's symbol table: which definition owns *)
(* a symbol, at every moment of reading and linking.                       *)
(*                                                                         *)
(* The properties of LinkSyms that relate the table to what was read       *)
(* (history variable seen) are inductive together with the three facts     *)
(* named below.  HighestLoadedWins, which speaks of the end, follows from  *)
(* where accepted definitions may be and from what the scan has passed;    *)
(* LinkMinimal from a bound on loaded that holds until a symbol moves.     *)
(***************************************************************************)
EXTENDS LinkSymsProofs

(* Every descriptor read is about a symbol and a module that exist. *)
SeenInTables ==
  \A e \in seen : e.sym \in DOMAIN syms /\ e.mod \in DOMAIN class

(* A symbol that is not defined has no accepted definition. *)
UndefinedHasNone ==
  \A i \in DOMAIN syms : syms[i].kind # "exp" => Definitions(i) = {}

(* An accepted definition is the owner, is spare on the redefinition list, *)
(* or was given up, while linking, for one of a higher class.              *)
DefinitionsPlaced ==
  \A i \in DOMAIN syms : \A e \in Definitions(i) :
    \/ e.mod = syms[i].mod
    \/ \E k \in DOMAIN red : red[k].sym = i /\ red[k].mod = e.mod
    \/ phase # "read" /\ ClassOf(e.mod) < ClassOf(syms[i].mod)

TableInv ==
  /\ SeenInTables /\ UndefinedHasNone /\ DefinitionsPlaced
  /\ UniqueExternals /\ OwnerIsADefinition
  /\ LowestClassFirst /\ LargestCommonWins

(* The class of a module that was read is a number. *)
LEMMA ClassType ==
  ASSUME TypeOK, NEW m \in DOMAIN class
  PROVE  ClassOf(m) \in Nat
<1>1. class \in Seq(Classes(script))
  BY DEF TypeOK, Shape
<1>2. class[m] \in Classes(script)
  BY <1>1
<1> QED BY <1>2, InputAssumption DEF ClassOf, TypeOK, Shape

(* What Note adds to seen. *)
Noted(i, d, fate) ==
  [sym |-> i, mod |-> modlast, kind |-> d.kind, value |-> d.value, fate |-> fate]

(* A descriptor n noted in seen is one more definition, or none. *)
LEMMA DefinitionsGrow ==
  ASSUME NEW n, seen' = seen \union {n}
  PROVE  \A j, e : e \in Definitions(j)' <=>
           \/ e \in Definitions(j)
           \/ e = n /\ n.sym = j /\ n.kind = "exp" /\ n.fate = "used"
BY DEF Definitions

(* What a step that reads a descriptor shares with the others: the module  *)
(* being read, the phase, and the typing of the descriptor.                *)
Reading(d) ==
  /\ phase = "read" /\ phase' = "read" /\ class' = class
  /\ modlast \in DOMAIN class /\ d \in SymDescs

(* What NextDesc and Refer, which every such step starts with, give. *)
LEMMA ReadingStep ==
  ASSUME TypeOK, NEW d \in Descs(script), NEW i, NextDesc(d), Refer(i), UNCHANGED phase
  PROVE  Reading(d)
<1>1. class \in Seq(Classes(script)) /\ class # <<>>
  BY DEF NextDesc, TypeOK, Shape
<1>2. modlast \in DOMAIN class
  BY <1>1 DEF modlast
<1> QED BY <1>2, InputAssumption DEF NextDesc, Refer, Reading, TypeOK, Shape

(* addsym: one new row, and one new descriptor that names it. *)
NewRow(n, d) ==
  /\ n \notin DOMAIN syms
  /\ DOMAIN syms' = DOMAIN syms \union {n}
  /\ \A j \in DOMAIN syms : syms'[j] = syms[j]
  /\ syms'[n].name = d.name /\ syms'[n].kind = d.kind
  /\ syms'[n].value = d.value /\ syms'[n].mod = modlast
  /\ red' = red
  /\ seen' = seen \union {Noted(n, d, "used")}

(* addsym is called for a name that is not in the table. *)
LEMMA AddSymEffect ==
  ASSUME TypeOK, NEW d \in Descs(script), AddSym(d)
  PROVE  Reading(d) /\ NewRow(Len(syms) + 1, d) /\ Fresh(d)
<1> DEFINE n == Len(syms) + 1
           e == Symbol(d, d.seg, modlast)
<1>1. NextDesc(d) /\ Refer(n) /\ UNCHANGED <<phase, red>> /\ Note(n, d, "used") /\ Fresh(d)
  BY DEF AddSym
<1>2. Reading(d)
  BY <1>1, ReadingStep
<1>3. syms \in Seq(SymRecs) /\ syms' = Append(syms, e)
  BY SymsType DEF AddSym
<1>4. e.name = d.name /\ e.kind = d.kind /\ e.value = d.value /\ e.mod = modlast
  BY DEF Symbol
<1> HIDE DEF e
<1>5. /\ n \notin DOMAIN syms /\ DOMAIN syms' = DOMAIN syms \union {n}
      /\ \A j \in DOMAIN syms : syms'[j] = syms[j]
      /\ syms'[n] = e
  BY <1>3
<1> QED BY <1>1, <1>2, <1>4, <1>5 DEF NewRow, Note, Noted

(* A descriptor of a name already in the table changes one row. *)
OldRow(i, d) ==
  /\ i \in DOMAIN syms /\ External(i, d.name) /\ d.kind # "local"
  /\ DOMAIN syms' = DOMAIN syms
  /\ \A j \in DOMAIN syms : j # i => syms'[j] = syms[j]
  /\ syms'[i].name = d.name

(* It may leave the definition in use alone ... *)
RowKept(i, d) ==
  /\ syms'[i].kind = syms[i].kind /\ syms'[i].value = syms[i].value
  /\ syms'[i].mod = syms[i].mod
  /\ red' = red
  /\ \/ seen' = seen \union {Noted(i, d, "warned")}
     \/ /\ seen' = seen \union {Noted(i, d, "used")} /\ d.kind = "imp"
        /\ syms[i].kind = "exp" \/ d.value <= syms[i].value

(* ... be the first definition, or a larger common request ... *)
RowInstalled(i, d) ==
  /\ syms[i].kind = "imp" /\ (d.kind = "imp" => d.value > syms[i].value)
  /\ syms'[i].kind = d.kind /\ syms'[i].value = d.value /\ syms'[i].mod = modlast
  /\ red' = red
  /\ seen' = seen \union {Noted(i, d, "used")}

(* ... or be a definition of another class: one of the two is spare. *)
RowRedefined(i, d) ==
  LET new == Spare(i, modlast, d.value)
      old == Spare(i, syms[i].mod, syms[i].value)
      low == ClassOf(syms[i].mod) < ClassOf(modlast)
  IN  /\ syms[i].kind = "exp" /\ d.kind = "exp" /\ syms'[i].kind = "exp"
      /\ ClassOf(syms[i].mod) # ClassOf(modlast)
      /\ syms'[i].mod = (IF low THEN syms[i].mod ELSE modlast)
      /\ syms'[i].value = (IF low THEN syms[i].value ELSE d.value)
      /\ red' = Append(red, IF low THEN new ELSE old)
      /\ seen' = seen \union {Noted(i, d, "used")}

(* The row of a known name, and that merging a segment changes no more. *)
LEMMA KnownRow ==
  ASSUME TypeOK, NEW d \in SymDescs, ~Fresh(d)
  PROVE  LET i == findsym(d.name)
         IN  /\ i \in DOMAIN syms /\ External(i, d.name) /\ d.kind # "local"
             /\ syms[i] \in SymRecs /\ syms \in Seq(SymRecs)
             /\ i \in 1..Len(syms) /\ TableSeg(i, d) \in 0..AnySeg
<1>1. findsym(d.name) \in DOMAIN syms /\ External(findsym(d.name), d.name)
  BY FindsymKnown DEF Fresh
<1> QED BY <1>1, SymsType, SegsType DEF Fresh

(* A row widened to AnySeg is otherwise as it was. *)
LEMMA WidenedRow ==
  ASSUME TypeOK, NEW d \in SymDescs, ~Fresh(d), syms' = Widened(findsym(d.name), d)
  PROVE  LET i == findsym(d.name)
         IN  /\ OldRow(i, d)
             /\ syms'[i].kind = syms[i].kind /\ syms'[i].value = syms[i].value
             /\ syms'[i].mod = syms[i].mod
<1> DEFINE i == findsym(d.name)
           e == [syms[i] EXCEPT !.seg = TableSeg(i, d)]
<1>1. /\ i \in DOMAIN syms /\ External(i, d.name) /\ d.kind # "local"
      /\ syms[i] \in SymRecs /\ syms \in Seq(SymRecs)
      /\ i \in 1..Len(syms)
  BY KnownRow
<1>2. syms' = [syms EXCEPT ![i] = e]
  BY <1>1 DEF Widened
<1> HIDE DEF i
<1>3. /\ e.kind = syms[i].kind /\ e.value = syms[i].value
      /\ e.mod = syms[i].mod /\ e.name = syms[i].name
  BY <1>1 DEF SymRecs
<1> HIDE DEF e
<1>4. /\ DOMAIN syms' = DOMAIN syms /\ syms'[i] = e
      /\ \A j \in DOMAIN syms : j # i => syms'[j] = syms[j]
  BY <1>1, <1>2
<1> QED BY <1>1, <1>3, <1>4 DEF OldRow, External, i

(* A mismatch or an import of a known name keeps the definition. *)
LEMMA SkipEffect ==
  ASSUME TypeOK, NEW d \in Descs(script), SkipMismatch(d) \/ SkipImport(d)
  PROVE  LET i == findsym(d.name)
         IN  Reading(d) /\ OldRow(i, d) /\ RowKept(i, d)
<1> DEFINE i == findsym(d.name)
<1>1. /\ NextDesc(d) /\ ~Fresh(d) /\ Refer(i) /\ UNCHANGED <<phase, red>>
      /\ syms' = Widened(i, d)
  BY DEF SkipMismatch, SkipImport
<1>2. Reading(d)
  BY <1>1, ReadingStep
<1>3. /\ OldRow(i, d) /\ syms'[i].kind = syms[i].kind
      /\ syms'[i].value = syms[i].value /\ syms'[i].mod = syms[i].mod
  BY <1>1, <1>2, WidenedRow DEF Reading
<1>4. \/ seen' = seen \union {Noted(i, d, "warned")}
      \/ /\ seen' = seen \union {Noted(i, d, "used")} /\ d.kind = "imp"
         /\ syms[i].kind = "exp" \/ d.value <= syms[i].value
  BY DEF SkipMismatch, SkipImport, Note, Noted, NoLarger
<1> QED BY <1>1, <1>2, <1>3, <1>4 DEF RowKept

(* The first definition, or a larger common request, is installed. *)
LEMMA InstallEffect ==
  ASSUME TypeOK, NEW d \in Descs(script), Install(d)
  PROVE  LET i == findsym(d.name)
         IN  Reading(d) /\ OldRow(i, d) /\ RowInstalled(i, d)
<1> DEFINE i == findsym(d.name)
           e == Symbol(d, DescSeg(i, d), modlast)
<1>1. /\ NextDesc(d) /\ ~Fresh(d) /\ Refer(i) /\ UNCHANGED <<phase, red>>
      /\ Note(i, d, "used") /\ syms[i].kind = "imp"
      /\ d.kind = "imp" => ~(d.value <= syms[i].value)
      /\ syms' = [syms EXCEPT ![i] = e]
  BY DEF Install, NoLarger
<1>2. Reading(d)
  BY <1>1, ReadingStep
<1>3. /\ i \in DOMAIN syms /\ External(i, d.name) /\ d.kind # "local"
      /\ syms[i] \in SymRecs /\ syms \in Seq(SymRecs)
  BY <1>1, <1>2, KnownRow DEF Reading
<1>4. e.name = d.name /\ e.kind = d.kind /\ e.value = d.value /\ e.mod = modlast
  BY DEF Symbol
<1>5. d.value \in Nat /\ syms[i].value \in Nat
  BY <1>2, <1>3 DEF Reading, SymDescs, SymRecs
<1> HIDE DEF i, e
<1>6. /\ DOMAIN syms' = DOMAIN syms /\ syms'[i] = e
      /\ \A j \in DOMAIN syms : j # i => syms'[j] = syms[j]
  BY <1>1, <1>3
<1> QED BY <1>1, <1>2, <1>3, <1>4, <1>5, <1>6 DEF OldRow, RowInstalled, Note, Noted, i

(* redsym takes the one of the lower class. *)
LEMMA RedefineEffect ==
  ASSUME TypeOK, NEW d \in Descs(script), Redefine(d)
  PROVE  LET i == findsym(d.name)
         IN  Reading(d) /\ OldRow(i, d) /\ (RowKept(i, d) \/ RowRedefined(i, d))
<1> DEFINE i == findsym(d.name)
           o == Owned(i, d)
<1>1. /\ NextDesc(d) /\ ~Fresh(d) /\ Refer(i) /\ UNCHANGED phase
      /\ syms[i].kind = "exp" /\ d.kind = "exp"
  BY DEF Redefine
<1>2. Reading(d)
  BY <1>1, ReadingStep
<1>3. CASE syms' = Widened(i, d) /\ Note(i, d, "warned") /\ UNCHANGED red
  <2>1. /\ OldRow(i, d) /\ syms'[i].kind = syms[i].kind
        /\ syms'[i].value = syms[i].value /\ syms'[i].mod = syms[i].mod
    BY <1>1, <1>2, <1>3, WidenedRow DEF Reading
  <2> QED BY <1>2, <1>3, <2>1 DEF RowKept, Note, Noted
<1>4. CASE /\ ~SameClassKnown(i)
           /\ syms' = [Widened(i, d) EXCEPT ![i].mod = o.own.mod,
                                            ![i].value = o.own.value]
           /\ red' = Append(red, o.spare)
           /\ Note(i, d, "used")
  <2> DEFINE low == ClassOf(syms[i].mod) < ClassOf(modlast)
             e == [syms[i] EXCEPT !.seg = TableSeg(i, d), !.mod = o.own.mod,
                                  !.value = o.own.value]
  <2>1. /\ i \in DOMAIN syms /\ External(i, d.name) /\ d.kind # "local"
        /\ syms[i] \in SymRecs /\ syms \in Seq(SymRecs)
        /\ TableSeg(i, d) \in 0..AnySeg
    BY <1>1, <1>2, KnownRow DEF Reading
  <2>2. /\ o.own.mod = IF low THEN syms[i].mod ELSE modlast
        /\ o.own.value = IF low THEN syms[i].value ELSE d.value
        /\ o.spare = IF low THEN Spare(i, modlast, d.value)
                     ELSE Spare(i, syms[i].mod, syms[i].value)
    BY DEF Owned, Spare
  <2>3. ClassOf(syms[i].mod) # ClassOf(modlast)
    BY <1>4 DEF SameClassKnown
  <2> HIDE DEF i, o, low
  <2>4. syms' = [syms EXCEPT ![i] = e]
    BY <1>4, <2>1 DEF Widened, SymRecs
  <2>5. /\ e.mod = o.own.mod /\ e.value = o.own.value
        /\ e.kind = syms[i].kind /\ e.name = syms[i].name
    BY <2>1 DEF SymRecs
  <2> HIDE DEF e
  <2>6. /\ DOMAIN syms' = DOMAIN syms /\ syms'[i] = e
        /\ \A j \in DOMAIN syms : j # i => syms'[j] = syms[j]
    BY <2>1, <2>4
  <2>7. OldRow(i, d)
    BY <2>1, <2>5, <2>6 DEF OldRow, External
  <2>8. RowRedefined(i, d)
    BY <1>1, <1>4, <2>2, <2>3, <2>5, <2>6 DEF RowRedefined, Note, Noted, low, i
  <2> QED BY <1>2, <2>7, <2>8 DEF i
<1> QED BY <1>3, <1>4 DEF Redefine
-----------------------------------------------------------------------------
(***************************************************************************)
(* Reading a descriptor keeps TableInv.                                    *)
(***************************************************************************)

(* A new symbol: an external one only if its name was not known. *)
LEMMA NewRowInv ==
  ASSUME TypeOK, TableInv, NEW d \in Descs(script), AddSym(d)
  PROVE  TableInv'
<1>1. PICK n : Reading(d) /\ NewRow(n, d) /\ Fresh(d)
  BY AddSymEffect
<1>v. PICK v : v = Noted(n, d, "used")
  OBVIOUS
<1>2. /\ v.sym = n /\ v.mod = modlast /\ v.kind = d.kind
      /\ v.value = d.value /\ v.fate = "used"
  BY <1>v DEF Noted
<1>3. seen' = seen \union {v}
  BY <1>1, <1>v DEF NewRow
<1>4. d.value \in Nat /\ d.kind \in Kinds
  BY <1>1 DEF Reading, SymDescs
<1>5. modlast \in DOMAIN class /\ class' = class /\ phase' = "read" /\ phase = "read"
  BY <1>1 DEF Reading
<1>6. /\ n \notin DOMAIN syms /\ DOMAIN syms' = DOMAIN syms \union {n}
      /\ \A j \in DOMAIN syms : syms'[j] = syms[j]
      /\ syms'[n].name = d.name /\ syms'[n].kind = d.kind
      /\ syms'[n].value = d.value /\ syms'[n].mod = modlast
      /\ red' = red
  BY <1>1 DEF NewRow
<1>7. \A e \in seen : e.sym \in DOMAIN syms /\ e.sym # n
  BY <1>6 DEF TableInv, SeenInTables
<1>8. \A j, e : e \in Definitions(j)' <=>
        \/ e \in Definitions(j)
        \/ e = v /\ v.sym = j /\ v.kind = "exp" /\ v.fate = "used"
  BY <1>3, DefinitionsGrow
<1>9. \A j \in DOMAIN syms : Definitions(j)' = Definitions(j)
  <2> TAKE j \in DOMAIN syms
  <2>1. v.sym # j
    BY <1>2, <1>6
  <2>2. \A e : e \in Definitions(j)' <=> e \in Definitions(j)
    BY <1>8, <2>1
  <2> QED BY <2>2, Zenon
<1>10. \A e \in Definitions(n)' : e = v /\ d.kind = "exp"
  BY <1>2, <1>7, <1>8 DEF Definitions
<1>11. SeenInTables'
  BY <1>2, <1>3, <1>5, <1>6, <1>7 DEF TableInv, SeenInTables
<1>12. UndefinedHasNone'
  BY <1>6, <1>9, <1>10 DEF TableInv, UndefinedHasNone
<1>13. DefinitionsPlaced'
  BY <1>2, <1>5, <1>6, <1>9, <1>10 DEF TableInv, DefinitionsPlaced, ClassOf
<1>14. UniqueExternals'
  <2>1. d.kind # "local" => \A j \in DOMAIN syms : ~External(j, d.name)
    BY <1>1 DEF Fresh, Known, Externals
  <2> QED BY <1>6, <2>1 DEF TableInv, UniqueExternals, External
<1>15. OwnerIsADefinition'
  <2>1. d.kind = "exp" => v \in Definitions(n)'
    BY <1>2, <1>8
  <2>2. \A k \in DOMAIN red : red[k].sym \in DOMAIN syms
    BY DEF TypeOK, NoDangling
  <2> QED BY <1>2, <1>6, <1>9, <2>1, <2>2 DEF TableInv, OwnerIsADefinition
<1>16. LowestClassFirst'
  <2>1. ClassOf(modlast) \in Nat
    BY <1>5, ClassType
  <2> QED BY <1>2, <1>5, <1>6, <1>9, <1>10, <2>1 DEF TableInv, LowestClassFirst, ClassOf
<1>17. LargestCommonWins'
  BY <1>2, <1>3, <1>4, <1>6, <1>7 DEF TableInv, LargestCommonWins
<1> QED BY <1>11, <1>12, <1>13, <1>14, <1>15, <1>16, <1>17 DEF TableInv

(* A changed row keeps its name, so names of externals stay apart. *)
LEMMA OldRowUnique ==
  ASSUME UniqueExternals, NEW d, NEW i, OldRow(i, d), syms'[i].kind # "local"
  PROVE  UniqueExternals'
BY DEF OldRow, UniqueExternals, External

(* The facts about the noted descriptor that the cases below share. *)
LEMMA OldRowSeen ==
  ASSUME TypeOK, TableInv, NEW d, NEW i, NEW f,
         Reading(d), OldRow(i, d), seen' = seen \union {Noted(i, d, f)}
  PROVE  /\ SeenInTables'
         /\ \A j, e : e \in Definitions(j)' <=>
              \/ e \in Definitions(j)
              \/ e = Noted(i, d, f) /\ i = j /\ d.kind = "exp" /\ f = "used"
<1> DEFINE v == Noted(i, d, f)
<1>1. v.sym = i /\ v.mod = modlast /\ v.kind = d.kind /\ v.fate = f
  BY DEF Noted
<1>2. seen' = seen \union {v}
  OBVIOUS
<1> HIDE DEF v
<1>3. \A j, e : e \in Definitions(j)' <=>
        \/ e \in Definitions(j)
        \/ e = v /\ v.sym = j /\ v.kind = "exp" /\ v.fate = "used"
  BY <1>2, DefinitionsGrow
<1>4. SeenInTables'
  BY <1>1, <1>2 DEF Reading, OldRow, TableInv, SeenInTables
<1> QED BY <1>1, <1>3, <1>4 DEF v
(* A descriptor that changes no definition. *)
LEMMA RowKeptInv ==
  ASSUME TypeOK, TableInv, NEW d, NEW i, Reading(d), OldRow(i, d), RowKept(i, d)
  PROVE  TableInv'
<1>1. PICK f : /\ seen' = seen \union {Noted(i, d, f)}
               /\ \/ f = "warned"
                  \/ /\ f = "used" /\ d.kind = "imp"
                     /\ syms[i].kind = "exp" \/ d.value <= syms[i].value
  BY DEF RowKept
<1>2. SeenInTables' /\ \A j : Definitions(j)' = Definitions(j)
  BY <1>1, OldRowSeen
<1>3. /\ class' = class /\ phase' = "read" /\ phase = "read" /\ red' = red
      /\ DOMAIN syms' = DOMAIN syms /\ i \in DOMAIN syms
      /\ \A j \in DOMAIN syms :
           /\ syms'[j].kind = syms[j].kind /\ syms'[j].value = syms[j].value
           /\ syms'[j].mod = syms[j].mod
  BY DEF Reading, OldRow, RowKept
<1>4. UndefinedHasNone'
  BY <1>2, <1>3 DEF TableInv, UndefinedHasNone
<1>5. DefinitionsPlaced'
  BY <1>2, <1>3 DEF TableInv, DefinitionsPlaced, ClassOf
<1>6. UniqueExternals'
  BY <1>3, OldRowUnique DEF TableInv, OldRow, External
<1>7. OwnerIsADefinition'
  BY <1>2, <1>3 DEF TableInv, OwnerIsADefinition
<1>8. LowestClassFirst'
  BY <1>2, <1>3 DEF TableInv, LowestClassFirst, ClassOf
<1>9. LargestCommonWins'
  <2>1. /\ Noted(i, d, f).sym = i /\ Noted(i, d, f).value = d.value
        /\ Noted(i, d, f).fate = f
    BY DEF Noted
  <2> QED BY <1>1, <1>3, <2>1 DEF TableInv, LargestCommonWins
<1> QED BY <1>2, <1>4, <1>5, <1>6, <1>7, <1>8, <1>9 DEF TableInv

(* The first definition of an imported name, or a larger common request. *)
LEMMA RowInstalledInv ==
  ASSUME TypeOK, TableInv, NEW d, NEW i, Reading(d), OldRow(i, d), RowInstalled(i, d)
  PROVE  TableInv'
<1>v. PICK v : v = Noted(i, d, "used")
  OBVIOUS
<1>1. /\ v.sym = i /\ v.mod = modlast /\ v.kind = d.kind
      /\ v.value = d.value /\ v.fate = "used"
  BY <1>v DEF Noted
<1>2. seen' = seen \union {v}
  BY <1>v DEF RowInstalled
<1>3. /\ SeenInTables'
      /\ \A j, e : e \in Definitions(j)' <=>
           e \in Definitions(j) \/ (e = v /\ i = j /\ d.kind = "exp")
  BY <1>v, <1>2, OldRowSeen
<1>4. /\ class' = class /\ phase' = "read" /\ phase = "read" /\ red' = red
      /\ DOMAIN syms' = DOMAIN syms /\ i \in DOMAIN syms
      /\ \A j \in DOMAIN syms : j # i => syms'[j] = syms[j]
      /\ syms[i].kind = "imp" /\ (d.kind = "imp" => d.value > syms[i].value)
      /\ syms'[i].kind = d.kind /\ syms'[i].value = d.value /\ syms'[i].mod = modlast
      /\ d.kind # "local" /\ modlast \in DOMAIN class
  BY DEF Reading, OldRow, RowInstalled
<1>5. Definitions(i) = {} /\ \A j : j # i => Definitions(j)' = Definitions(j)
  BY <1>3, <1>4 DEF TableInv, UndefinedHasNone
<1>6. \A e \in Definitions(i)' : e = v /\ d.kind = "exp"
  BY <1>3, <1>5
<1>7. UndefinedHasNone'
  BY <1>4, <1>5, <1>6 DEF TableInv, UndefinedHasNone
<1>8. DefinitionsPlaced'
  BY <1>1, <1>4, <1>5, <1>6 DEF TableInv, DefinitionsPlaced, ClassOf
<1>9. UniqueExternals'
  BY <1>4, OldRowUnique DEF TableInv
<1>10. OwnerIsADefinition'
  <2>1. d.kind = "exp" => v \in Definitions(i)'
    BY <1>3
  <2>2. \A k \in DOMAIN red : red[k].sym # i
    BY <1>5 DEF TableInv, OwnerIsADefinition
  <2> QED BY <1>1, <1>4, <1>5, <2>1, <2>2 DEF TableInv, OwnerIsADefinition
<1>11. LowestClassFirst'
  <2>1. ClassOf(modlast) \in Nat
    BY <1>4, ClassType
  <2> QED BY <1>1, <1>4, <1>5, <1>6, <2>1 DEF TableInv, LowestClassFirst, ClassOf
<1>12. LargestCommonWins'
  <2>1. \A e \in seen : e.value \in Nat
    BY DEF TypeOK, Shape
  <2>2. d.value \in Nat /\ syms[i].value \in Nat
    BY <1>4, SymsType DEF Reading, SymDescs, SymRecs
  <2>3. \A e \in seen : e.sym = i /\ e.fate = "used" => e.value <= syms[i].value
    BY <1>4 DEF TableInv, LargestCommonWins
  <2>4. d.kind = "imp" =>
          \A e \in seen' : e.sym = i /\ e.fate = "used" => e.value <= d.value
    BY <1>1, <1>2, <1>4, <2>1, <2>2, <2>3
  <2>5. \A j \in DOMAIN syms : j # i /\ syms[j].kind = "imp" =>
          \A e \in seen' : e.sym = j /\ e.fate = "used" => e.value <= syms[j].value
    BY <1>1, <1>2 DEF TableInv, LargestCommonWins
  <2> QED BY <1>4, <2>4, <2>5 DEF LargestCommonWins
<1> QED BY <1>3, <1>7, <1>8, <1>9, <1>10, <1>11, <1>12 DEF TableInv
(* A definition of another class: the lower class owns, the other is spare. *)
LEMMA RowRedefinedInv ==
  ASSUME TypeOK, TableInv, NEW d, NEW i, Reading(d), OldRow(i, d), RowRedefined(i, d)
  PROVE  TableInv'
<1>v. PICK v : v = Noted(i, d, "used")
  OBVIOUS
<1>w. PICK w : w = IF ClassOf(syms[i].mod) < ClassOf(modlast)
                   THEN Spare(i, modlast, d.value)
                   ELSE Spare(i, syms[i].mod, syms[i].value)
  OBVIOUS
<1>1. /\ v.sym = i /\ v.mod = modlast /\ v.kind = d.kind
      /\ v.value = d.value /\ v.fate = "used"
  BY <1>v DEF Noted
<1>2. seen' = seen \union {v} /\ red' = Append(red, w) /\ d.kind = "exp"
  BY <1>v, <1>w DEF RowRedefined
<1>3. /\ SeenInTables'
      /\ \A j, e : e \in Definitions(j)' <=>
           e \in Definitions(j) \/ (e = v /\ i = j)
  BY <1>v, <1>2, OldRowSeen
<1>4. /\ class' = class /\ phase' = "read" /\ phase = "read"
      /\ DOMAIN syms' = DOMAIN syms /\ i \in DOMAIN syms
      /\ \A j \in DOMAIN syms : j # i => syms'[j] = syms[j]
      /\ syms[i].kind = "exp" /\ syms'[i].kind = "exp"
      /\ modlast \in DOMAIN class
  BY DEF Reading, OldRow, RowRedefined
(* The two definitions: the one that owns now, and the one that is spare. *)
<1>5. /\ w.sym = i
      /\ \/ /\ syms'[i].mod = syms[i].mod /\ syms'[i].value = syms[i].value
            /\ w.mod = modlast /\ w.value = d.value
            /\ ClassOf(syms[i].mod) < ClassOf(modlast)
         \/ /\ syms'[i].mod = modlast /\ syms'[i].value = d.value
            /\ w.mod = syms[i].mod /\ w.value = syms[i].value
            /\ ~(ClassOf(syms[i].mod) < ClassOf(modlast))
  BY <1>w DEF RowRedefined, Spare
<1>6. /\ red \in Seq(SpareRecs) /\ DOMAIN red' = 1..(Len(red) + 1)
      /\ \A k \in DOMAIN red : k \in DOMAIN red' /\ red'[k] = red[k]
      /\ Len(red) + 1 \in DOMAIN red' /\ red'[Len(red) + 1] = w
      /\ \A k \in DOMAIN red' : k \in DOMAIN red \/ red'[k] = w
  <2>1. red \in Seq(SpareRecs)
    BY DEF TypeOK, Shape, SpareRecs
  <2> QED BY <1>2, <2>1
<1>7. PICK k0 \in DOMAIN red' : red'[k0] = w
  BY <1>6
<1>8. \A j : j # i => Definitions(j)' = Definitions(j)
  BY <1>3
<1>9. UndefinedHasNone'
  BY <1>4, <1>8 DEF TableInv, UndefinedHasNone
<1>10. DefinitionsPlaced'
  <2> SUFFICES ASSUME NEW j \in DOMAIN syms, NEW e \in Definitions(j)'
               PROVE  \/ e.mod = syms'[j].mod
                      \/ \E k \in DOMAIN red' : red'[k].sym = j /\ red'[k].mod = e.mod
    BY <1>4 DEF DefinitionsPlaced
  <2>1. CASE e = v /\ j = i
    BY <1>1, <1>5, <1>7, <2>1
  <2>2. CASE e \in Definitions(j)
    <3>1. \/ e.mod = syms[j].mod
          \/ \E k \in DOMAIN red : red[k].sym = j /\ red[k].mod = e.mod
      BY <1>4, <2>2 DEF TableInv, DefinitionsPlaced
    <3>2. CASE e.mod = syms[j].mod
      BY <1>4, <1>5, <1>7, <3>2
    <3>3. CASE \E k \in DOMAIN red : red[k].sym = j /\ red[k].mod = e.mod
      BY <1>6, <3>3
    <3> QED BY <3>1, <3>2, <3>3
  <2> QED BY <1>3, <2>1, <2>2
<1>11. UniqueExternals'
  BY <1>4, OldRowUnique DEF TableInv
<1>12. OwnerIsADefinition'
  <2>1. PICK e \in Definitions(i) : e.mod = syms[i].mod /\ e.value = syms[i].value
    BY <1>4 DEF TableInv, OwnerIsADefinition
  <2>2. e \in Definitions(i)' /\ v \in Definitions(i)'
    BY <1>3, <2>1
  <2>3. \E f \in Definitions(i)' : f.mod = syms'[i].mod /\ f.value = syms'[i].value
    BY <1>1, <1>5, <2>1, <2>2
  <2>4. \E f \in Definitions(i)' : f.mod = w.mod /\ f.value = w.value
    BY <1>1, <1>5, <2>1, <2>2
  <2>5. \A j \in DOMAIN syms : syms'[j].kind = "exp" =>
          \E f \in Definitions(j)' : f.mod = syms'[j].mod /\ f.value = syms'[j].value
    BY <1>4, <1>8, <2>3 DEF TableInv, OwnerIsADefinition
  <2>6. \A k \in DOMAIN red' : \E f : /\ f \in Definitions(red'[k].sym) \/ (f = v /\ red'[k].sym = i)
                                     /\ f.mod = red'[k].mod /\ f.value = red'[k].value
    <3> TAKE k \in DOMAIN red'
    <3>1. CASE k \in DOMAIN red
      BY <1>6, <3>1 DEF TableInv, OwnerIsADefinition
    <3>2. CASE red'[k] = w
      BY <1>1, <1>5, <2>1, <3>2
    <3> QED BY <1>6, <3>1, <3>2
  <2>7. \A k \in DOMAIN red' : \A f :
          f \in Definitions(red'[k].sym) \/ (f = v /\ red'[k].sym = i)
            => f \in {e2 \in seen' : e2.sym = red'[k].sym /\ e2.kind = "exp" /\ e2.fate = "used"}
    BY <1>1, <1>2 DEF Definitions
  <2> QED BY <1>4, <2>5, <2>6, <2>7 DEF OwnerIsADefinition, Definitions
<1>13. LowestClassFirst'
  <2>1. ClassOf(modlast) \in Nat /\ ClassOf(syms[i].mod) \in Nat
    BY <1>4, ClassType DEF TypeOK, NoDangling
  <2>2. \A e \in Definitions(i) : e \in seen /\ e.mod \in DOMAIN class
    BY DEF Definitions, TableInv, SeenInTables
  <2>3. \A e \in Definitions(i) : ClassOf(e.mod) \in Nat /\ ClassOf(syms[i].mod) <= ClassOf(e.mod)
    BY <1>4, <2>2, ClassType DEF TableInv, LowestClassFirst
  <2>4. \A e \in Definitions(i)' : ClassOf(syms'[i].mod) <= ClassOf(e.mod)
    BY <1>1, <1>3, <1>5, <2>1, <2>3
  <2> QED BY <1>4, <1>8, <2>4 DEF TableInv, LowestClassFirst, ClassOf
<1>14. LargestCommonWins'
  BY <1>1, <1>2, <1>4 DEF TableInv, LargestCommonWins
<1> QED BY <1>3, <1>9, <1>10, <1>11, <1>12, <1>13, <1>14 DEF TableInv

(* A new module header refers to nothing yet. *)
LEMMA ReadModuleInv ==
  ASSUME TypeOK, TableInv, NEW c \in Classes(script), ReadModule(c)
  PROVE  TableInv'
<1>1. UNCHANGED <<phase, syms, red, seen>> /\ phase = "read"
  BY DEF ReadModule
<1>2. \A m \in DOMAIN class : m \in DOMAIN class' /\ class'[m] = class[m]
  BY DEF ReadModule, TypeOK, Shape
<1>3. \A i : Definitions(i)' = Definitions(i)
  BY <1>1 DEF Definitions
<1>4. \A i : \A e \in Definitions(i) : e.mod \in DOMAIN class
  BY DEF Definitions, TableInv, SeenInTables
<1>5. \A i \in DOMAIN syms : syms[i].mod \in DOMAIN class
  BY DEF TypeOK, NoDangling
<1>6. SeenInTables'
  BY <1>1, <1>2 DEF TableInv, SeenInTables
<1>7. UndefinedHasNone' /\ OwnerIsADefinition'
  BY <1>1, <1>3 DEF TableInv, UndefinedHasNone, OwnerIsADefinition
<1>8. DefinitionsPlaced' /\ LowestClassFirst'
  BY <1>1, <1>2, <1>3, <1>4, <1>5
     DEF TableInv, DefinitionsPlaced, LowestClassFirst, ClassOf
<1>9. UniqueExternals' /\ LargestCommonWins'
  BY <1>1 DEF TableInv, UniqueExternals, LargestCommonWins, External
<1> QED BY <1>6, <1>7, <1>8, <1>9 DEF TableInv
-----------------------------------------------------------------------------
(***************************************************************************)
(* Linking keeps TableInv.                                                 *)
(***************************************************************************)

(* Steps that leave the tables alone; nothing is read after linking began. *)
LEMMA TableFrame ==
  ASSUME TableInv, UNCHANGED <<class, syms, red, seen>>,
         phase' = "read" => phase = "read"
  PROVE  TableInv'
<1>1. \A i : Definitions(i)' = Definitions(i)
  BY DEF Definitions
<1>2. SeenInTables' /\ UndefinedHasNone' /\ OwnerIsADefinition'
  BY <1>1 DEF TableInv, SeenInTables, UndefinedHasNone, OwnerIsADefinition
<1>3. DefinitionsPlaced' /\ LowestClassFirst'
  BY <1>1 DEF TableInv, DefinitionsPlaced, LowestClassFirst, ClassOf
<1>4. UniqueExternals' /\ LargestCommonWins'
  BY DEF TableInv, UniqueExternals, LargestCommonWins, External
<1> QED BY <1>2, <1>3, <1>4 DEF TableInv

(* Element by element, a sequence without its i-th element. *)
LEMMA UnlinkAt ==
  ASSUME NEW S, NEW s \in Seq(S), NEW i \in 1..Len(s)
  PROVE  /\ Unlink(s, i) \in Seq(S) /\ Len(Unlink(s, i)) = Len(s) - 1
         /\ \A k \in 1..(Len(s) - 1) :
              Unlink(s, i)[k] = IF k < i THEN s[k] ELSE s[k + 1]
<1> DEFINE a == SubSeq(s, 1, i - 1)
           b == SubSeq(s, i + 1, Len(s))
<1>1. a \in Seq(S) /\ Len(a) = i - 1 /\ \A k \in 1..(i - 1) : a[k] = s[k]
  OBVIOUS
<1>2. /\ b \in Seq(S) /\ Len(b) = Len(s) - i
      /\ \A k \in 1..(Len(s) - i) : b[k] = s[i + k]
  OBVIOUS
<1>3. Unlink(s, i) = a \o b
  BY DEF Unlink
<1>n. i \in Nat /\ Len(s) \in Nat /\ 1 <= i /\ i <= Len(s)
  OBVIOUS
<1> HIDE DEF a, b
<1>4. /\ a \o b \in Seq(S) /\ Len(a \o b) = Len(s) - 1
      /\ \A k \in 1..(Len(s) - 1) :
           (a \o b)[k] = IF k <= i - 1 THEN a[k] ELSE b[k - (i - 1)]
  <2>1. /\ a \o b \in Seq(S) /\ Len(a \o b) = Len(a) + Len(b)
        /\ \A k \in 1..(Len(a) + Len(b)) :
             (a \o b)[k] = IF k <= Len(a) THEN a[k] ELSE b[k - Len(a)]
    BY <1>1, <1>2, ConcatProperties
  <2>2. Len(a) + Len(b) = Len(s) - 1
    BY <1>1, <1>2, <1>n
  <2> QED BY <1>1, <2>1, <2>2
<1>5. ASSUME NEW k \in 1..(Len(s) - 1)
      PROVE  (a \o b)[k] = IF k < i THEN s[k] ELSE s[k + 1]
  <2>1. CASE k < i
    BY <1>1, <1>4, <1>n, <2>1
  <2>2. CASE ~(k < i)
    <3>1. k - (i - 1) \in 1..(Len(s) - i) /\ i + (k - (i - 1)) = k + 1 /\ ~(k <= i - 1)
      BY <1>n, <2>2
    <3>2. (a \o b)[k] = b[k - (i - 1)]
      BY <1>4, <3>1
    <3>3. b[k - (i - 1)] = s[i + (k - (i - 1))]
      BY <1>2, <3>1
    <3> QED BY <2>2, <3>1, <3>2, <3>3
  <2> QED BY <2>1, <2>2
<1> QED BY <1>3, <1>4, <1>5

(* What a move does: one row, and at most the entry the scan is at.        *)
LEMMA ScanMoveEffect ==
  ASSUME TypeOK, ScanMove
  PROVE  LET r == red[scan]
         IN  /\ UNCHANGED <<phase, class, seen, loaded>> /\ phase = "scan"
             /\ scan \in DOMAIN red /\ r.sym \in DOMAIN syms
             /\ r.mod \in DOMAIN class /\ Better(r)
             /\ DOMAIN syms' = DOMAIN syms
             /\ \A j \in DOMAIN syms : j # r.sym => syms'[j] = syms[j]
             /\ syms'[r.sym].mod = r.mod /\ syms'[r.sym].value = r.value
             /\ \A j \in DOMAIN syms :
                  syms'[j].name = syms[j].name /\ syms'[j].kind = syms[j].kind
<1> DEFINE r == red[scan]
           e == [syms[r.sym] EXCEPT !.mod = r.mod, !.value = r.value]
<1>1. red \in Seq(SpareRecs) /\ scan \in DOMAIN red
  BY DEF TypeOK, Shape, SpareRecs, ScanMove
<1>2. r.sym \in DOMAIN syms /\ r.mod \in DOMAIN class
  BY <1>1 DEF TypeOK, NoDangling
<1>3. /\ UNCHANGED <<phase, class, seen, loaded>> /\ phase = "scan" /\ Better(r)
      /\ syms' = [syms EXCEPT ![r.sym].mod = r.mod, ![r.sym].value = r.value]
  BY DEF ScanMove, walkVars
<1>4. syms \in Seq(SymRecs) /\ syms[r.sym] \in SymRecs
  BY <1>2, SymsType
<1> HIDE DEF r
<1>5. syms' = [syms EXCEPT ![r.sym] = e]
  BY <1>2, <1>3, <1>4 DEF SymRecs
<1>6. /\ e.mod = r.mod /\ e.value = r.value
      /\ e.name = syms[r.sym].name /\ e.kind = syms[r.sym].kind
  BY <1>4 DEF SymRecs
<1> HIDE DEF e
<1>7. /\ DOMAIN syms' = DOMAIN syms /\ syms'[r.sym] = e
      /\ \A j \in DOMAIN syms : j # r.sym => syms'[j] = syms[j]
  BY <1>2, <1>4, <1>5
<1> QED BY <1>1, <1>2, <1>3, <1>6, <1>7 DEF r

(* ... the list: all other entries stay, those before it in their places.  *)
LEMMA ScanMoveList ==
  ASSUME TypeOK, ScanMove
  PROVE  /\ red' \in Seq(SpareRecs)
         /\ \A k \in DOMAIN red' : \E j \in DOMAIN red : red'[k] = red[j]
         /\ \A j \in DOMAIN red : j # scan =>
              \E k \in DOMAIN red' : red'[k] = red[j]
         /\ \A k \in DOMAIN red' : k < scan' => k \in DOMAIN red /\ red'[k] = red[k]
         /\ \A k \in DOMAIN red' : k < scan' => k < scan \/ k = scan
<1>1. red \in Seq(SpareRecs) /\ scan \in 1..Len(red) /\ scan \in Nat
  BY DEF TypeOK, Shape, SpareRecs, ScanMove
<1>2. CASE UNCHANGED red /\ scan' = scan + 1
  BY <1>1, <1>2
<1>3. CASE red' = Unlink(red, scan) /\ UNCHANGED scan
  <2>1. /\ red' \in Seq(SpareRecs) /\ DOMAIN red' = 1..(Len(red) - 1)
        /\ \A k \in 1..(Len(red) - 1) :
             red'[k] = IF k < scan THEN red[k] ELSE red[k + 1]
    BY <1>1, <1>3, UnlinkAt
  <2>2. \A k \in DOMAIN red' : \E j \in DOMAIN red : red'[k] = red[j]
    BY <1>1, <1>3, Without
  <2>3. ASSUME NEW j \in DOMAIN red, j # scan
        PROVE  \E k \in DOMAIN red' : red'[k] = red[j]
    <3>0. j \in Nat /\ 1 <= j /\ j <= Len(red) /\ Len(red) \in Nat
      BY <1>1
    <3>1. CASE j < scan
      <4>1. j \in DOMAIN red' /\ red'[j] = red[j]
        BY <1>1, <2>1, <3>0, <3>1
      <4> QED BY <4>1
    <3>2. CASE j > scan
      <4>1. j - 1 \in 1..(Len(red) - 1) /\ ~(j - 1 < scan) /\ j - 1 + 1 = j
        BY <1>1, <3>0, <3>2
      <4>2. j - 1 \in DOMAIN red' /\ red'[j - 1] = red[j]
        BY <2>1, <4>1
      <4> QED BY <4>2
    <3> QED BY <1>1, <2>3, <3>0, <3>1, <3>2
  <2>4. \A k \in DOMAIN red' : k < scan' => k \in DOMAIN red /\ red'[k] = red[k]
    BY <1>1, <1>3, <2>1
  <2> QED BY <1>1, <1>3, <2>1, <2>2, <2>3, <2>4
<1> QED BY <1>2, <1>3 DEF ScanMove

(* Moving a symbol to a spare definition of a higher class. *)
LEMMA ScanMoveTable ==
  ASSUME TypeOK, TableInv, ScanMove
  PROVE  TableInv'
<1>r. PICK r : r = red[scan]
  OBVIOUS
<1>1. /\ UNCHANGED <<phase, class, seen, loaded>> /\ phase = "scan"
      /\ scan \in DOMAIN red /\ r.sym \in DOMAIN syms /\ r.mod \in DOMAIN class
      /\ Better(r)
      /\ DOMAIN syms' = DOMAIN syms
      /\ \A j \in DOMAIN syms : j # r.sym => syms'[j] = syms[j]
      /\ syms'[r.sym].mod = r.mod /\ syms'[r.sym].value = r.value
      /\ \A j \in DOMAIN syms :
           syms'[j].name = syms[j].name /\ syms'[j].kind = syms[j].kind
  BY <1>r, ScanMoveEffect
<1>2. /\ \A k \in DOMAIN red' : \E j \in DOMAIN red : red'[k] = red[j]
      /\ \A j \in DOMAIN red : j # scan => \E k \in DOMAIN red' : red'[k] = red[j]
  BY ScanMoveList
<1>3. \A i : Definitions(i)' = Definitions(i)
  BY <1>1 DEF Definitions
<1>4. PICK e0 \in Definitions(r.sym) : e0.mod = r.mod /\ e0.value = r.value
  BY <1>1, <1>r DEF TableInv, OwnerIsADefinition
<1>5. syms[r.sym].kind = "exp"
  BY <1>1, <1>4 DEF TableInv, UndefinedHasNone
<1>6. SeenInTables' /\ UndefinedHasNone'
  BY <1>1, <1>3 DEF TableInv, SeenInTables, UndefinedHasNone
<1>7. UniqueExternals'
  BY <1>1 DEF TableInv, UniqueExternals, External
<1>8. LargestCommonWins'
  BY <1>1, <1>5 DEF TableInv, LargestCommonWins
<1>9. LowestClassFirst'
  BY <1>1 DEF LowestClassFirst
<1>10. OwnerIsADefinition'
  <2>1. \A i \in DOMAIN syms : syms'[i].kind = "exp" =>
          \E e \in Definitions(i) : e.mod = syms'[i].mod /\ e.value = syms'[i].value
    BY <1>1, <1>4 DEF TableInv, OwnerIsADefinition
  <2>2. \A k \in DOMAIN red' : \E e \in Definitions(red'[k].sym) :
          e.mod = red'[k].mod /\ e.value = red'[k].value
    BY <1>2 DEF TableInv, OwnerIsADefinition
  <2>3. seen' = seen
    BY <1>1
  <2> QED BY <1>1, <2>1, <2>2, <2>3 DEF OwnerIsADefinition, Definitions
<1>11. DefinitionsPlaced'
  <2> SUFFICES ASSUME NEW i \in DOMAIN syms, NEW e \in Definitions(i)
               PROVE  \/ e.mod = syms'[i].mod
                      \/ \E k \in DOMAIN red' : red'[k].sym = i /\ red'[k].mod = e.mod
                      \/ ClassOf(e.mod) < ClassOf(syms'[i].mod)
    BY <1>1, <1>3 DEF DefinitionsPlaced, ClassOf
  <2>1. /\ ClassOf(e.mod) \in Nat /\ ClassOf(r.mod) \in Nat
        /\ ClassOf(syms[i].mod) \in Nat /\ ClassOf(syms[r.sym].mod) \in Nat
    <3>1. e.mod \in DOMAIN class /\ syms[i].mod \in DOMAIN class /\ syms[r.sym].mod \in DOMAIN class
      BY <1>1 DEF Definitions, TableInv, SeenInTables, TypeOK, NoDangling
    <3> QED BY <1>1, <3>1, ClassType
  <2>2. ClassOf(syms[r.sym].mod) < ClassOf(r.mod)
    BY <1>1, <2>1 DEF Better, Owner
  <2>3. CASE e.mod = syms[i].mod
    BY <1>1, <2>1, <2>2, <2>3
  <2>4. CASE \E k \in DOMAIN red : red[k].sym = i /\ red[k].mod = e.mod
    <3>1. PICK k \in DOMAIN red : red[k].sym = i /\ red[k].mod = e.mod
      BY <2>4
    <3>2. CASE k = scan
      BY <1>r, <1>1, <3>1, <3>2
    <3>3. CASE k # scan
      BY <1>2, <3>1, <3>3
    <3> QED BY <3>2, <3>3
  <2>5. CASE ClassOf(e.mod) < ClassOf(syms[i].mod)
    BY <1>1, <2>1, <2>2, <2>5
  <2> QED BY <2>3, <2>4, <2>5 DEF TableInv, DefinitionsPlaced
<1> QED BY <1>6, <1>7, <1>8, <1>9, <1>10, <1>11 DEF TableInv
(* Every step keeps TableInv. *)
LEMMA TableStep ==
  ASSUME TypeOK, TableInv, [Next]_vars
  PROVE  TableInv'
<1>1. CASE UNCHANGED vars
  BY <1>1, TableFrame DEF vars, readVars
<1>2. ASSUME NEW c \in Classes(script), ReadModule(c) PROVE TableInv'
  BY <1>2, ReadModuleInv
<1>3. ASSUME NEW d \in Descs(script), AddSym(d) PROVE TableInv'
  BY <1>3, NewRowInv
<1>4. ASSUME NEW d \in Descs(script), SkipMismatch(d) \/ SkipImport(d) PROVE TableInv'
  BY <1>4, SkipEffect, RowKeptInv
<1>5. ASSUME NEW d \in Descs(script), Install(d) PROVE TableInv'
  BY <1>5, InstallEffect, RowInstalledInv
<1>6. ASSUME NEW d \in Descs(script), Redefine(d) PROVE TableInv'
  BY <1>6, RedefineEffect, RowKeptInv, RowRedefinedInv
<1>7. CASE StartLink
  BY <1>7, TableFrame DEF StartLink
<1>8. CASE BeginRound \/ WalkRoot \/ Walk
  BY <1>8, TableFrame DEF BeginRound, WalkRoot, Walk, readVars
<1>9. CASE BeginScan \/ ScanKeep \/ EndRound \/ Finished
  BY <1>9, TableFrame DEF BeginScan, ScanKeep, EndRound, Finished, vars, readVars
<1>10. CASE ScanMove
  BY <1>10, ScanMoveTable
<1> QED BY <1>1, <1>2, <1>3, <1>4, <1>5, <1>6, <1>7, <1>8, <1>9, <1>10, DescRead DEF Next

(* The table agrees with what was read at every moment. *)
THEOREM TableInvariant == Spec => []TableInv
<1>1. Init => TableInv
  BY DEF Init, TableInv, SeenInTables, UndefinedHasNone, DefinitionsPlaced,
         UniqueExternals, OwnerIsADefinition, LowestClassFirst, LargestCommonWins
<1>2. TypeOK /\ TableInv /\ [Next]_vars => TableInv'
  BY TableStep
<1> QED BY <1>1, <1>2, TypeInvariant, PTL DEF Spec

(* readmodule never enters an external name twice, so findsym is a function. *)
THEOREM UniqueExternalsTheorem == Spec => []UniqueExternals
<1>1. TableInv => UniqueExternals
  BY DEF TableInv
<1> QED BY <1>1, TableInvariant, PTL

(* Module and value of a defined symbol come from one real definition. *)
THEOREM OwnerTheorem == Spec => []OwnerIsADefinition
<1>1. TableInv => OwnerIsADefinition
  BY DEF TableInv
<1> QED BY <1>1, TableInvariant, PTL

(* While reading, the lowest class owns, in whatever order modules come. *)
THEOREM LowestClassTheorem == Spec => []LowestClassFirst
<1>1. TableInv => LowestClassFirst
  BY DEF TableInv
<1> QED BY <1>1, TableInvariant, PTL

(* Common storage has the largest size any module asked for. *)
THEOREM LargestCommonTheorem == Spec => []LargestCommonWins
<1>1. TableInv => LargestCommonWins
  BY DEF TableInv
<1> QED BY <1>1, TableInvariant, PTL

-----------------------------------------------------------------------------
(***************************************************************************)
(* The scan of the redefinition list.                                      *)
(***************************************************************************)

(* What the scan has passed is no better than the owner. *)
ScanInv ==
  phase \in {"scan", "done"} =>
    /\ \A k \in DOMAIN red : k < scan => ~Better(red[k])
    /\ phase = "done" => scan > Len(red)

(* A move raises the class of its symbol's owner, so what was passed before *)
(* stays passed.                                                            *)
LEMMA ScanMoveScan ==
  ASSUME TypeOK, ScanInv, ScanMove
  PROVE  ScanInv'
<1>r. PICK r : r = red[scan]
  OBVIOUS
<1>1. /\ UNCHANGED <<phase, class, loaded>> /\ phase = "scan"
      /\ scan \in DOMAIN red /\ r.sym \in DOMAIN syms /\ r.mod \in DOMAIN class
      /\ Better(r)
      /\ \A j \in DOMAIN syms : j # r.sym => syms'[j] = syms[j]
      /\ syms'[r.sym].mod = r.mod
  BY <1>r, ScanMoveEffect
<1>2. \A k \in DOMAIN red' : k < scan' =>
        k \in DOMAIN red /\ red'[k] = red[k] /\ (k < scan \/ k = scan)
  BY ScanMoveList
<1>3. \A k \in DOMAIN red : red[k].sym \in DOMAIN syms /\ red[k].mod \in DOMAIN class
  BY DEF TypeOK, NoDangling
<1>4. \A j \in DOMAIN syms : syms[j].mod \in DOMAIN class
  BY DEF TypeOK, NoDangling
<1>5. \A m \in DOMAIN class : ClassOf(m) \in Nat
  BY ClassType
<1>6. \A j \in DOMAIN syms :
        syms'[j].mod \in DOMAIN class /\ ClassOf(syms[j].mod) <= ClassOf(syms'[j].mod)
  BY <1>1, <1>4, <1>5 DEF Better, Owner
<1>7. ASSUME NEW k \in DOMAIN red', k < scan'
      PROVE  ~(red'[k].mod \in loaded /\ ClassOf(red'[k].mod) > ClassOf(syms'[red'[k].sym].mod))
  <2>1. k \in DOMAIN red /\ red'[k] = red[k]
    BY <1>2, <1>7
  <2>2. CASE k = scan
    BY <1>r, <1>1, <1>5, <2>1, <2>2
  <2>3. CASE k < scan
    <3>1. ~Better(red[k])
      BY <1>1, <2>1, <2>3 DEF ScanInv
    <3> QED BY <1>3, <1>4, <1>5, <1>6, <2>1, <3>1 DEF Better, Owner
  <2> QED BY <1>2, <1>7, <2>2, <2>3
<1> QED BY <1>1, <1>7 DEF ScanInv, Better, Owner, ClassOf

(* linksyms passes every spare definition before it returns. *)
LEMMA ScanStep ==
  ASSUME TypeOK, ScanInv, [Next]_vars
  PROVE  ScanInv'
<1>0. /\ DOMAIN red = 1..Len(red) /\ Len(red) \in Nat /\ scan \in Nat
  BY DEF TypeOK, Shape
<1>1. CASE UNCHANGED vars \/ Finished
  BY <1>1 DEF Finished, vars, readVars, walkVars, scanVars, ScanInv, Better, Owner, ClassOf
<1>2. CASE phase' \notin {"scan", "done"}
  BY <1>2 DEF ScanInv
<1>3. CASE BeginScan
  <2>1. phase' = "scan" /\ red' = red /\ scan' = 1
    BY <1>3 DEF BeginScan, readVars
  <2> QED BY <1>0, <2>1 DEF ScanInv
<1>4. CASE ScanKeep
  <2>1. /\ UNCHANGED <<phase, class, syms, red, loaded>> /\ scan' = scan + 1
        /\ phase = "scan" /\ ~Better(red[scan])
    BY <1>4 DEF ScanKeep, readVars, walkVars
  <2>2. \A k \in DOMAIN red : k < scan + 1 => k = scan \/ k < scan
    BY <1>0
  <2> QED BY <2>1, <2>2 DEF ScanInv, Better, Owner, ClassOf
<1>5. CASE ScanMove
  BY <1>5, ScanMoveScan
<1>6. CASE EndRound
  <2>1. UNCHANGED <<class, syms, red, loaded, scan>> /\ phase = "scan" /\ scan > Len(red)
    BY <1>6, SMTT(30) DEF EndRound, readVars, walkVars, scanVars
  <2> QED BY <2>1 DEF ScanInv, Better, Owner, ClassOf
<1>7. Next => \/ phase' \notin {"scan", "done"} \/ BeginScan \/ ScanKeep
              \/ ScanMove \/ EndRound \/ Finished
  BY ZenonT(60) DEF Next, ReadModule, AddSym, SkipMismatch, SkipImport, Install, Redefine,
         NextDesc, StartLink, BeginRound, WalkRoot, Walk
<1> QED BY <1>1, <1>2, <1>3, <1>4, <1>5, <1>6, <1>7

(* When linksyms returns, no loaded definition of a symbol has a higher     *)
(* class than its owner: each definition owns, was given up for a higher    *)
(* class, or is on the list the last scan passed to its end.                *)
THEOREM HighestLoadedTheorem == Spec => []HighestLoadedWins
<1>1. Init => ScanInv
  BY DEF Init, ScanInv
<1>2. TypeOK /\ ScanInv /\ [Next]_vars => ScanInv'
  BY ScanStep
<1>3. TypeOK /\ TableInv /\ ScanInv => HighestLoadedWins
  <2> SUFFICES ASSUME TypeOK, TableInv, ScanInv, phase = "done",
                      NEW i \in DOMAIN syms, NEW e \in Definitions(i), e.mod \in loaded
               PROVE  ClassOf(e.mod) <= ClassOf(syms[i].mod)
    BY DEF HighestLoadedWins
  <2>1. ClassOf(e.mod) \in Nat /\ ClassOf(syms[i].mod) \in Nat
    BY ClassType DEF Definitions, TableInv, SeenInTables, TypeOK, NoDangling
  <2>2. CASE e.mod = syms[i].mod \/ ClassOf(e.mod) < ClassOf(syms[i].mod)
    BY <2>1, <2>2
  <2>3. ASSUME NEW k \in DOMAIN red, red[k].sym = i, red[k].mod = e.mod
        PROVE  ClassOf(e.mod) <= ClassOf(syms[i].mod)
    <3>1. k < scan
      BY DEF ScanInv, TypeOK, Shape
    <3>2. ~Better(red[k])
      BY <3>1 DEF ScanInv
    <3> QED BY <2>1, <2>3, <3>2 DEF Better, Owner
  <2> QED BY <2>2, <2>3 DEF TableInv, DefinitionsPlaced
<1> QED BY <1>1, <1>2, <1>3, TypeInvariant, TableInvariant, PTL DEF Spec
-----------------------------------------------------------------------------
(***************************************************************************)
(* Definitions are not lost.                                               *)
(***************************************************************************)

(* No step undefines a symbol, and no step of linksyms lowers its class. *)
LEMMA KeptStep ==
  ASSUME TypeOK, [Next]_vars, NEW i \in DOMAIN syms, syms[i].kind = "exp"
  PROVE  /\ syms'[i].kind = "exp"
         /\ phase # "read" => ClassOf(syms'[i].mod) >= ClassOf(syms[i].mod)
<1>0. ClassOf(syms[i].mod) \in Nat
  BY ClassType DEF TypeOK, NoDangling
<1>1. CASE UNCHANGED syms
  BY <1>0, <1>1
<1>2. ASSUME NEW d \in Descs(script), AddSym(d) PROVE syms'[i] = syms[i] /\ phase = "read"
  BY <1>2, AddSymEffect DEF Reading, NewRow
<1>3. ASSUME NEW d \in Descs(script), SkipMismatch(d) \/ SkipImport(d)
      PROVE  syms'[i].kind = "exp" /\ phase = "read"
  BY <1>3, SkipEffect DEF Reading, OldRow, RowKept
<1>4. ASSUME NEW d \in Descs(script), Install(d) PROVE syms'[i].kind = "exp" /\ phase = "read"
  BY <1>4, InstallEffect DEF Reading, OldRow, RowInstalled
<1>5. ASSUME NEW d \in Descs(script), Redefine(d) PROVE syms'[i].kind = "exp" /\ phase = "read"
  BY <1>5, RedefineEffect DEF Reading, OldRow, RowKept, RowRedefined
<1>6. CASE ScanMove
  <2>r. PICK r : r = red[scan]
    OBVIOUS
  <2>1. /\ r.sym \in DOMAIN syms /\ r.mod \in DOMAIN class /\ Better(r)
        /\ \A j \in DOMAIN syms : j # r.sym => syms'[j] = syms[j]
        /\ syms'[r.sym].mod = r.mod
        /\ \A j \in DOMAIN syms : syms'[j].kind = syms[j].kind
    BY <1>6, <2>r, ScanMoveEffect
  <2>2. ClassOf(r.mod) \in Nat
    BY <2>1, ClassType, SMTT(30)
  <2> QED BY <1>0, <2>1, <2>2, SMTT(30) DEF Better, Owner
<1>7. Next => \/ UNCHANGED syms \/ ScanMove
              \/ \E d \in Descs(script) : \/ AddSym(d) \/ SkipMismatch(d) \/ SkipImport(d)
                                  \/ Install(d) \/ Redefine(d)
  BY DescRead DEF Next, ReadModule, StartLink, BeginRound, WalkRoot, Walk, BeginScan,
         ScanKeep, EndRound, Finished, vars, readVars
<1>8. UNCHANGED vars => UNCHANGED syms
  BY DEF vars, readVars
<1> QED BY <1>1, <1>2, <1>3, <1>4, <1>5, <1>6, <1>7, <1>8

(* Once defined a symbol stays defined, and linking never lowers its class. *)
THEOREM DefinitionKeptTheorem == Spec => DefinitionKept
<1>1. TypeOK /\ [Next]_vars =>
        [\A i \in DOMAIN syms : syms[i].kind = "exp" =>
           /\ syms'[i].kind = "exp"
           /\ phase # "read" => ClassOf(syms'[i].mod) >= ClassOf(syms[i].mod)]_vars
  BY KeptStep
<1> QED BY <1>1, TypeInvariant, PTL DEF Spec, DefinitionKept

-----------------------------------------------------------------------------
(***************************************************************************)
(* Nothing is loaded without need.                                         *)
(***************************************************************************)

(* From the clearing of the loadflags until a symbol moves, whatever set of *)
(* modules holds the roots and the owners of all it refers to holds loaded. *)
MinimalInv ==
  /\ phase = "done" => needlink = 0
  /\ phase = "walk" \/ (phase \in {"scan", "done"} /\ needlink = 0) =>
       \A S \in SUBSET ModIds : Closed(S) => loaded \subseteq S

(* Every call linksyms makes is about a root. *)
LEMMA CallsAreRoots ==
  ASSUME TypeOK, NEW k \in 1..NCalls
  PROVE  RootMods(k) \subseteq Roots
<1> DEFINE n == Len(entries)
           r == Len(script.roots)
<1>1. n \in Nat /\ DOMAIN entries = 1..n
  BY DEF TypeOK, Shape
<1>2. r \in Nat /\ DOMAIN script.roots = 1..r
  BY ScriptAssumption DEF TypeOK, Shape
<1>3. CASE k <= n
  <2>1. k \in DOMAIN entries /\ RootMods(k) = {Owner(entries[k])}
    BY <1>1, <1>3 DEF RootMods
  <2> QED BY <2>1 DEF Roots
<1>4. CASE ~(k <= n) /\ k <= n + r
  <2>1. k - n \in DOMAIN script.roots /\ RootMods(k) = StmtRoots(script.roots[k - n])
    BY <1>1, <1>2, <1>4 DEF RootMods
  <2> QED BY <2>1 DEF Roots
<1>5. CASE ~(k <= n) /\ ~(k <= n + r)
  BY <1>5 DEF RootMods, Roots
<1> QED BY <1>3, <1>4, <1>5

(* What is closed depends on the tables and the script alone. *)
LEMMA ClosedFrame ==
  ASSUME UNCHANGED <<script, readVars>>
  PROVE  \A S : Closed(S)' = Closed(S)
<1>1. \A i : Owner(i)' = Owner(i)
  BY DEF readVars, Owner
<1>2. Roots' = Roots
  BY DEF readVars, Owner, Roots, StmtRoots, StartRoots, Defined, Known,
         findsym, Externals, External
<1>3. \A m : Refs(m)' = Refs(m)
  BY DEF readVars, Refs
<1> QED BY <1>1, <1>2, <1>3 DEF Closed

(* linkrefs loads roots and owners of references of loaded modules only. *)
LEMMA MinimalStep ==
  ASSUME TypeOK, MinimalInv, [Next]_vars
  PROVE  MinimalInv'
<1>1. CASE phase' \notin {"walk", "scan", "done"}
  BY <1>1 DEF MinimalInv
<1>2. CASE BeginRound
  BY <1>2 DEF BeginRound, MinimalInv
<1>3. CASE WalkRoot
  <2>1. phase = "walk" /\ phase' = "walk" /\ UNCHANGED <<script, readVars>>
    BY <1>3 DEF WalkRoot
  <2>2. \A S : Closed(S)' = Closed(S)
    BY <2>1, ClosedFrame
  <2>3. call \in 1..NCalls
    BY <1>3, RootModsType DEF WalkRoot, TypeOK, Shape
  <2>4. \A m \in loaded' : m \in loaded \/ m \in Roots
    <3>1. RootMods(call) \subseteq Roots
      BY <2>3, CallsAreRoots
    <3> QED BY <1>3, <3>1 DEF WalkRoot, Enter
  <2> QED BY <2>1, <2>2, <2>4 DEF MinimalInv, Closed
<1>4. CASE Walk
  <2>1. phase = "walk" /\ phase' = "walk" /\ UNCHANGED <<script, readVars>>
    BY <1>4 DEF Walk
  <2>2. \A S : Closed(S)' = Closed(S)
    BY <2>1, ClosedFrame
  <2>3. \A m \in loaded' : m \in loaded \/ \E n \in loaded : \E i \in Refs(n) : m = Owner(i)
    <3>0. PICK top : top = stack[Len(stack)]
      OBVIOUS
    <3>1. /\ top \in loaded
          /\ ~AllRefsSeen(top) => symparray[top][pos[top]] \in Refs(top)
      BY <1>4, <3>0, TopType DEF Refs
    <3>2. \/ loaded' = loaded
          \/ /\ ~AllRefsSeen(top)
             /\ loaded' = loaded \union {Owner(symparray[top][pos[top]])}
      BY <1>4, <3>0 DEF Walk, Enter
    <3> QED BY <3>1, <3>2
  <2>4. ASSUME NEW S \in SUBSET ModIds, Closed(S) PROVE loaded' \subseteq S
    <3>1. loaded \subseteq S
      BY <2>1, <2>4 DEF MinimalInv
    <3> QED BY <2>3, <2>4, <3>1 DEF Closed
  <2> QED BY <2>1, <2>2, <2>4 DEF MinimalInv
<1>5. CASE BeginScan \/ ScanKeep \/ EndRound \/ Finished \/ UNCHANGED vars
  <2>1. UNCHANGED <<script, readVars, loaded>>
    BY <1>5 DEF BeginScan, ScanKeep, EndRound, Finished, vars, walkVars
  <2>2. \A S : Closed(S)' = Closed(S)
    BY <2>1, ClosedFrame
  <2>3. phase' \in {"scan", "done"} /\ needlink' = 0 =>
          phase = "walk" \/ (phase \in {"scan", "done"} /\ needlink = 0)
    BY <1>5 DEF BeginScan, ScanKeep, EndRound, Finished, vars, scanVars
  <2>4. phase' = "walk" => phase = "walk"
    BY <1>5 DEF BeginScan, ScanKeep, EndRound, Finished, vars
  <2>5. phase' = "done" => needlink' = 0
    BY <1>5 DEF BeginScan, ScanKeep, EndRound, Finished, vars, scanVars,
                MinimalInv, TypeOK, Shape
  <2> QED BY <2>1, <2>2, <2>3, <2>4, <2>5 DEF MinimalInv
<1>6. CASE ScanMove
  BY <1>6, SMTT(30) DEF ScanMove, MinimalInv
<1>7. Next => \/ phase' \notin {"walk", "scan", "done"} \/ BeginRound
              \/ WalkRoot \/ Walk \/ BeginScan \/ ScanKeep \/ ScanMove
              \/ EndRound \/ Finished
  BY ZenonT(60) DEF Next, ReadModule, AddSym, SkipMismatch, SkipImport, Install, Redefine,
         NextDesc, StartLink
<1> QED BY <1>1, <1>2, <1>3, <1>4, <1>5, <1>6, <1>7

(* The modules loaded when linksyms returns are the least closed set. *)
THEOREM LinkMinimalTheorem == Spec => []LinkMinimal
<1>1. Init => MinimalInv
  BY DEF Init, MinimalInv
<1>2. TypeOK /\ MinimalInv /\ [Next]_vars => MinimalInv'
  BY MinimalStep
<1>3. TypeOK /\ MinimalInv => LinkMinimal
  BY DEF TypeOK, Shape, MinimalInv, LinkMinimal
<1> QED BY <1>1, <1>2, <1>3, TypeInvariant, PTL DEF Spec
=============================================================================
