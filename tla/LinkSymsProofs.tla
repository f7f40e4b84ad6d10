--------------------------- MODULE LinkSymsProofs ---------------------------
(***************************************************************************)
(* Proofs about LinkSyms, for every set of object files and scripts.       *)
(*                                                                         *)
(* TypeOK is inductive.  LinkClosed is not: it says nothing until linksyms *)
(* returns.  WalkInv, which says what linkrefs has done and has left to do *)
(* at each point of its recursion, is inductive together with TypeOK and   *)
(* gives LinkClosed when the stack and the list of roots are empty.        *)
(***************************************************************************)
EXTENDS LinkSyms, SequenceTheorems, TLAPS

SymRecs ==
  [name : Names, kind : Kinds, rel : Rels, seg : 0..AnySeg,
   value : Nat, mod : ModIds]
SpareRecs == [sym : Nat, mod : ModIds, value : Nat]
SeenRecs == [sym : Nat, mod : ModIds, kind : Kinds, value : Nat, fate : Fates]

(* What findsym returns for a known name is an index of the table. *)
LEMMA FindsymKnown ==
  ASSUME NEW n, Known(n)
  PROVE  findsym(n) \in DOMAIN syms /\ External(findsym(n), n)
BY DEF Known, findsym, Externals

(* The empty tables main() starts with are well formed. *)
LEMMA InitTypeOK == Init => TypeOK
<1> SUFFICES ASSUME Init PROVE TypeOK
  OBVIOUS
<1>1. Shape
  BY BoundAssumption DEF Init, Shape, ModIds
<1>2. NoDangling
  BY DEF Init, NoDangling
<1> QED BY <1>1, <1>2 DEF TypeOK

(* Reading a module header keeps the tables well formed. *)
LEMMA ReadModuleType ==
  ASSUME TypeOK, NEW c \in Classes(script), ReadModule(c)
  PROVE  TypeOK'
<1>1. /\ class' \in Seq(Classes(script)) /\ Len(class') <= MaxMods
      /\ DOMAIN class \subseteq DOMAIN class'
  BY BoundAssumption DEF TypeOK, Shape, ReadModule
<1>2. Shape'
  BY <1>1 DEF TypeOK, Shape, ReadModule, walkVars, scanVars
<1>3. NoDangling'
  BY <1>1 DEF TypeOK, NoDangling, ReadModule, walkVars, scanVars
<1> QED BY <1>2, <1>3 DEF TypeOK

(* What reading any symbol descriptor does to the tables. *)
SymStep(i) ==
  /\ syms' \in Seq(SymRecs)
  /\ DOMAIN syms \subseteq DOMAIN syms'
  /\ i \in DOMAIN syms'
  /\ \A j \in DOMAIN syms' : syms'[j].mod \in DOMAIN class
  /\ Refer(i)
  /\ class # <<>> /\ phase = "read"
  /\ entries' \in Seq(Nat)
  /\ \A k \in DOMAIN entries' : entries'[k] \in DOMAIN syms'
  /\ red' \in Seq(SpareRecs)
  /\ \A k \in DOMAIN red' : red'[k].sym \in DOMAIN syms' /\ red'[k].mod \in DOMAIN class
  /\ seen' \subseteq SeenRecs
  /\ UNCHANGED <<phase, script, walkVars, scanVars>>

(* A step of that kind keeps the tables well formed. *)
LEMMA SymStepType ==
  ASSUME TypeOK, NEW i, SymStep(i)
  PROVE  TypeOK'
<1>1. i \in Nat /\ Len(class) \in ModIds /\ symparray \in [ModIds -> Seq(Nat)]
  BY BoundAssumption, SMTT(30) DEF TypeOK, Shape, SymStep, ModIds
<1>2. symparray' = [symparray EXCEPT ![Len(class)] = Append(@, i)]
  BY DEF SymStep, Refer, modlast
<1>3. symparray' \in [ModIds -> Seq(Nat)]
  BY <1>1, <1>2
<1>4. Shape'
  BY <1>3 DEF TypeOK, Shape, SymStep, Refer, SymRecs, SpareRecs, SeenRecs, walkVars, scanVars
<1>5. \A m \in ModIds : \A k \in DOMAIN symparray'[m] :
        symparray'[m][k] \in DOMAIN syms'
  BY <1>1, <1>2, SMTT(30) DEF TypeOK, NoDangling, SymStep
<1>6. NoDangling'
  BY <1>5 DEF TypeOK, NoDangling, SymStep, Refer, ModIds, walkVars, scanVars
<1> QED BY <1>4, <1>6 DEF TypeOK

(* The table a well formed state holds, as a plain typing fact. *)
LEMMA SymsType ==
  ASSUME TypeOK
  PROVE  /\ syms \in Seq(SymRecs)
         /\ \A i \in DOMAIN syms : syms[i] \in SymRecs
<1>1. syms \in Seq(SymRecs)
  BY DEF TypeOK, Shape, SymRecs
<1> QED BY <1>1

(* The descriptor's segment, merged with the table's, is a segment. *)
LEMMA SegsType ==
  ASSUME TypeOK, NEW d \in SymDescs, NEW i \in DOMAIN syms
  PROVE  TableSeg(i, d) \in 0..AnySeg /\ DescSeg(i, d) \in 0..AnySeg
<1>1. syms[i].seg \in 0..AnySeg
  BY SymsType DEF SymRecs
<1>2. d.seg \in 0..AnySeg
  BY DEF SymDescs
<1> QED BY <1>1, <1>2 DEF TableSeg, DescSeg

(* Merging a segment into a symbol keeps the table's shape and its owners. *)
LEMMA WidenedType ==
  ASSUME TypeOK, NEW d \in SymDescs, NEW i \in DOMAIN syms
  PROVE  /\ Widened(i, d) \in Seq(SymRecs)
         /\ DOMAIN Widened(i, d) = DOMAIN syms
         /\ \A j \in DOMAIN syms : Widened(i, d)[j].mod = syms[j].mod
<1> DEFINE e == [syms[i] EXCEPT !.seg = TableSeg(i, d)]
<1>1. syms \in Seq(SymRecs) /\ i \in 1..Len(syms) /\ syms[i] \in SymRecs
  BY SymsType
<1>2. e \in SymRecs /\ e.mod = syms[i].mod
  <2>1. TableSeg(i, d) \in 0..AnySeg
    BY SegsType
  <2> QED BY <1>1, <2>1 DEF SymRecs
<1>3. Widened(i, d) = [syms EXCEPT ![i] = e]
  BY <1>1 DEF Widened
<1> HIDE DEF e
<1>4. /\ Widened(i, d) \in Seq(SymRecs) /\ Len(Widened(i, d)) = Len(syms)
      /\ \A j \in 1..Len(syms) :
           Widened(i, d)[j] = IF j = i THEN e ELSE syms[j]
  BY <1>1, <1>2, <1>3, ExceptSeq
<1> QED BY <1>1, <1>2, <1>4

(* What Note records is typed. *)
LEMMA NoteType ==
  ASSUME TypeOK, NEW d \in SymDescs, NEW i \in Nat, NEW f \in Fates,
         class # <<>>, Note(i, d, f)
  PROVE  seen' \subseteq SeenRecs
<1>1. modlast \in ModIds
  BY BoundAssumption DEF TypeOK, Shape, modlast, ModIds
<1>2. d.kind \in Kinds /\ d.value \in Nat
  BY DEF SymDescs
<1> QED BY <1>1, <1>2 DEF Note, SeenRecs, TypeOK, Shape

(* Entering a new symbol (addsym) keeps the tables well formed. *)
LEMMA AddSymType ==
  ASSUME TypeOK, NEW d \in Descs(script), AddSym(d)
  PROVE  TypeOK'
<1> DEFINE i == Len(syms) + 1
           e == Symbol(d, d.seg, modlast)
<1>1. d \in SymDescs /\ class # <<>>
  BY InputAssumption DEF TypeOK, Shape, AddSym, NextDesc
<1>2. modlast \in DOMAIN class /\ modlast \in ModIds
  BY <1>1, BoundAssumption DEF TypeOK, Shape, modlast, ModIds
<1>3. e \in SymRecs /\ e.mod = modlast
  BY <1>1, <1>2 DEF Symbol, SymDescs, SymRecs
<1>4. syms \in Seq(SymRecs) /\ syms' = Append(syms, e)
  BY DEF TypeOK, Shape, SymRecs, AddSym
<1> HIDE DEF e
<1>5. /\ syms' \in Seq(SymRecs)
      /\ DOMAIN syms \subseteq DOMAIN syms'
      /\ i \in DOMAIN syms' /\ i \in Nat
      /\ \A j \in DOMAIN syms' : syms'[j] = IF j = i THEN e ELSE syms[j]
  BY <1>3, <1>4
<1>6. \A j \in DOMAIN syms' : syms'[j].mod \in DOMAIN class
  BY <1>2, <1>3, <1>4, <1>5 DEF TypeOK, NoDangling
<1>7. seen' \subseteq SeenRecs
  <2>1. Note(i, d, "used")
    BY DEF AddSym
  <2> QED BY <1>1, <1>5, <2>1, NoteType DEF Fates
<1>8. entries' \in Seq(Nat) /\ \A k \in DOMAIN entries' : entries'[k] \in DOMAIN syms'
  <2>1. entries' = entries \/ entries' = Append(entries, i)
    BY DEF AddSym, entrysym
  <2>2. entries \in Seq(Nat) /\ \A k \in DOMAIN entries : entries[k] \in DOMAIN syms
    BY DEF TypeOK, Shape, NoDangling
  <2>3. CASE entries' = entries
    BY <1>5, <2>2, <2>3
  <2>4. CASE entries' = Append(entries, i)
    BY <1>5, <2>2, <2>4
  <2> QED BY <2>1, <2>3, <2>4
<1>9. SymStep(i)
  BY <1>1, <1>5, <1>6, <1>7, <1>8
     DEF SymStep, AddSym, NextDesc, TypeOK, Shape, NoDangling, SpareRecs
<1> QED BY <1>9, SymStepType

(* A descriptor that leaves the owners of all symbols as they are. *)
LEMMA WidenStep ==
  ASSUME TypeOK, NEW d \in Descs(script), ~Fresh(d), NextDesc(d),
         NEW f \in Fates,
         syms' = Widened(findsym(d.name), d),
         Refer(findsym(d.name)), Note(findsym(d.name), d, f),
         UNCHANGED <<phase, script, entries, red, walkVars, scanVars>>
  PROVE  SymStep(findsym(d.name))
<1> DEFINE i == findsym(d.name)
<1>1. d \in SymDescs /\ class # <<>>
  BY InputAssumption DEF TypeOK, Shape, NextDesc
<1>2. i \in DOMAIN syms /\ i \in Nat
  BY FindsymKnown, SMTT(30) DEF Fresh, TypeOK, Shape
<1>3. seen' \subseteq SeenRecs
  BY <1>1, <1>2, NoteType
<1>4. /\ syms' \in Seq(SymRecs) /\ DOMAIN syms' = DOMAIN syms
      /\ \A j \in DOMAIN syms : syms'[j].mod = syms[j].mod
  BY <1>1, <1>2, WidenedType
<1> QED BY <1>1, <1>2, <1>3, <1>4
        DEF SymStep, NextDesc, TypeOK, Shape, NoDangling, SpareRecs

(* Skipping a mismatched or an unneeded descriptor keeps them well formed. *)
LEMMA SkipType ==
  ASSUME TypeOK, NEW d \in Descs(script), SkipMismatch(d) \/ SkipImport(d)
  PROVE  TypeOK'
<1>1. SymStep(findsym(d.name))
  BY WidenStep DEF SkipMismatch, SkipImport, Fates
<1> QED BY <1>1, SymStepType

(* Replacing one record of the symbol table. *)
LEMMA PutSym ==
  ASSUME TypeOK, NEW i \in DOMAIN syms, NEW e \in SymRecs,
         e.mod \in DOMAIN class, syms' = [syms EXCEPT ![i] = e]
  PROVE  /\ syms' \in Seq(SymRecs)
         /\ DOMAIN syms' = DOMAIN syms
         /\ \A j \in DOMAIN syms' : syms'[j].mod \in DOMAIN class
         /\ \A j \in DOMAIN syms : syms'[j] = IF j = i THEN e ELSE syms[j]
<1>1. syms \in Seq(SymRecs) /\ i \in 1..Len(syms)
  BY SymsType
<1>2. /\ syms' \in Seq(SymRecs) /\ Len(syms') = Len(syms)
      /\ \A j \in 1..Len(syms) : syms'[j] = IF j = i THEN e ELSE syms[j]
  BY <1>1, ExceptSeq
<1> QED BY <1>1, <1>2 DEF TypeOK, NoDangling

(* Installing the first definition of an imported symbol does too. *)
LEMMA InstallType ==
  ASSUME TypeOK, NEW d \in Descs(script), Install(d)
  PROVE  TypeOK'
<1> DEFINE i == findsym(d.name)
           e == Symbol(d, DescSeg(i, d), modlast)
<1>1. d \in SymDescs /\ class # <<>>
  BY InputAssumption DEF TypeOK, Shape, Install, NextDesc
<1>2. i \in DOMAIN syms /\ i \in Nat
  <2>1. i \in DOMAIN syms
    BY FindsymKnown DEF Install, Fresh
  <2> QED BY <2>1, SymsType
<1>3. modlast \in DOMAIN class /\ modlast \in ModIds
  BY <1>1, BoundAssumption DEF TypeOK, Shape, modlast, ModIds
<1>4. e \in SymRecs /\ e.mod = modlast
  <2>1. DescSeg(i, d) \in 0..AnySeg
    BY <1>1, <1>2, SegsType
  <2> QED BY <1>1, <1>3, <2>1 DEF Symbol, SymDescs, SymRecs
<1>5. syms' = [syms EXCEPT ![i] = e]
  BY DEF Install
<1> HIDE DEF e
<1>6. /\ syms' \in Seq(SymRecs) /\ DOMAIN syms' = DOMAIN syms
      /\ \A j \in DOMAIN syms' : syms'[j].mod \in DOMAIN class
  BY <1>2, <1>3, <1>4, <1>5, PutSym
<1>7. seen' \subseteq SeenRecs
  <2>1. Note(i, d, "used")
    BY DEF Install
  <2> QED BY <1>1, <1>2, <2>1, NoteType DEF Fates
<1>8. entries' \in Seq(Nat) /\ \A k \in DOMAIN entries' : entries'[k] \in DOMAIN syms'
  <2>1. entries' = entries \/ entries' = Append(entries, i)
    BY DEF Install, entrysym
  <2>2. entries \in Seq(Nat) /\ \A k \in DOMAIN entries : entries[k] \in DOMAIN syms
    BY DEF TypeOK, Shape, NoDangling
  <2>3. CASE entries' = entries
    BY <1>6, <2>2, <2>3
  <2>4. CASE entries' = Append(entries, i)
    BY <1>2, <1>6, <2>2, <2>4
  <2> QED BY <2>1, <2>3, <2>4
<1>9. SymStep(i)
  BY <1>1, <1>2, <1>6, <1>7, <1>8
     DEF SymStep, Install, NextDesc, TypeOK, Shape, NoDangling, SpareRecs
<1> QED BY <1>9, SymStepType

(* So does another definition, warned about or kept by redsym. *)
LEMMA RedefineType ==
  ASSUME TypeOK, NEW d \in Descs(script), Redefine(d)
  PROVE  TypeOK'
<1> DEFINE i == findsym(d.name)
           o == Owned(i, d)
<1>1. d \in SymDescs /\ class # <<>> /\ NextDesc(d) /\ ~Fresh(d) /\ Refer(i)
  BY InputAssumption DEF TypeOK, Shape, Redefine, NextDesc
<1>2. i \in DOMAIN syms /\ i \in Nat
  <2>1. i \in DOMAIN syms
    BY <1>1, FindsymKnown DEF Fresh
  <2> QED BY <2>1, SymsType
<1>3. modlast \in DOMAIN class /\ modlast \in ModIds
  BY <1>1, BoundAssumption DEF TypeOK, Shape, modlast, ModIds
<1>4. syms[i] \in SymRecs /\ syms[i].mod \in DOMAIN class
  BY <1>2, SymsType DEF TypeOK, NoDangling
<1>5. CASE /\ syms' = Widened(i, d) /\ Note(i, d, "warned")
           /\ UNCHANGED red
  <2>1. SymStep(i)
    BY <1>1, <1>5, WidenStep DEF Redefine, Fates
  <2> QED BY <2>1, SymStepType
<1>6. CASE /\ syms' = [Widened(i, d) EXCEPT ![i].mod = o.own.mod,
                                            ![i].value = o.own.value]
           /\ red' = Append(red, o.spare)
           /\ Note(i, d, "used")
  <2>1. /\ o.own \in SpareRecs /\ o.own.mod \in DOMAIN class
        /\ o.spare \in SpareRecs /\ o.spare.mod \in DOMAIN class
        /\ o.spare.sym = i
    <3>1. d.value \in Nat /\ syms[i].value \in Nat /\ syms[i].mod \in ModIds
      BY <1>1, <1>4 DEF SymDescs, SymRecs
    <3>2. Spare(i, modlast, d.value) \in SpareRecs
      BY <1>2, <1>3, <3>1 DEF Spare, SpareRecs
    <3>3. Spare(i, syms[i].mod, syms[i].value) \in SpareRecs
      BY <1>2, <3>1 DEF Spare, SpareRecs
    <3> QED BY <1>3, <1>4, <3>2, <3>3 DEF Owned, Spare
  <2> DEFINE e == [syms[i] EXCEPT !.seg = TableSeg(i, d), !.mod = o.own.mod,
                                  !.value = o.own.value]
  <2> HIDE DEF o
  <2>2. e \in SymRecs /\ e.mod = o.own.mod
    <3>1. TableSeg(i, d) \in 0..AnySeg
      BY <1>1, <1>2, SegsType
    <3>2. o.own.mod \in ModIds /\ o.own.value \in Nat
      BY <2>1 DEF SpareRecs
    <3> QED BY <1>4, <3>1, <3>2 DEF SymRecs
  <2>3. syms' = [syms EXCEPT ![i] = e]
    BY <1>2, <1>4, <1>6, SymsType DEF Widened, SymRecs
  <2> HIDE DEF e
  <2>4. /\ syms' \in Seq(SymRecs) /\ DOMAIN syms' = DOMAIN syms
        /\ \A j \in DOMAIN syms' : syms'[j].mod \in DOMAIN class
    BY <1>2, <2>1, <2>2, <2>3, PutSym
  <2>5. seen' \subseteq SeenRecs
    BY <1>1, <1>2, <1>6, NoteType DEF Fates
  <2>6. /\ red' \in Seq(SpareRecs)
        /\ \A k \in DOMAIN red' : red'[k].sym \in DOMAIN syms /\ red'[k].mod \in DOMAIN class
    <3>1. /\ red \in Seq(SpareRecs)
          /\ \A k \in DOMAIN red : red[k].sym \in DOMAIN syms /\ red[k].mod \in DOMAIN class
      BY DEF TypeOK, Shape, NoDangling, SpareRecs
    <3> QED BY <1>2, <1>6, <2>1, <3>1
  <2>7. SymStep(i)
    BY <1>1, <1>2, <2>4, <2>5, <2>6
       DEF SymStep, Redefine, NextDesc, TypeOK, Shape, NoDangling
  <2> QED BY <2>7, SymStepType
<1> QED BY <1>5, <1>6 DEF Redefine

(* Adding the script's ENTRY and _main to the entry list does too. *)
LEMMA StartLinkType ==
  ASSUME TypeOK, StartLink
  PROVE  TypeOK'
<1>0. UNCHANGED <<script, class, symparray, syms, red, seen, walkVars, scanVars>>
  BY DEF StartLink
<1>1. CASE UNCHANGED entries
  <2>1. MainToAdd' = MainToAdd /\ NullEntrylast' = NullEntrylast
    BY <1>0, <1>1 DEF MainToAdd, NullEntrylast, WithEntry, Known, Externals, External, findsym
  <2>2. phase' \in {"fatal", "crash", "pass"} /\ phase = "read"
        /\ (phase' = "crash" => MainToAdd /\ NullEntrylast)
    BY DEF StartLink
  <2>3. NoDangling'
    BY <1>0, <1>1, <2>1, <2>2 DEF TypeOK, NoDangling, walkVars
  <2> QED BY <1>0, <1>1, <2>2, <2>3 DEF TypeOK, Shape, walkVars, scanVars
<1>2. CASE EntryDefined /\ phase' = "pass" /\ entries' # entries
  <2>1. entries \in Seq(Nat) /\ \A k \in DOMAIN entries : entries[k] \in DOMAIN syms
    BY DEF TypeOK, Shape, NoDangling
  <2>2. script.entry # NoName => findsym(script.entry) \in DOMAIN syms
    BY <1>2, FindsymKnown DEF EntryDefined, Defined, Known
  <2>3. Known(Main) => findsym(Main) \in DOMAIN syms
    BY FindsymKnown
  <2>4. DOMAIN syms \subseteq Nat
    BY SymsType
  <2>5. WithEntry \in Seq(Nat) /\ \A k \in DOMAIN WithEntry : WithEntry[k] \in DOMAIN syms
    <3>1. CASE script.entry = NoName
      BY <2>1, <3>1 DEF WithEntry
    <3>2. CASE script.entry # NoName
      BY <2>1, <2>2, <2>4, <3>2 DEF WithEntry
    <3> QED BY <3>1, <3>2
  <2>6. \/ entries' = WithEntry
        \/ Known(Main) /\ entries' = Append(WithEntry, findsym(Main))
    BY <1>2 DEF StartLink, MainToAdd
  <2>7. entries' \in Seq(Nat) /\ \A k \in DOMAIN entries' : entries'[k] \in DOMAIN syms
    <3>1. CASE entries' = WithEntry
      BY <2>5, <3>1
    <3>2. CASE Known(Main) /\ entries' = Append(WithEntry, findsym(Main))
      BY <2>3, <2>4, <2>5, <3>2
    <3> QED BY <2>6, <3>1, <3>2
  <2> QED BY <1>0, <1>2, <2>7 DEF TypeOK, Shape, NoDangling, StartLink, walkVars, scanVars
<1> QED BY <1>1, <1>2 DEF StartLink

(* The owner of a symbol of the table is a module that was read. *)
LEMMA OwnerType ==
  ASSUME TypeOK, NEW i \in DOMAIN syms
  PROVE  Owner(i) \in DOMAIN class /\ Owner(i) \in ModIds
BY SymsType DEF TypeOK, NoDangling, Owner, SymRecs

(* The roots of a statement and of start are modules that were read. *)
LEMMA StmtRootsType ==
  ASSUME TypeOK, NEW st
  PROVE  StmtRoots(st) \subseteq DOMAIN class /\ StartRoots \subseteq DOMAIN class
<1>1. ASSUME NEW n, Known(n) PROVE Owner(findsym(n)) \in DOMAIN class
  BY <1>1, FindsymKnown, OwnerType
<1> QED BY <1>1 DEF StmtRoots, StartRoots, Defined

(* The modules read have indices among the possible ones. *)
LEMMA ClassDomain ==
  ASSUME TypeOK
  PROVE  DOMAIN class = 1..Len(class) /\ DOMAIN class \subseteq ModIds
BY BoundAssumption, SMTT(30) DEF TypeOK, Shape, ModIds

(* Roots are modules that were read, and each is the business of a call. *)
LEMMA RootModsType ==
  ASSUME TypeOK
  PROVE  /\ Len(entries) \in Nat /\ Len(script.roots) \in Nat /\ NCalls \in Nat
         /\ \A k \in 1..NCalls : RootMods(k) \subseteq DOMAIN class
         /\ \A k \in 1..NCalls : ~ByScript(k) => \A x, y \in RootMods(k) : x = y
         /\ Roots \subseteq UNION {RootMods(k) : k \in 1..NCalls}
<1> DEFINE n == Len(entries)
           r == Len(script.roots)
<1>1. /\ n \in Nat /\ DOMAIN entries = 1..n
      /\ \A k \in 1..n : entries[k] \in DOMAIN syms
  BY SMTT(30) DEF TypeOK, Shape, NoDangling
<1>2. r \in Nat /\ DOMAIN script.roots = 1..r
  BY ScriptAssumption DEF TypeOK, Shape
<1>3. \A k \in 1..n : Owner(entries[k]) \in DOMAIN class
  BY <1>1, OwnerType
<1>4. NCalls = n + r + 1
  BY DEF NCalls
<1>5. \A k : StmtRoots(script.roots[k]) \subseteq DOMAIN class
  BY StmtRootsType
<1>6. StartRoots \subseteq DOMAIN class /\ \A x, y \in StartRoots : x = y
  BY StmtRootsType DEF StartRoots
<1>7. \A k \in 1..n : RootMods(k) = {Owner(entries[k])}
  BY <1>1 DEF RootMods
<1>8. \A k \in 1..r : RootMods(n + k) = StmtRoots(script.roots[k])
  <2> TAKE k \in 1..r
  <2>1. ~(n + k <= n) /\ n + k <= n + r /\ n + k - n = k
    BY <1>1, <1>2
  <2> QED BY <2>1 DEF RootMods
<1>9. RootMods(n + r + 1) = StartRoots
  <2>1. ~(n + r + 1 <= n) /\ ~(n + r + 1 <= n + r)
    BY <1>1, <1>2
  <2> QED BY <2>1 DEF RootMods
<1>10. \A k \in 1..NCalls : RootMods(k) \subseteq DOMAIN class
  BY <1>1, <1>3, <1>5, <1>6 DEF RootMods
<1>11. \A k \in 1..NCalls : ~ByScript(k) => \A x, y \in RootMods(k) : x = y
  BY <1>1, <1>2, <1>4, <1>6 DEF RootMods, ByScript
<1>12. Roots \subseteq UNION {RootMods(k) : k \in 1..NCalls}
  <2> SUFFICES ASSUME NEW x \in Roots
               PROVE  \E k \in 1..NCalls : x \in RootMods(k)
    OBVIOUS
  <2>1. CASE \E k \in 1..n : x = Owner(entries[k])
    BY <1>1, <1>2, <1>4, <1>7, <2>1
  <2>2. CASE \E k \in 1..r : x \in StmtRoots(script.roots[k])
    <3>1. PICK k \in 1..r : x \in StmtRoots(script.roots[k])
      BY <2>2
    <3>2. n + k \in 1..NCalls
      BY <1>1, <1>2, <1>4
    <3> QED BY <1>8, <3>1, <3>2
  <2>3. CASE x \in StartRoots
    BY <1>1, <1>2, <1>4, <1>9, <2>3
  <2>4. \/ \E k \in DOMAIN entries : x = Owner(entries[k])
        \/ \E k \in DOMAIN script.roots : x \in StmtRoots(script.roots[k])
        \/ x \in StartRoots
    BY DEF Roots
  <2> HIDE DEF n, r
  <2> QED BY <1>1, <1>2, <2>1, <2>2, <2>3, <2>4
<1> QED BY <1>1, <1>2, <1>4, <1>10, <1>11, <1>12

-----------------------------------------------------------------------------
(***************************************************************************)
(* The actions of linksyms.                                                *)
(***************************************************************************)
(* Clearing all loadflags at the start of a round keeps them well formed. *)
LEMMA BeginRoundType ==
  ASSUME TypeOK, BeginRound
  PROVE  TypeOK'
<1>1. Shape'
  BY DEF TypeOK, Shape, BeginRound, readVars, scanVars
<1>2. stack = <<>> /\ stack' = stack
  BY DEF TypeOK, NoDangling, BeginRound
<1>3. loaded' \subseteq DOMAIN class
  BY DEF TypeOK, NoDangling, BeginRound
<1>4. NoDangling'
  BY <1>2, <1>3 DEF TypeOK, NoDangling, BeginRound, readVars
<1> QED BY <1>1, <1>4 DEF TypeOK

(* A call of linkrefs for a module that was read. *)
LEMMA EnterType ==
  ASSUME TypeOK, NEW m \in DOMAIN class, Enter(m, stack)
  PROVE  /\ stack' \in Seq(ModIds) /\ loaded' \subseteq DOMAIN class
         /\ loaded' \subseteq ModIds
         /\ \A k \in DOMAIN stack' : stack'[k] \in loaded'
<1>1. m \in ModIds
  BY ClassDomain
<1>2. /\ stack \in Seq(ModIds) /\ loaded \subseteq DOMAIN class
      /\ loaded \subseteq ModIds /\ \A k \in DOMAIN stack : stack[k] \in loaded
  BY DEF TypeOK, Shape, NoDangling
<1>3. stack' = Append(stack, m) /\ loaded' = loaded \union {m}
  BY DEF Enter
<1> QED BY <1>1, <1>2, <1>3

(* The calls of linkrefs made by linksyms keep them well formed. *)
LEMMA WalkRootType ==
  ASSUME TypeOK, WalkRoot
  PROVE  TypeOK'
<1>1. CASE call' = call + 1 /\ UNCHANGED <<loaded, stack, pos>>
  <2>1. call' \in Nat \ {0}
    BY <1>1 DEF TypeOK, Shape
  <2> QED BY <1>1, <2>1 DEF TypeOK, Shape, NoDangling, WalkRoot, readVars, scanVars
<1>2. ASSUME NEW m \in RootMods(call), Enter(m, stack),
             pos' = [pos EXCEPT ![m] = 1],
             call' = IF ByScript(call) THEN call ELSE call + 1
      PROVE  TypeOK'
  <2>1. call \in 1..NCalls /\ call' \in Nat \ {0}
    BY <1>2, RootModsType DEF WalkRoot, TypeOK, Shape
  <2>2. m \in DOMAIN class /\ m \in ModIds
    BY <1>2, <2>1, RootModsType, ClassDomain
  <2>3. /\ stack' \in Seq(ModIds) /\ loaded' \subseteq DOMAIN class
        /\ loaded' \subseteq ModIds
        /\ \A k \in DOMAIN stack' : stack'[k] \in loaded'
    BY <1>2, <2>2, EnterType
  <2>4. pos' \in [ModIds -> Nat \ {0}]
    BY <1>2, <2>2 DEF TypeOK, Shape
  <2>5. Shape'
    BY <2>1, <2>3, <2>4 DEF TypeOK, Shape, WalkRoot, readVars, scanVars
  <2>6. NoDangling'
    BY <2>3 DEF TypeOK, NoDangling, WalkRoot, readVars, scanVars
  <2> QED BY <2>5, <2>6 DEF TypeOK
<1> QED BY <1>1, <1>2 DEF WalkRoot

(* The innermost active call and the symbol its loop is at. *)
LEMMA TopType ==
  ASSUME TypeOK, Walk
  PROVE  LET m == stack[Len(stack)]
         IN  /\ Len(stack) \in DOMAIN stack /\ m \in loaded /\ m \in ModIds
             /\ m \in DOMAIN class
             /\ symparray[m] \in Seq(Nat) /\ pos[m] \in Nat \ {0}
             /\ ~AllRefsSeen(m) =>
                  /\ pos[m] \in DOMAIN symparray[m]
                  /\ symparray[m][pos[m]] \in DOMAIN syms
                  /\ Owner(symparray[m][pos[m]]) \in DOMAIN class
                  /\ Owner(symparray[m][pos[m]]) \in ModIds
<1> DEFINE m == stack[Len(stack)]
<1>1. stack \in Seq(ModIds) /\ stack # <<>>
  BY DEF TypeOK, Shape, Walk
<1>2. Len(stack) \in DOMAIN stack
  BY <1>1
<1>3. m \in loaded /\ m \in ModIds /\ m \in DOMAIN class
  BY <1>2, ClassDomain DEF TypeOK, NoDangling
<1> HIDE DEF m
<1>4. symparray[m] \in Seq(Nat) /\ pos[m] \in Nat \ {0}
  BY <1>3 DEF TypeOK, Shape
<1>5. ASSUME ~AllRefsSeen(m)
      PROVE  pos[m] \in DOMAIN symparray[m] /\ symparray[m][pos[m]] \in DOMAIN syms
  <2>1. pos[m] \in DOMAIN symparray[m]
    BY <1>4, <1>5 DEF AllRefsSeen
  <2> QED BY <1>3, <2>1 DEF TypeOK, NoDangling
<1>6. ASSUME ~AllRefsSeen(m)
      PROVE  /\ Owner(symparray[m][pos[m]]) \in DOMAIN class
             /\ Owner(symparray[m][pos[m]]) \in ModIds
  BY <1>5, <1>6, OwnerType
<1> QED BY <1>2, <1>3, <1>4, <1>5, <1>6 DEF m

(* One turn of the loop of linkrefs keeps them well formed. *)
LEMMA WalkType ==
  ASSUME TypeOK, Walk
  PROVE  TypeOK'
<1> DEFINE m == stack[Len(stack)]
           o == Owner(symparray[m][pos[m]])
<1>1. /\ m \in loaded /\ m \in ModIds /\ pos[m] \in Nat \ {0}
      /\ ~AllRefsSeen(m) => o \in DOMAIN class /\ o \in ModIds
  BY TopType
<1>2. stack \in Seq(ModIds) /\ stack # <<>>
  BY DEF TypeOK, Shape, Walk
<1>3. \A k \in DOMAIN stack : stack[k] \in loaded
  BY DEF TypeOK, NoDangling
<1>4. CASE /\ stack' = SubSeq(stack, 1, Len(stack) - 1)
           /\ UNCHANGED <<loaded, pos>>
  <2>1. stack' \in Seq(ModIds) /\ \A k \in DOMAIN stack' : stack'[k] \in loaded
    BY <1>2, <1>3, <1>4
  <2> QED BY <1>4, <2>1 DEF TypeOK, Shape, NoDangling, Walk, readVars, scanVars
<1>5. CASE /\ pos' = [pos EXCEPT ![m] = @ + 1]
           /\ UNCHANGED <<loaded, stack>>
  <2> HIDE DEF m
  <2>1. pos' \in [ModIds -> Nat \ {0}]
    BY <1>1, <1>5 DEF TypeOK, Shape
  <2> QED BY <1>5, <2>1 DEF TypeOK, Shape, NoDangling, Walk, readVars, scanVars
<1>6. CASE /\ ~AllRefsSeen(m)
           /\ pos' = [pos EXCEPT ![m] = @ + 1, ![o] = 1]
           /\ Enter(o, stack)
  <2> HIDE DEF m, o
  <2>1. pos' \in [ModIds -> Nat \ {0}]
    <3>1. pos \in [ModIds -> Nat \ {0}] /\ pos[m] + 1 \in Nat \ {0}
      BY <1>1 DEF TypeOK, Shape
    <3> QED BY <1>1, <1>6, <3>1
  <2>2. /\ stack' \in Seq(ModIds) /\ loaded' \subseteq DOMAIN class
        /\ loaded' \subseteq ModIds
        /\ \A k \in DOMAIN stack' : stack'[k] \in loaded'
    BY <1>1, <1>6, EnterType
  <2> QED BY <1>6, <2>1, <2>2 DEF TypeOK, Shape, NoDangling, Walk, readVars, scanVars
<1> QED BY <1>4, <1>5, <1>6 DEF Walk

(* No pointer dangles when the tables, the phase and the walk stay.        *)
LEMMA StayNoDangling ==
  ASSUME NoDangling, UNCHANGED <<phase, script, readVars, walkVars>>
  PROVE  NoDangling'
<1>1. MainToAdd' = MainToAdd /\ NullEntrylast' = NullEntrylast
  BY DEF MainToAdd, NullEntrylast, WithEntry, Known, Externals, External, findsym, readVars
<1> QED BY <1>1 DEF NoDangling, readVars, walkVars

(* The steps of the scan that move nothing keep them well formed. *)
LEMMA ScanKeepType ==
  ASSUME TypeOK, BeginScan \/ ScanKeep \/ EndRound \/ Finished
  PROVE  TypeOK'
<1>1. scan' \in Nat \ {0}
  <2>1. scan \in Nat /\ scan # 0
    BY DEF TypeOK, Shape
  <2>2. scan' = scan \/ scan' = 1 \/ scan' = scan + 1
    BY DEF BeginScan, ScanKeep, EndRound, Finished, vars, scanVars
  <2> QED BY <2>1, <2>2
<1>2. Shape'
  BY <1>1 DEF TypeOK, Shape, BeginScan, ScanKeep, EndRound, Finished, vars,
              readVars, walkVars, scanVars
<1>3. NoDangling'
  <2>1. CASE BeginScan \/ ScanKeep \/ EndRound
    BY <2>1 DEF TypeOK, NoDangling, BeginScan, ScanKeep, EndRound, readVars, walkVars
  <2>2. CASE Finished
    <3>1. UNCHANGED <<phase, script, readVars, walkVars>>
      BY <2>2 DEF Finished, vars
    <3> QED BY <3>1, StayNoDangling DEF TypeOK
  <2> QED BY <2>1, <2>2
<1> QED BY <1>2, <1>3 DEF TypeOK

(* Removing one element of a sequence. *)
LEMMA Without ==
  ASSUME NEW S, NEW s \in Seq(S), NEW i \in 1..Len(s)
  PROVE  /\ Unlink(s, i) \in Seq(S)
         /\ \A k \in DOMAIN Unlink(s, i) :
              \E j \in DOMAIN s : Unlink(s, i)[k] = s[j]
<1> DEFINE t == Unlink(s, i)
           a == SubSeq(s, 1, i - 1)
           b == SubSeq(s, i + 1, Len(s))
<1>1. /\ a \in Seq(S) /\ Len(a) = i - 1
      /\ \A k \in 1..(i - 1) : a[k] = s[k]
  OBVIOUS
<1>2. /\ b \in Seq(S) /\ Len(b) = Len(s) - i
      /\ \A k \in 1..(Len(s) - i) : b[k] = s[i + k]
  OBVIOUS
<1>3. t = a \o b
  BY DEF Unlink
<1> HIDE DEF a, b, t
<1>n. i \in Nat /\ Len(s) \in Nat /\ 1 <= i /\ i <= Len(s)
  OBVIOUS
<1>4. /\ t \in Seq(S) /\ Len(t) = Len(s) - 1
      /\ \A k \in 1..(Len(s) - 1) : t[k] = IF k <= i - 1 THEN a[k] ELSE b[k - (i - 1)]
  <2>1. /\ a \o b \in Seq(S) /\ Len(a \o b) = Len(a) + Len(b)
        /\ \A k \in 1..(Len(a) + Len(b)) :
             (a \o b)[k] = IF k <= Len(a) THEN a[k] ELSE b[k - Len(a)]
    BY <1>1, <1>2, ConcatProperties
  <2>2. Len(a) + Len(b) = Len(s) - 1
    BY <1>1, <1>2, <1>n
  <2> QED BY <1>1, <1>3, <2>1, <2>2
<1>5. ASSUME NEW k \in DOMAIN t PROVE \E j \in DOMAIN s : t[k] = s[j]
  <2>1. k \in 1..(Len(s) - 1)
    BY <1>4, <1>n, LenProperties
  <2>2. CASE k <= i - 1
    <3>1. t[k] = s[k] /\ k \in DOMAIN s
      BY <1>1, <1>4, <1>n, <2>1, <2>2, SMTT(30)
    <3> QED BY <3>1
  <2>3. CASE ~(k <= i - 1)
    <3>1. k - (i - 1) \in 1..(Len(s) - i) /\ i + (k - (i - 1)) = k + 1
      BY <1>n, <2>1, <2>3
    <3>2. k + 1 \in DOMAIN s
      BY <1>n, <2>1
    <3>3. t[k] = b[k - (i - 1)]
      BY <1>4, <2>1, <2>3
    <3>4. b[k - (i - 1)] = s[i + (k - (i - 1))]
      BY <1>2, <3>1
    <3>5. t[k] = s[k + 1]
      BY <3>1, <3>3, <3>4
    <3> QED BY <3>2, <3>5
  <2> QED BY <2>2, <2>3
<1> QED BY <1>4, <1>5 DEF t

(* Moving a symbol to a spare definition keeps them well formed. *)
LEMMA ScanMoveType ==
  ASSUME TypeOK, ScanMove
  PROVE  /\ TypeOK'
         /\ red[scan].mod \in loaded /\ red[scan].sym \in DOMAIN syms
         /\ DOMAIN syms' = DOMAIN syms
         /\ \A j \in DOMAIN syms :
              syms'[j].mod = IF j = red[scan].sym THEN red[scan].mod ELSE syms[j].mod
         /\ \A j \in DOMAIN syms :
              syms'[j].name = syms[j].name /\ syms'[j].kind = syms[j].kind
<1> DEFINE r == red[scan]
           e == [syms[r.sym] EXCEPT !.mod = r.mod, !.value = r.value]
<1>1. red \in Seq(SpareRecs) /\ scan \in 1..Len(red) /\ scan \in Nat \ {0}
  BY DEF TypeOK, Shape, SpareRecs, ScanMove
<1>2. \A k \in DOMAIN red : red[k].sym \in DOMAIN syms /\ red[k].mod \in DOMAIN class
  BY DEF TypeOK, NoDangling
<1>3. r \in SpareRecs /\ r.sym \in DOMAIN syms /\ r.mod \in DOMAIN class
  BY <1>1, <1>2
<1>4. r.mod \in loaded /\ syms' = [syms EXCEPT ![r.sym].mod = r.mod, ![r.sym].value = r.value]
  BY DEF ScanMove, Better
<1> HIDE DEF r
<1>5. syms[r.sym] \in SymRecs
  BY <1>3, SymsType
<1>6. /\ e \in SymRecs /\ e.mod = r.mod
      /\ e.name = syms[r.sym].name /\ e.kind = syms[r.sym].kind
  BY <1>3, <1>5 DEF SymRecs, SpareRecs
<1>7. syms' = [syms EXCEPT ![r.sym] = e]
  BY <1>3, <1>4, <1>5, SymsType DEF SymRecs
<1> HIDE DEF e
<1>8. /\ syms' \in Seq(SymRecs) /\ DOMAIN syms' = DOMAIN syms
      /\ \A j \in DOMAIN syms' : syms'[j].mod \in DOMAIN class
      /\ \A j \in DOMAIN syms : syms'[j] = IF j = r.sym THEN e ELSE syms[j]
  BY <1>3, <1>6, <1>7, PutSym
<1>9. /\ red' \in Seq(SpareRecs) /\ scan' \in Nat \ {0}
      /\ \A k \in DOMAIN red' : red'[k].sym \in DOMAIN syms /\ red'[k].mod \in DOMAIN class
  <2>1. CASE red' = Unlink(red, scan) /\ UNCHANGED scan
    <3>1. red' \in Seq(SpareRecs) /\ \A k \in DOMAIN red' : \E j \in DOMAIN red : red'[k] = red[j]
      BY <1>1, <2>1, Without
    <3> QED BY <1>1, <1>2, <2>1, <3>1
  <2>2. CASE UNCHANGED red /\ scan' = scan + 1
    BY <1>1, <1>2, <2>2, SMTT(30)
  <2> QED BY <2>1, <2>2 DEF ScanMove
<1>10. Shape'
  BY <1>8, <1>9 DEF TypeOK, Shape, ScanMove, SymRecs, SpareRecs, walkVars
<1>11. NoDangling'
  BY <1>8, <1>9 DEF TypeOK, NoDangling, ScanMove, walkVars
<1> QED BY <1>3, <1>4, <1>6, <1>8, <1>10, <1>11 DEF TypeOK, r

(* A step that reads a symbol reads one that the link may be given. *)
LEMMA DescRead ==
  ASSUME NEW d, AddSym(d) \/ SkipMismatch(d) \/ SkipImport(d) \/ Install(d) \/ Redefine(d)
  PROVE  d \in Descs(script)
BY DEF AddSym, SkipMismatch, SkipImport, Install, Redefine, NextDesc

(* The tables stay well formed, whatever is read and linked. *)
THEOREM TypeInvariant == Spec => []TypeOK
<1>1. Init => TypeOK
  BY InitTypeOK
<1>2. TypeOK /\ [Next]_vars => TypeOK'
  <2> SUFFICES ASSUME TypeOK, [Next]_vars PROVE TypeOK'
    OBVIOUS
  <2>1. CASE UNCHANGED vars
    <3>1. NoDangling'
      BY <2>1, StayNoDangling DEF vars, TypeOK
    <3> QED BY <2>1, <3>1 DEF vars, readVars, walkVars, scanVars, TypeOK, Shape
  <2>2. ASSUME NEW c \in Classes(script), ReadModule(c) PROVE TypeOK'
    BY <2>2, ReadModuleType
  <2>3. ASSUME NEW d \in Descs(script), AddSym(d) PROVE TypeOK'
    BY <2>3, AddSymType
  <2>4. ASSUME NEW d \in Descs(script), SkipMismatch(d) \/ SkipImport(d) PROVE TypeOK'
    BY <2>4, SkipType
  <2>5. ASSUME NEW d \in Descs(script), Install(d) PROVE TypeOK'
    BY <2>5, InstallType
  <2>6. ASSUME NEW d \in Descs(script), Redefine(d) PROVE TypeOK'
    BY <2>6, RedefineType
  <2>7. CASE StartLink
    BY <2>7, StartLinkType
  <2>8. CASE BeginRound
    BY <2>8, BeginRoundType
  <2>9. CASE WalkRoot
    BY <2>9, WalkRootType
  <2>10. CASE Walk
    BY <2>10, WalkType
  <2>11. CASE BeginScan \/ ScanKeep \/ EndRound \/ Finished
    BY <2>11, ScanKeepType
  <2>12. CASE ScanMove
    BY <2>12, ScanMoveType
  <2> QED BY <2>1, <2>2, <2>3, <2>4, <2>5, <2>6, <2>7, <2>8, <2>9, <2>10,
             <2>11, <2>12, DescRead DEF Next
<1> QED BY <1>1, <1>2, PTL DEF Spec
-----------------------------------------------------------------------------
(***************************************************************************)
(* WalkInv.                                                                *)
(***************************************************************************)

(* Before the first round, WalkInv says nothing. *)
LEMMA WalkInvIdle ==
  ASSUME phase' \in {"read", "pass", "fatal", "crash"}
  PROVE  WalkInv'
BY DEF WalkInv

(* A round starts with WalkInv: nothing is loaded, no root is done. *)
LEMMA BeginRoundInv ==
  ASSUME TypeOK, BeginRound
  PROVE  WalkInv'
<1>1. CASE phase' = "fatal"
  BY <1>1, WalkInvIdle
<1>2. CASE loaded' = {} /\ call' = 1 /\ phase' = "walk"
  BY <1>2 DEF WalkInv
<1> QED BY <1>1, <1>2 DEF BeginRound

(* What a step of the walk keeps: the graph and the roots. *)
LEMMA WalkFrame ==
  ASSUME UNCHANGED <<script, readVars>>
  PROVE  /\ \A i : Owner(i)' = Owner(i)
         /\ \A k : RootMods(k)' = RootMods(k)
         /\ NCalls' = NCalls /\ symparray' = symparray
BY DEF readVars, Owner, RootMods, StmtRoots, StartRoots, Defined, Known,
       findsym, Externals, External, NCalls

(* A call of linkrefs by linksyms keeps WalkInv. *)
LEMMA WalkRootInv ==
  ASSUME TypeOK, WalkInv, WalkRoot
  PROVE  WalkInv'
<1>0. UNCHANGED <<script, readVars>> /\ phase = "walk" /\ phase' = "walk"
  BY DEF WalkRoot
<1>1. /\ \A i : Owner(i)' = Owner(i) /\ \A k : RootMods(k)' = RootMods(k)
      /\ NCalls' = NCalls /\ symparray' = symparray
  BY <1>0, WalkFrame
<1>2. call \in 1..NCalls /\ stack = <<>>
  BY RootModsType DEF WalkRoot, TypeOK, Shape
<1>3. /\ \A m \in loaded : \A k \in DOMAIN symparray[m] :
           k < pos[m] => Owner(symparray[m][k]) \in loaded
      /\ \A m \in loaded : AllRefsSeen(m) \/ \E k \in DOMAIN stack : stack[k] = m
      /\ \A k \in 1..(call - 1) : RootMods(k) \subseteq loaded
  BY <1>0 DEF WalkInv
<1>4. CASE /\ (IF ByScript(call) THEN RootMods(call) \ loaded ELSE RootMods(call)) = {}
           /\ call' = call + 1
           /\ UNCHANGED <<loaded, stack, pos>>
  <2>1. RootMods(call) \subseteq loaded
    BY <1>4
  <2>2. \A k \in 1..(call' - 1) : RootMods(k) \subseteq loaded
    BY <1>2, <1>3, <1>4, <2>1
  <2> QED BY <1>0, <1>1, <1>3, <1>4, <2>2 DEF WalkInv, AllRefsSeen
<1>5. ASSUME NEW m \in RootMods(call), Enter(m, stack),
             pos' = [pos EXCEPT ![m] = 1],
             call' = IF ByScript(call) THEN call ELSE call + 1
      PROVE  WalkInv'
  <2>1. loaded' = loaded \union {m} /\ stack' = <<m>>
    BY <1>2, <1>5 DEF Enter
  <2>2. m \in ModIds /\ pos' \in [ModIds -> Nat \ {0}] /\ pos'[m] = 1
    BY <1>2, <1>5, RootModsType, ClassDomain DEF TypeOK, Shape
  <2>3. \A n \in loaded' : n # m => n \in loaded /\ n \in ModIds /\ pos'[n] = pos[n]
    BY <1>5, <2>1 DEF TypeOK, Shape
  <2>4. \A n \in loaded' : \A k \in DOMAIN symparray[n] :
          k < pos'[n] => Owner(symparray[n][k]) \in loaded'
    <3> TAKE n \in loaded'
    <3> TAKE k \in DOMAIN symparray[n]
    <3>1. CASE n = m
      <4>1. symparray[m] \in Seq(Nat)
        BY <2>2 DEF TypeOK, Shape
      <4>2. k \in Nat /\ k >= 1
        BY <3>1, <4>1
      <4> QED BY <2>2, <3>1, <4>2
    <3>2. CASE n # m
      BY <1>3, <2>1, <2>3, <3>2
    <3> QED BY <3>1, <3>2
  <2>5. \A n \in loaded' : (pos'[n] > Len(symparray[n])) \/ \E k \in DOMAIN stack' : stack'[k] = n
    <3> TAKE n \in loaded'
    <3>1. CASE n = m
      BY <2>1, <3>1
    <3>2. CASE n # m
      BY <1>2, <1>3, <2>3, <3>2 DEF AllRefsSeen
    <3> QED BY <3>1, <3>2
  <2>6. \A k \in 1..(call' - 1) : RootMods(k) \subseteq loaded'
    <3>1. CASE ByScript(call)
      BY <1>3, <1>5, <2>1, <3>1
    <3>2. CASE ~ByScript(call)
      <4>1. RootMods(call) \subseteq loaded'
        BY <1>2, <1>5, <2>1, <3>2, RootModsType
      <4>2. call' = call + 1
        BY <1>5, <3>2
      <4> QED BY <1>2, <1>3, <2>1, <4>1, <4>2
    <3> QED BY <3>1, <3>2
  <2> QED BY <1>0, <1>1, <2>4, <2>5, <2>6 DEF WalkInv, AllRefsSeen
<1> QED BY <1>4, <1>5 DEF WalkRoot

(* One turn of the loop of linkrefs keeps WalkInv. *)
LEMMA WalkStepInv ==
  ASSUME TypeOK, WalkInv, Walk
  PROVE  WalkInv'
<1> DEFINE m == stack[Len(stack)]
           o == Owner(symparray[m][pos[m]])
<1>0. UNCHANGED <<script, readVars, call>> /\ phase = "walk" /\ phase' = "walk"
  BY DEF Walk
<1>1. /\ \A i : Owner(i)' = Owner(i) /\ \A k : RootMods(k)' = RootMods(k)
      /\ NCalls' = NCalls /\ symparray' = symparray
  BY <1>0, WalkFrame
<1>2. /\ \A n \in loaded : \A k \in DOMAIN symparray[n] :
           k < pos[n] => Owner(symparray[n][k]) \in loaded
      /\ \A n \in loaded : (pos[n] > Len(symparray[n])) \/ \E k \in DOMAIN stack : stack[k] = n
      /\ \A k \in 1..(call - 1) : RootMods(k) \subseteq loaded
  BY <1>0 DEF WalkInv, AllRefsSeen
<1>3. /\ m \in loaded /\ m \in ModIds /\ pos[m] \in Nat \ {0}
      /\ symparray[m] \in Seq(Nat)
      /\ ~AllRefsSeen(m) => o \in ModIds
  BY TopType
<1>4. /\ stack \in Seq(ModIds) /\ stack # <<>> /\ pos \in [ModIds -> Nat \ {0}]
      /\ loaded \subseteq ModIds
      /\ symparray \in [ModIds -> Seq(Nat)]
  BY DEF TypeOK, Shape, Walk
<1>5. CASE /\ AllRefsSeen(m)
           /\ stack' = SubSeq(stack, 1, Len(stack) - 1)
           /\ UNCHANGED <<loaded, pos>>
  <2>1. \A n \in loaded : (pos[n] > Len(symparray[n])) \/ \E k \in DOMAIN stack' : stack'[k] = n
    <3> TAKE n \in loaded
    <3>1. CASE n = m
      BY <1>5, <3>1 DEF AllRefsSeen
    <3>2. CASE n # m /\ ~(pos[n] > Len(symparray[n]))
      <4>1. PICK k \in DOMAIN stack : stack[k] = n
        BY <1>2, <3>2
      <4>2. k \in 1..(Len(stack) - 1)
        BY <1>4, <3>2, <4>1, SMTT(30)
      <4>3. stack'[k] = stack[k] /\ k \in DOMAIN stack'
        BY <1>4, <1>5, <4>2
      <4> QED BY <4>1, <4>3
    <3> QED BY <3>1, <3>2
  <2> QED BY <1>0, <1>1, <1>2, <1>5, <2>1 DEF WalkInv, AllRefsSeen
<1>6. CASE /\ o \in loaded
           /\ ~AllRefsSeen(m)
           /\ pos' = [pos EXCEPT ![m] = @ + 1]
           /\ UNCHANGED <<loaded, stack>>
  <2> HIDE DEF m
  <2>1. \A n \in loaded : pos'[n] = IF n = m THEN pos[m] + 1 ELSE pos[n]
    BY <1>3, <1>4, <1>6
  <2>2. \A n \in loaded : \A k \in DOMAIN symparray[n] :
          k < pos'[n] => Owner(symparray[n][k]) \in loaded
    <3> TAKE n \in loaded
    <3> TAKE k \in DOMAIN symparray[n]
    <3>1. CASE n = m
      <4>1. k \in Nat
        BY <1>3, <3>1
      <4>2. CASE k < pos[m]
        BY <1>2, <3>1, <4>2
      <4>3. CASE k = pos[m]
        BY <1>6, <3>1, <4>3
      <4> QED BY <1>3, <2>1, <3>1, <4>1, <4>2, <4>3
    <3>2. CASE n # m
      BY <1>2, <2>1, <3>2
    <3> QED BY <3>1, <3>2
  <2>3. \E k \in DOMAIN stack : stack[k] = m
    <3>1. Len(stack) \in DOMAIN stack
      BY <1>4
    <3> QED BY <3>1 DEF m
  <2>4. \A n \in loaded : (pos'[n] > Len(symparray[n])) \/ \E k \in DOMAIN stack : stack[k] = n
    BY <1>2, <2>1, <2>3
  <2> QED BY <1>0, <1>1, <1>2, <1>6, <2>2, <2>4 DEF WalkInv, AllRefsSeen
<1>7. CASE /\ o \notin loaded
           /\ ~AllRefsSeen(m)
           /\ pos' = [pos EXCEPT ![m] = @ + 1, ![o] = 1]
           /\ Enter(o, stack)
  <2>0. stack[Len(stack)] = m
    OBVIOUS
  <2>o. o = Owner(symparray[m][pos[m]])
    OBVIOUS
  <2> HIDE DEF m
  <2>1. loaded' = loaded \union {o} /\ stack' = Append(stack, o) /\ o # m /\ o \in ModIds
    BY <1>3, <1>7 DEF Enter
  <2> HIDE DEF o
  <2>2. \A n \in loaded' : pos'[n] = IF n = o THEN 1 ELSE IF n = m THEN pos[m] + 1 ELSE pos[n]
    BY <1>3, <1>4, <1>7, <2>1
  <2>3. \A n \in loaded' : \A k \in DOMAIN symparray[n] :
          k < pos'[n] => Owner(symparray[n][k]) \in loaded'
    <3> TAKE n \in loaded'
    <3> TAKE k \in DOMAIN symparray[n]
    <3>0. k \in Nat /\ k >= 1
      BY <1>4, <2>1, SMTT(30)
    <3>1. CASE n = o
      BY <2>2, <3>0, <3>1
    <3>2. CASE n = m
      <4>1. CASE k < pos[m]
        BY <1>2, <1>3, <2>1, <3>2, <4>1
      <4>2. CASE k = pos[m]
        BY <2>o, <2>1, <3>2, <4>2
      <4>3. pos'[n] = pos[m] + 1
        BY <2>1, <2>2, <3>2
      <4> QED BY <1>3, <3>0, <4>1, <4>2, <4>3
    <3>3. CASE n # o /\ n # m
      BY <1>2, <2>1, <2>2, <3>3
    <3> QED BY <3>1, <3>2, <3>3
  <2>4. \A k \in DOMAIN stack : k \in DOMAIN stack' /\ stack'[k] = stack[k]
    BY <1>4, <2>1
  <2>5. \E k \in DOMAIN stack' : stack'[k] = o
    <3>1. Len(stack) + 1 \in DOMAIN stack' /\ stack'[Len(stack) + 1] = o
      BY <1>4, <2>1
    <3> QED BY <3>1
  <2>6. \E k \in DOMAIN stack : stack[k] = m
    <3>1. Len(stack) \in DOMAIN stack
      BY <1>4
    <3> QED BY <2>0, <3>1
  <2>7. \A n \in loaded' : (pos'[n] > Len(symparray[n])) \/ \E k \in DOMAIN stack' : stack'[k] = n
    <3> TAKE n \in loaded'
    <3>1. CASE n = o
      BY <2>5, <3>1
    <3>2. CASE n = m
      BY <2>4, <2>6, <3>2
    <3>3. CASE n # o /\ n # m
      <4>1. n \in loaded /\ pos'[n] = pos[n]
        BY <2>1, <2>2, <3>3
      <4> QED BY <1>2, <2>4, <4>1
    <3> QED BY <3>1, <3>2, <3>3
  <2>8. \A k \in 1..(call - 1) : RootMods(k) \subseteq loaded'
    BY <1>2, <2>1
  <2> QED BY <1>0, <1>1, <2>3, <2>7, <2>8 DEF WalkInv, AllRefsSeen
<1> QED BY <1>5, <1>6, <1>7 DEF Walk

(* Moving a symbol to a loaded module loads nothing new and drops nothing: *)
(* whoever owned the symbol, its owner is now loaded.                      *)
LEMMA ScanMoveInv ==
  ASSUME TypeOK, WalkInv, ScanMove
  PROVE  WalkInv'
<1> DEFINE r == red[scan]
<1>0. /\ phase = "scan" /\ phase' = "scan"
      /\ UNCHANGED <<script, class, symparray, entries, loaded, call, stack, pos>>
  BY DEF ScanMove, walkVars
<1>1. /\ \A n \in loaded : \A k \in DOMAIN symparray[n] :
           k < pos[n] => Owner(symparray[n][k]) \in loaded
      /\ \A n \in loaded : (pos[n] > Len(symparray[n])) \/ \E k \in DOMAIN stack : stack[k] = n
      /\ \A k \in 1..(call - 1) : RootMods(k) \subseteq loaded
      /\ call > NCalls
  BY <1>0 DEF WalkInv, AllRefsSeen
<1>2. /\ r.mod \in loaded /\ DOMAIN syms' = DOMAIN syms
      /\ \A j \in DOMAIN syms :
           syms'[j].mod = IF j = r.sym THEN r.mod ELSE syms[j].mod
      /\ \A j \in DOMAIN syms :
           syms'[j].name = syms[j].name /\ syms'[j].kind = syms[j].kind
  BY ScanMoveType
<1> HIDE DEF r
<1>3. \A j \in DOMAIN syms : Owner(j) \in loaded => syms'[j].mod \in loaded
  BY <1>2 DEF Owner
<1>4. \A n : Externals(n)' = Externals(n)
  BY <1>2 DEF Externals, External
<1>5. \A n : findsym(n)' = findsym(n) /\ Known(n)' = Known(n)
  BY <1>4 DEF findsym, Known
<1>6. \A n : Defined(n)' = Defined(n)
  BY <1>2, <1>5, FindsymKnown DEF Defined
<1>7. \A n : Known(n) /\ Owner(findsym(n)) \in loaded => syms'[findsym(n)].mod \in loaded
  BY <1>3, FindsymKnown
<1>8. \A st : StmtRoots(st) \subseteq loaded => StmtRoots(st)' \subseteq loaded
  <2> TAKE st
  <2>1. CASE st.kind = "keep"
    BY <1>0, <2>1 DEF StmtRoots
  <2>2. CASE st.kind # "keep" /\ Defined(st.name)
    BY <1>5, <1>6, <1>7, <2>2 DEF StmtRoots, Owner, Defined
  <2>3. CASE st.kind # "keep" /\ ~Defined(st.name)
    BY <1>6, <2>3 DEF StmtRoots
  <2> QED BY <2>1, <2>2, <2>3
<1>9. StartRoots \subseteq loaded => StartRoots' \subseteq loaded
  BY <1>5, <1>7 DEF StartRoots, Owner
<1>10. NCalls' = NCalls
  BY <1>0 DEF NCalls
<1>11. \A k \in Nat \ {0} : RootMods(k) \subseteq loaded => RootMods(k)' \subseteq loaded
  <2> TAKE k \in Nat \ {0}
  <2>0. Len(entries) \in Nat /\ NCalls \in Nat
    BY RootModsType
  <2>1. CASE k <= Len(entries)
    <3>1. entries[k] \in DOMAIN syms
      BY <2>0, <2>1 DEF TypeOK, Shape, NoDangling
    <3>2. RootMods(k) = {Owner(entries[k])} /\ RootMods(k)' = {syms'[entries[k]].mod}
      BY <1>0, <2>1 DEF RootMods, Owner
    <3> QED BY <1>3, <3>1, <3>2
  <2>2. CASE ~(k <= Len(entries)) /\ k <= Len(entries) + Len(script.roots)
    <3>1. RootMods(k) = StmtRoots(script.roots[k - Len(entries)])
      BY <2>2 DEF RootMods
    <3>2. RootMods(k)' = StmtRoots(script.roots[k - Len(entries)])'
      BY <1>0, <2>2 DEF RootMods
    <3> QED BY <1>0, <1>8, <3>1, <3>2
  <2>3. CASE ~(k <= Len(entries)) /\ ~(k <= Len(entries) + Len(script.roots))
    <3>1. RootMods(k) = StartRoots /\ RootMods(k)' = StartRoots'
      BY <1>0, <2>3 DEF RootMods
    <3> QED BY <1>9, <3>1
  <2> QED BY <2>1, <2>2, <2>3
<1>12. \A k \in 1..(call' - 1) : RootMods(k)' \subseteq loaded
  <2>1. call' = call /\ call \in Nat
    BY <1>0 DEF TypeOK, Shape
  <2>2. \A k \in 1..(call - 1) : k \in Nat \ {0}
    BY <2>1
  <2> QED BY <1>1, <1>11, <2>1, <2>2
<1>13. \A n \in loaded : \A k \in DOMAIN symparray[n] :
         k < pos[n] => syms'[symparray[n][k]].mod \in loaded
  BY <1>1, <1>3 DEF TypeOK, Shape, NoDangling
<1> QED BY <1>0, <1>1, <1>10, <1>12, <1>13 DEF WalkInv, AllRefsSeen, Owner

(* The steps that change neither the tables nor the walk. *)
LEMMA ScanKeepInv ==
  ASSUME TypeOK, WalkInv, BeginScan \/ ScanKeep \/ EndRound \/ Finished
  PROVE  WalkInv'
<1>0. UNCHANGED <<script, readVars, walkVars>>
  BY DEF BeginScan, ScanKeep, EndRound, Finished, vars
<1>1. /\ \A i : Owner(i)' = Owner(i) /\ \A k : RootMods(k)' = RootMods(k)
      /\ NCalls' = NCalls /\ symparray' = symparray
  BY <1>0, WalkFrame
<1>2. \/ phase \in {"walk", "scan", "done"} /\ (phase = "walk" => call > NCalls)
      \/ phase' \in {"read", "pass", "fatal", "crash"}
  BY DEF BeginScan, ScanKeep, EndRound, Finished, vars
<1>3. CASE phase' \in {"read", "pass", "fatal", "crash"}
  BY <1>3, WalkInvIdle
<1>4. CASE phase \in {"walk", "scan", "done"} /\ (phase = "walk" => call > NCalls)
  <2>1. /\ \A n \in loaded : \A k \in DOMAIN symparray[n] :
             k < pos[n] => Owner(symparray[n][k]) \in loaded
        /\ \A n \in loaded : (pos[n] > Len(symparray[n])) \/ \E k \in DOMAIN stack : stack[k] = n
        /\ \A k \in 1..(call - 1) : RootMods(k) \subseteq loaded
        /\ call > NCalls
    BY <1>4 DEF WalkInv, AllRefsSeen
  <2> QED BY <1>0, <1>1, <2>1 DEF WalkInv, AllRefsSeen, walkVars
<1> QED BY <1>2, <1>3, <1>4

(* Reading object files happens before any round. *)
LEMMA ReadingInv ==
  ASSUME Next, phase = "read"
  PROVE  phase' \in {"read", "pass", "fatal", "crash"}
BY DEF Next, ReadModule, AddSym, SkipMismatch, SkipImport, Install, Redefine,
       StartLink, BeginRound, WalkRoot, Walk, BeginScan, ScanKeep, ScanMove,
       EndRound, Finished, vars

(* The recursion of linkrefs never leaves a reference unfollowed. *)
THEOREM WalkInvariant == Spec => [](TypeOK /\ WalkInv)
<1>1. Init => WalkInv
  BY DEF Init, WalkInv
<1>2. TypeOK /\ WalkInv /\ [Next]_vars => WalkInv'
  <2> SUFFICES ASSUME TypeOK, WalkInv, [Next]_vars PROVE WalkInv'
    OBVIOUS
  <2>1. CASE UNCHANGED vars
    <3>1. UNCHANGED <<script, readVars, walkVars, phase>>
      BY <2>1 DEF vars
    <3>2. /\ \A i : Owner(i)' = Owner(i) /\ \A k : RootMods(k)' = RootMods(k)
          /\ NCalls' = NCalls /\ symparray' = symparray
      BY <3>1, WalkFrame
    <3> QED BY <3>1, <3>2 DEF WalkInv, AllRefsSeen, walkVars
  <2>2. CASE Next /\ phase = "read"
    BY <2>2, ReadingInv, WalkInvIdle
  <2>3. CASE Next /\ phase # "read"
    <3>1. \/ BeginRound \/ WalkRoot \/ Walk \/ BeginScan
          \/ ScanKeep \/ ScanMove \/ EndRound \/ Finished
      BY <2>3 DEF Next, ReadModule, AddSym, SkipMismatch, SkipImport, Install,
                  Redefine, NextDesc, StartLink
    <3>2. CASE BeginRound
      BY <3>2, BeginRoundInv
    <3>3. CASE WalkRoot
      BY <3>3, WalkRootInv
    <3>4. CASE Walk
      BY <3>4, WalkStepInv
    <3>5. CASE BeginScan \/ ScanKeep \/ EndRound \/ Finished
      BY <3>5, ScanKeepInv
    <3>6. CASE ScanMove
      BY <3>6, ScanMoveInv
    <3> QED BY <3>1, <3>2, <3>3, <3>4, <3>5, <3>6, SMTT(30)
  <2> QED BY <2>1, <2>2, <2>3
<1> QED BY <1>1, <1>2, TypeInvariant, PTL DEF Spec

(* linksyms returns with the roots loaded and with every reference of a    *)
(* loaded module owned by a loaded module.                                 *)
THEOREM LinkClosedTheorem == Spec => []LinkClosed
<1>1. TypeOK /\ WalkInv => LinkClosed
  <2> SUFFICES ASSUME TypeOK, WalkInv, phase = "done" PROVE Closed(loaded)
    BY DEF LinkClosed
  <2>1. stack = <<>> /\ call > NCalls /\ call \in Nat /\ NCalls \in Nat
    BY RootModsType DEF TypeOK, Shape, NoDangling, WalkInv
  <2>2. \A m \in loaded : \A k \in DOMAIN symparray[m] :
          Owner(symparray[m][k]) \in loaded
    <3> TAKE m \in loaded
    <3> TAKE k \in DOMAIN symparray[m]
    <3>1. symparray[m] \in Seq(Nat) /\ pos[m] \in Nat
      BY DEF TypeOK, Shape
    <3>2. AllRefsSeen(m)
      BY <2>1 DEF WalkInv
    <3>3. k < pos[m]
      BY <3>1, <3>2 DEF AllRefsSeen
    <3> QED BY <3>3 DEF WalkInv
  <2>3. \A k \in 1..NCalls : RootMods(k) \subseteq loaded
    <3>1. \A k \in 1..NCalls : k \in 1..(call - 1)
      BY <2>1
    <3> QED BY <3>1 DEF WalkInv
  <2>4. Roots \subseteq loaded
    <3>1. Roots \subseteq UNION {RootMods(k) : k \in 1..NCalls}
      BY RootModsType
    <3> QED BY <2>3, <3>1
  <2> QED BY <2>2, <2>4 DEF Closed, Refs
<1> QED BY <1>1, WalkInvariant, PTL
=============================================================================
