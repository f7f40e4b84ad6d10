------------------------------ MODULE LinkSyms ------------------------------
(***************************************************************************)
(* Symbol resolution and module selection in ld01.                         *)
(*                                                                         *)
(* ld/readobj.c reads every module of every object file into one symbol    *)
(* table: it decides which module owns an external symbol, keeps spare     *)
(* definitions of other classes on the redefinition list, and collects the *)
(* entry symbols.  ld/linksyms.c then marks the modules reachable from the *)
(* roots, moves symbols to higher class definitions that got loaded, and   *)
(* repeats until nothing moves.                                            *)
(*                                                                         *)
(* The object files are the environment: ReadModule and ReadSym choose the *)
(* next module header and the next symbol descriptor.  A symbol is known   *)
(* by its index in the table, a module by its index in reading order.      *)
(***************************************************************************)
EXTENDS Naturals, Sequences

CONSTANTS
  Names,      \* symbol names that occur in the object files
  Main,       \* the name _main
  Start,      \* the name start
  NoName,     \* a script without an ENTRY command
  Classes(_), \* module classes, given the script of the link
  Descs(_),   \* the symbol descriptors its object files may hold
  Scripts,    \* linker scripts: [entry, roots]
  MaxMods,    \* bound: modules read
  MaxSyms     \* bound: symbols of one module

AnySeg == 15  \* SEGM_MASK: any segment

Kinds == {"exp", "imp", "local"}      \* E_MASK, I_MASK, neither
Rels == {"abs", "rel"}                \* A_MASK or not

SymDescs ==
  [name : Names, kind : Kinds, rel : Rels, seg : 0..AnySeg,
   entry : BOOLEAN, value : Nat]

Fates == {"used", "warned"}           \* read without or with a warning

RootStmts ==
  [kind : {"keep"}, match : SUBSET Nat] \union [kind : {"assert"}, name : Names]

ASSUME BoundAssumption == MaxMods \in Nat /\ MaxSyms \in Nat

ASSUME InputAssumption ==
  \A s \in Scripts : Classes(s) \subseteq Nat /\ Descs(s) \subseteq SymDescs

ASSUME ScriptAssumption ==
  /\ NoName \notin Names
  /\ \A s \in Scripts : /\ s.entry \in Names \union {NoName}
                        /\ s.roots \in Seq(RootStmts)

VARIABLES
  phase,      \* where main() is: read, pass, walk, scan, done, fatal or crash
  script,     \* the linker script in use
  class,      \* class of each module, in reading order
  symparray,  \* the symbols each module refers to, in its object file's order
  syms,       \* the symbol table
  entries,    \* the entry symbol list
  red,        \* the redefinition list
  seen,       \* history: every symbol descriptor read and what became of it
  loaded,     \* modules whose loadflag is set
  call,       \* the next call of linkrefs by linksyms, counted from 1
  stack,      \* active calls of linkrefs
  pos,        \* the loop variable symparray of each module's linkrefs
  scan,       \* position in the redefinition list
  prev,       \* whether prlptr is on the list or was just unlinked
  needlink    \* a symbol moved in this scan

readVars == <<class, symparray, syms, entries, red, seen>>
walkVars == <<loaded, call, stack, pos>>
scanVars == <<scan, prev, needlink>>
vars == <<phase, script, readVars, walkVars, scanVars>>

ModIds == 1..MaxMods
modlast == Len(class)
ClassOf(m) == class[m]

(***************************************************************************)
(* findsym, and the segment check of readmodule: a descriptor or a table   *)
(* entry whose segment is AnySeg takes the other's segment.                *)
(***************************************************************************)
MutExternalDefinedOnly(i, n) == syms[i].name = n /\ syms[i].kind = "exp"
External(i, n) == syms[i].name = n /\ syms[i].kind # "local"
Externals(n) == {i \in DOMAIN syms : External(i, n)}
Known(n) == Externals(n) # {}
findsym(n) == CHOOSE i \in Externals(n) : TRUE

TableSeg(i, d) == IF syms[i].seg = AnySeg THEN d.seg ELSE syms[i].seg
DescSeg(i, d) ==
  IF syms[i].seg # AnySeg /\ d.seg = AnySeg THEN syms[i].seg ELSE d.seg
Mismatch(i, d) ==
  syms[i].rel # d.rel \/ TableSeg(i, d) # DescSeg(i, d)
Widened(i, d) == [syms EXCEPT ![i].seg = TableSeg(i, d)]

Symbol(d, seg, m) ==
  [name |-> d.name, kind |-> d.kind, rel |-> d.rel, seg |-> seg,
   value |-> d.value, mod |-> m]

(* The loop's "*symparray++ = symptr", run for every descriptor. *)
Refer(i) ==
  /\ symparray' = [symparray EXCEPT ![modlast] = Append(@, i)]
  /\ UNCHANGED class

Note(i, d, fate) ==
  seen' = seen \union
    {[sym |-> i, mod |-> modlast, kind |-> d.kind, value |-> d.value, fate |-> fate]}

entrysym(i, wanted) ==
  entries' = IF wanted /\ \A k \in DOMAIN entries : entries[k] # i
             THEN Append(entries, i)
             ELSE entries

Init ==
  /\ phase = "read"
  /\ script \in Scripts
  /\ class = <<>> /\ symparray = [m \in ModIds |-> <<>>]
  /\ syms = <<>> /\ entries = <<>> /\ red = <<>>
  /\ seen = {}
  /\ loaded = {} /\ call = 1 /\ stack = <<>>
  /\ pos = [m \in ModIds |-> 1]
  /\ scan = 1 /\ prev = "live" /\ needlink = 0

(***************************************************************************)
(* Reading object files (readsyms, readmodule).                            *)
(***************************************************************************)
ReadModule(c) ==
  /\ phase = "read"
  /\ Len(class) < MaxMods
  /\ class' = Append(class, c)
  /\ UNCHANGED <<phase, script, symparray, syms, entries, red, seen, walkVars, scanVars>>

(* The next descriptor of the module being read; as01 writes a symbol once. *)
NextDesc(d) ==
  /\ phase = "read"
  /\ class # <<>> /\ d \in Descs(script)
  /\ LET refs == symparray[modlast]
     IN  /\ Len(refs) < MaxSyms
         /\ \A k \in DOMAIN refs : syms[refs[k]].name # d.name

Fresh(d) == d.kind = "local" \/ ~Known(d.name)

(* A local symbol, or the first sight of an external one: addsym. *)
AddSym(d) ==
  /\ NextDesc(d)
  /\ Fresh(d)
  /\ LET i == Len(syms) + 1
     IN  /\ syms' = Append(syms, Symbol(d, d.seg, modlast))
         /\ Refer(i) /\ Note(i, d, "used") /\ entrysym(i, d.entry)
  /\ UNCHANGED <<phase, script, red, walkVars, scanVars>>

(* "redefined with different segment or relocatability": warn and skip. *)
SkipMismatch(d) ==
  /\ NextDesc(d)
  /\ ~Fresh(d)
  /\ LET i == findsym(d.name)
     IN  /\ Mismatch(i, d)
         /\ syms' = Widened(i, d)
         /\ Refer(i) /\ Note(i, d, "warned")
  /\ UNCHANGED <<phase, script, entries, red, walkVars, scanVars>>

MutFewer(i, d) == d.value >= syms[i].value
NoLarger(i, d) == d.value <= syms[i].value

(* An import of a defined symbol, or one asking for no more common space. *)
SkipImport(d) ==
  /\ NextDesc(d)
  /\ ~Fresh(d)
  /\ d.kind = "imp"
  /\ LET i == findsym(d.name)
     IN  /\ ~Mismatch(i, d)
         /\ syms[i].kind = "exp" \/ NoLarger(i, d)
         /\ syms' = Widened(i, d)
         /\ Refer(i) /\ Note(i, d, "used")
  /\ UNCHANGED <<phase, script, entries, red, walkVars, scanVars>>

(* A definition, or a larger common request, for a symbol only imported. *)
Install(d) ==
  /\ NextDesc(d)
  /\ ~Fresh(d)
  /\ LET i == findsym(d.name)
     IN  /\ ~Mismatch(i, d)
         /\ syms[i].kind = "imp"
         /\ d.kind = "imp" => ~NoLarger(i, d)
         /\ syms' = [syms EXCEPT ![i] = Symbol(d, DescSeg(i, d), modlast)]
         /\ Refer(i) /\ Note(i, d, "used") /\ entrysym(i, d.entry)
  /\ UNCHANGED <<phase, script, red, walkVars, scanVars>>

(* redsym's test: another definition of this class is already known. *)
SameClassKnown(i) ==
  \/ ClassOf(syms[i].mod) = ClassOf(modlast)
  \/ \E k \in DOMAIN red : /\ red[k].sym = i
                           /\ ClassOf(red[k].mod) = ClassOf(modlast)

Spare(i, m, v) == [sym |-> i, mod |-> m, value |-> v]

(* redsym: the lower class owns the symbol, the other goes on the list. *)
MutHigherOwns(i, d) ==
  [own |-> Spare(i, syms[i].mod, syms[i].value),
   spare |-> Spare(i, modlast, d.value)]
MutValueNotSaved(i, d) ==
  IF ClassOf(syms[i].mod) < ClassOf(modlast)
  THEN [own |-> Spare(i, syms[i].mod, syms[i].value),
        spare |-> Spare(i, modlast, d.value)]
  ELSE [own |-> Spare(i, modlast, d.value),
        spare |-> Spare(i, syms[i].mod, d.value)]
Owned(i, d) ==
  IF ClassOf(syms[i].mod) < ClassOf(modlast)
  THEN [own |-> Spare(i, syms[i].mod, syms[i].value),
        spare |-> Spare(i, modlast, d.value)]
  ELSE [own |-> Spare(i, modlast, d.value),
        spare |-> Spare(i, syms[i].mod, syms[i].value)]

(* Another definition of a defined symbol. *)
Redefine(d) ==
  /\ NextDesc(d)
  /\ ~Fresh(d)
  /\ d.kind = "exp"
  /\ LET i == findsym(d.name)
         o == Owned(i, d)
     IN  /\ ~Mismatch(i, d)
         /\ syms[i].kind = "exp"
         /\ Refer(i)
         /\ \/ /\ SameClassKnown(i)              \* "redefined": warn
               /\ syms' = Widened(i, d)
               /\ Note(i, d, "warned")
               /\ UNCHANGED red
            \/ /\ ~SameClassKnown(i)
               /\ syms' = [Widened(i, d) EXCEPT ![i].mod = o.own.mod,
                                                ![i].value = o.own.value]
               /\ red' = Append(red, o.spare)
               /\ Note(i, d, "used")
  /\ UNCHANGED <<phase, script, entries, walkVars, scanVars>>

(***************************************************************************)
(* script_set_entry, and the first lines of linksyms: the script's ENTRY   *)
(* goes before, _main after the entry symbols of the object files.         *)
(* script_set_entry leaves entrylast alone: while the object files have no *)
(* entry symbol it is still null, and entrysym writes through it for _main.*)
(***************************************************************************)
Defined(n) == Known(n) /\ syms[findsym(n)].kind = "exp"

EntryDefined == script.entry = NoName \/ Defined(script.entry)

WithEntry ==
  IF script.entry = NoName THEN entries ELSE <<findsym(script.entry)>> \o entries

MainToAdd ==
  Known(Main) /\ \A k \in DOMAIN WithEntry : WithEntry[k] # findsym(Main)

NullEntrylast == script.entry # NoName /\ entries = <<>>

StartLink ==
  /\ phase = "read"
  /\ class # <<>>
  /\ \/ /\ ~EntryDefined
        /\ phase' = "fatal"
        /\ UNCHANGED entries
     \/ /\ EntryDefined
        /\ MainToAdd /\ NullEntrylast
        /\ phase' = "crash"
        /\ UNCHANGED entries
     \/ /\ EntryDefined
        /\ MainToAdd /\ ~NullEntrylast
        /\ phase' = "pass"
        /\ entries' = Append(WithEntry, findsym(Main))
     \/ /\ EntryDefined
        /\ ~MainToAdd
        /\ phase' = "pass"
        /\ entries' = WithEntry
  /\ UNCHANGED <<script, class, symparray, syms, red, seen, walkVars, scanVars>>

(***************************************************************************)
(* One round of linksyms.  The roots: each entry symbol's module, for each *)
(* statement of the script the modules it keeps or uses in an ASSERT, and  *)
(* the module of start.  Entry symbols and start are walked in any case, a *)
(* script root only if it is not loaded yet.                               *)
(***************************************************************************)
Owner(i) == syms[i].mod

StmtRoots(s) ==
  IF s.kind = "keep"
  THEN s.match \intersect DOMAIN class
  ELSE IF Defined(s.name) THEN {Owner(findsym(s.name))} ELSE {}

StartRoots == IF Known(Start) THEN {Owner(findsym(Start))} ELSE {}

(* The modules the k-th call is about, of the NCalls of one round. *)
RootMods(k) ==
  IF k <= Len(entries)
  THEN {Owner(entries[k])}
  ELSE IF k <= Len(entries) + Len(script.roots)
       THEN StmtRoots(script.roots[k - Len(entries)])
       ELSE StartRoots

ByScript(k) == k > Len(entries) /\ k <= Len(entries) + Len(script.roots)

MutStartForgotten == Len(entries) + Len(script.roots)
NCalls == Len(entries) + Len(script.roots) + 1

BeginRound ==
  /\ phase = "pass"
  /\ \/ /\ entries = <<>>                      \* "no start symbol"
        /\ phase' = "fatal"
        /\ UNCHANGED <<loaded, call>>
     \/ /\ entries # <<>>
        /\ phase' = "walk"
        /\ loaded' = {}
        /\ call' = 1
  /\ UNCHANGED <<script, readVars, stack, pos, scanVars>>

(* A call of linkrefs: set loadflag, start at the first of symparray. *)
MutNoRecursion(m, calls) == loaded' = loaded \union {m} /\ stack' = calls
MutNoLoadflag(m, calls) == loaded' = loaded /\ stack' = Append(calls, m)
Enter(m, calls) ==
  /\ loaded' = loaded \union {m}
  /\ stack' = Append(calls, m)

WalkRoot ==
  /\ phase = "walk"
  /\ stack = <<>>
  /\ call <= NCalls
  /\ LET left == IF ByScript(call) THEN RootMods(call) \ loaded ELSE RootMods(call)
     IN  \/ /\ left = {}
            /\ call' = call + 1
            /\ UNCHANGED <<loaded, stack, pos>>
         \/ \E m \in left :
              /\ \A k \in left : m <= k
              /\ Enter(m, stack)
              /\ pos' = [pos EXCEPT ![m] = 1]
              /\ call' = IF ByScript(call) THEN call ELSE call + 1
  /\ UNCHANGED <<phase, script, readVars, scanVars>>

AllRefsSeen(m) == pos[m] > Len(symparray[m])

(* One turn of the loop in the innermost linkrefs, or its return. *)
Walk ==
  /\ phase = "walk"
  /\ stack # <<>>
  /\ LET m == stack[Len(stack)]
         refs == symparray[m]
     IN  \/ /\ AllRefsSeen(m)
            /\ stack' = SubSeq(stack, 1, Len(stack) - 1)
            /\ UNCHANGED <<loaded, pos>>
         \/ /\ ~AllRefsSeen(m)
            /\ LET o == Owner(refs[pos[m]])
               IN  \/ /\ o \in loaded
                      /\ pos' = [pos EXCEPT ![m] = @ + 1]
                      /\ UNCHANGED <<loaded, stack>>
                   \/ /\ o \notin loaded
                      /\ pos' = [pos EXCEPT ![m] = @ + 1, ![o] = 1]
                      /\ Enter(o, stack)
  /\ UNCHANGED <<phase, script, readVars, call, scanVars>>

MutNeedlinkKept ==
  /\ phase = "walk" /\ stack = <<>> /\ call > NCalls
  /\ phase' = "scan"
  /\ scan' = 1 /\ prev' = "live"
  /\ UNCHANGED <<script, readVars, walkVars, needlink>>
BeginScan ==
  /\ phase = "walk"
  /\ stack = <<>>
  /\ call > NCalls
  /\ phase' = "scan"
  /\ scan' = 1 /\ prev' = "live" /\ needlink' = 0
  /\ UNCHANGED <<script, readVars, walkVars>>

(***************************************************************************)
(* The scan of the redefinition list.  prlptr follows rlptr even when the  *)
(* entry rlptr was on has just been unlinked; then unlinking the next one  *)
(* changes only the dead entry, and that next one stays on the list.       *)
(***************************************************************************)
MutLowerClassToo(r) == r.mod \in loaded /\ ClassOf(r.mod) # ClassOf(Owner(r.sym))
MutLowerClass(r) == r.mod \in loaded /\ ClassOf(r.mod) < ClassOf(Owner(r.sym))
Better(r) == r.mod \in loaded /\ ClassOf(r.mod) > ClassOf(Owner(r.sym))

Unlink(s, i) == SubSeq(s, 1, i - 1) \o SubSeq(s, i + 1, Len(s))

ScanKeep ==
  /\ phase = "scan"
  /\ scan <= Len(red)
  /\ ~Better(red[scan])
  /\ scan' = scan + 1
  /\ prev' = "live"
  /\ UNCHANGED <<phase, script, readVars, walkVars, needlink>>

ScanMove ==
  /\ phase = "scan"
  /\ scan <= Len(red)
  /\ LET r == red[scan]
     IN  /\ Better(r)
         /\ syms' = [syms EXCEPT ![r.sym].mod = r.mod, ![r.sym].value = r.value]
         /\ \/ /\ scan = 1 \/ prev = "live"
               /\ red' = Unlink(red, scan)
               /\ prev' = "unlinked"
               /\ UNCHANGED scan
            \/ /\ scan # 1 /\ prev = "unlinked"
               /\ scan' = scan + 1
               /\ prev' = "live"
               /\ UNCHANGED red
  /\ needlink' = 1
  /\ UNCHANGED <<phase, script, class, symparray, entries, seen, walkVars>>

MutNoRelink ==
  /\ phase = "scan" /\ scan > Len(red) /\ phase' = "done"
  /\ UNCHANGED <<script, readVars, walkVars, scanVars>>
EndRound ==
  /\ phase = "scan"
  /\ scan > Len(red)
  /\ phase' = IF needlink = 1 THEN "pass" ELSE "done"
  /\ UNCHANGED <<script, readVars, walkVars, scanVars>>

Finished == phase \in {"done", "fatal", "crash"} /\ UNCHANGED vars

AnyDescs == UNION {Descs(s) : s \in Scripts}
Next ==
  \/ \E c \in Classes(script) : ReadModule(c)
  \/ \E d \in AnyDescs : \/ AddSym(d) \/ SkipMismatch(d) \/ SkipImport(d)
                      \/ Install(d) \/ Redefine(d)
  \/ StartLink \/ BeginRound \/ WalkRoot \/ Walk \/ BeginScan
  \/ ScanKeep \/ ScanMove \/ EndRound
  \/ Finished

(* ld01 is one sequential process: it always takes its next step. *)
Spec == Init /\ [][Next]_vars /\ WF_vars(Next)
-----------------------------------------------------------------------------
(***************************************************************************)
(* Properties.                                                             *)
(***************************************************************************)
Roots ==
  {Owner(entries[k]) : k \in DOMAIN entries}
    \union (UNION {StmtRoots(script.roots[k]) : k \in DOMAIN script.roots})
    \union StartRoots
Refs(m) == {symparray[m][k] : k \in DOMAIN symparray[m]}
Closed(S) == Roots \subseteq S /\ \A m \in S : \A i \in Refs(m) : Owner(i) \in S
Definitions(i) == {e \in seen : e.sym = i /\ e.kind = "exp" /\ e.fate = "used"}

(* The values each variable may take, with the bounds on modules read.      *)
Shape ==
  /\ phase \in {"read", "pass", "walk", "scan", "done", "fatal", "crash"}
  /\ script \in Scripts
  /\ class \in Seq(Classes(script)) /\ Len(class) <= MaxMods
  /\ symparray \in [ModIds -> Seq(Nat)]
  /\ syms \in Seq([name : Names, kind : Kinds, rel : Rels,
                   seg : 0..AnySeg, value : Nat, mod : ModIds])
  /\ entries \in Seq(Nat)
  /\ red \in Seq([sym : Nat, mod : ModIds, value : Nat])
  /\ seen \subseteq [sym : Nat, mod : ModIds, kind : Kinds,
                     value : Nat, fate : Fates]
  /\ loaded \subseteq ModIds
  /\ call \in Nat \ {0}
  /\ stack \in Seq(ModIds)
  /\ pos \in [ModIds -> Nat \ {0}]
  /\ scan \in Nat \ {0}
  /\ prev \in {"live", "unlinked"} /\ needlink \in {0, 1}

(* No pointer of the linker's tables dangles: symparray, the entry list and *)
(* the redefinition list name symbols that exist, and symbols, spare        *)
(* definitions, loadflags and active calls of linkrefs name modules read.   *)
(* A null pointer is followed in one case only: entrylast, when the script  *)
(* has an ENTRY and no object file an entry symbol.                         *)
NoDangling ==
  /\ \A m \in ModIds : \A k \in DOMAIN symparray[m] :
       symparray[m][k] \in DOMAIN syms
  /\ \A i \in DOMAIN syms : syms[i].mod \in DOMAIN class
  /\ \A k \in DOMAIN entries : entries[k] \in DOMAIN syms
  /\ \A k \in DOMAIN red : red[k].sym \in DOMAIN syms /\ red[k].mod \in DOMAIN class
  /\ loaded \subseteq DOMAIN class
  /\ \A k \in DOMAIN stack : stack[k] \in loaded
  /\ phase # "walk" => stack = <<>>
  /\ phase = "crash" => NullEntrylast /\ MainToAdd

(* The tables are well formed: shapes, bounds and no dangling pointers.     *)
TypeOK == Shape /\ NoDangling

(* table.c:46, "caller must not duplicate names of externals for findsym()  *)
(* to work": readmodule never enters an external name twice.                *)
UniqueExternals ==
  \A i, j \in DOMAIN syms :
    External(i, syms[j].name) /\ syms[j].kind # "local" => i = j

(* A defined symbol's module and value, and those of every spare definition *)
(* on the redefinition list, come together from one definition that a       *)
(* module really made: redsym and linksyms never mix two of them.           *)
OwnerIsADefinition ==
  /\ \A i \in DOMAIN syms : syms[i].kind = "exp" =>
       \E e \in Definitions(i) : e.mod = syms[i].mod /\ e.value = syms[i].value
  /\ \A k \in DOMAIN red :
       \E e \in Definitions(red[k].sym) :
          e.mod = red[k].mod /\ e.value = red[k].value

(* Until the linking starts, the definition in use is the one of the lowest *)
(* class read so far ("prefer lower class"), in whatever order they came.   *)
LowestClassFirst ==
  phase = "read" =>
    \A i \in DOMAIN syms : syms[i].kind = "exp" =>
      \A e \in Definitions(i) : ClassOf(syms[i].mod) <= ClassOf(e.mod)

(* A symbol no module defines is common storage of the largest size asked.  *)
LargestCommonWins ==
  \A i \in DOMAIN syms : syms[i].kind = "imp" =>
    \A e \in seen : e.sym = i /\ e.fate = "used" => e.value <= syms[i].value

(* When linksyms returns, the loaded modules contain the roots and, for     *)
(* every symbol one of them refers to, the module that owns the symbol:     *)
(* write_elks relocates a symbol only while visiting its owner.             *)
LinkClosed == phase = "done" => Closed(loaded)

(* The invariant of linkrefs' recursion behind LinkClosed: behind the loop  *)
(* variable of every loaded module all owners are loaded, a module whose    *)
(* loop has not ended is on the stack, and the roots of earlier calls are   *)
(* loaded.  Moving symbols to loaded modules keeps it.                      *)
WalkInv ==
  phase \in {"walk", "scan", "done"} =>
    /\ \A m \in loaded : \A k \in DOMAIN symparray[m] :
         k < pos[m] => Owner(symparray[m][k]) \in loaded
    /\ \A m \in loaded : AllRefsSeen(m) \/ \E k \in DOMAIN stack : stack[k] = m
    /\ \A k \in 1..(call - 1) : RootMods(k) \subseteq loaded
    /\ phase # "walk" => call > NCalls

(* ... and nothing else is loaded: no module of an abandoned round stays.   *)
LinkMinimal ==
  phase = "done" =>
    \A S \in SUBSET loaded : Closed(S) => S = loaded

(* When linksyms returns, a symbol defined by several loaded modules is the *)
(* one of the highest class among them, as the scan's comparison intends.   *)
HighestLoadedWins ==
  phase = "done" =>
    \A i \in DOMAIN syms : \A e \in Definitions(i) :
      e.mod \in loaded => ClassOf(e.mod) <= ClassOf(syms[i].mod)

(* A definition is never lost: once a module defines a symbol, the symbol   *)
(* stays defined, and while linking its class never falls.                  *)
DefinitionKept ==
  [][\A i \in DOMAIN syms : syms[i].kind = "exp" =>
       /\ syms'[i].kind = "exp"
       /\ phase # "read" => ClassOf(syms'[i].mod) >= ClassOf(syms[i].mod)]_vars

(* linksyms terminates, if only by the null entrylast: the relinking loop   *)
(* cannot go round for ever.                                                *)
LinkTerminates == <>(phase \in {"done", "fatal", "crash"})
=============================================================================
