---------------------------- MODULE ScriptLayout ----------------------------
(***************************************************************************)
(* Placing modules as the linker script says (ld/script.c) and writing the *)
(* output file (ld/writex86.c: write_elks), after ScriptRead.              *)
(*                                                                         *)
(* script_mark_imports decides which symbols the script defines, common    *)
(* blocks are allocated, input sections ("pieces") are given to statements,*)
(* and layout passes are repeated until the addresses settle.  Then the    *)
(* a.out parts are found, the layout is checked, and the file is written   *)
(* and perhaps converted to records.                                       *)
(*                                                                         *)
(* Operators that may call script_error return a set: the value, or {} for *)
(* the fatal exit.                                                         *)
(***************************************************************************)
EXTENDS ScriptRead, SequencesExt

CONSTANTS
  Page,        \* bytes of a page: 0x100
  Space,       \* bytes of the address space: 0x10000
  MaxPasses    \* 10

VARIABLES
  kinds,     \* script symbols: which of plain, provide, hidden
  datapart,  \* sections of the a.out data part
  linked,    \* imports that the script satisfies
  errs,      \* errcount # 0: undefined symbols
  com,       \* comsize of each module and counter
  symoff,    \* value of each module symbol, within its piece
  taken,     \* pieces of each input statement
  psect,     \* section of each piece
  lay,       \* what layout passes compute
  prev,      \* what remember() keeps of the previous pass
  pass,
  parts,     \* a.out parts and the lowest load address
  image,     \* output file after any header: offset -> what is there
  records    \* after script_convert: address -> what is there

layVars == <<kinds, datapart, linked, errs, com, symoff, taken, psect>>
passVars == <<lay, prev, pass>>
outVars == <<parts, image, records>>
vars == <<phase, readVars, layVars, passVars, outVars>>

Segs == 0..(NSeg - 1)
Pieces == 1..(2 * NSeg * Len(job.mods))
Piece(m, seg, common) == 2 * NSeg * (m - 1) + 2 * seg + (IF common THEN 2 ELSE 1)
PMod(i) == (i - 1) \div (2 * NSeg) + 1
PSeg(i) == ((i - 1) % (2 * NSeg)) \div 2
PCommon(i) == i % 2 = 0
PSize(i) == IF PCommon(i) THEN com[PMod(i)][PSeg(i)] ELSE job.mods[PMod(i)][PSeg(i)]

InOrder(S) == SelectSeq([i \in Pieces |-> i], LAMBDA i : i \in S)

Sects == DOMAIN sects
NoLoad(i) == sects[i].noload

AllStmts ==
  FlattenSeq([i \in DOMAIN top |->
    IF top[i].k = "section" THEN Flat(sects[top[i].sect].body) ELSE <<top[i]>>])

(* How the script assigns a symbol: plainly, with PROVIDE, with HIDDEN. *)
KindsIn(stmts) ==
  LET A == {s \in Range(stmts) : s.k = "assign" /\ s.name # <<".">>}
  IN  [n \in {s.name : s \in A} |-> {s.akind : s \in {t \in A : t.name = n}}]
ssyms == DOMAIN kinds
Has(n, akind) == akind \in kinds[n]

Init ==
  /\ ReadInit
  /\ kinds = <<>> /\ datapart = {} /\ linked = {} /\ errs = FALSE
  /\ com = [m \in DOMAIN job.mods |-> [seg \in Segs |-> 0]]
  /\ symoff = [i \in DOMAIN job.tab |-> job.tab[i].value]
  /\ taken = <<>> /\ psect = <<>>
  /\ lay = <<>> /\ prev = <<>> /\ pass = 0
  /\ parts = <<>> /\ image = <<>> /\ records = <<>>

Fatal == phase' = "error" /\ UNCHANGED <<readVars, layVars, passVars, outVars>>

(***************************************************************************)
(* script_mark_imports                                                     *)
(***************************************************************************)
moddefined(n) == \E s \in Range(job.tab) : s.name = n /\ s.kind # "imp"
Imported(n) == \E s \in Range(job.tab) : s.name = n /\ s.kind = "imp"

Takes(s, piece) == s.k = "input" /\ piece \in s.secs
takesdata(i) ==
  \E s \in Range(Flat(sects[i].body)) : \E seg \in 2..(NSeg - 1), c \in BOOLEAN :
    Takes(s, <<seg, c>>)

(* __name_start, __name_end and __name_load, if a module imports them. *)
Auto(kind, n) == <<kind, n>>
MutLoadIsAddr(kind, n) ==
  IF kind = "end" THEN Bin("+", [op |-> "ADDR", name |-> n], [op |-> "SIZEOF", name |-> n])
  ELSE [op |-> "ADDR", name |-> n]
AutoValue(kind, n) ==
  CASE kind = "start" -> [op |-> "ADDR", name |-> n]
    [] kind = "end" -> Bin("+", [op |-> "ADDR", name |-> n], [op |-> "SIZEOF", name |-> n])
    [] kind = "load" -> [op |-> "LOADADDR", name |-> n]
AutoStmts(names) ==
  FlattenSeq([i \in Sects |->
    LET n == sects[i].name
        Of(kind) == IF Imported(Auto(kind, n)) /\ Auto(kind, n) \notin names
                    THEN <<Assign("provide", Auto(kind, n), AutoValue(kind, n))>>
                    ELSE <<>>
    IN  Of("start") \o Of("end") \o Of("load")])

MarkImports ==
  /\ phase = "mark"
  /\ \E all \in {AllStmts} : \E names \in {DOMAIN KindsIn(all)} :
     \E auto \in {AutoStmts(names)} : \E known \in {KindsIn(all \o auto)} :
         IF \E n \in DOMAIN known : "plain" \in known[n] /\ moddefined(n)
         THEN Fatal
         ELSE /\ kinds' = known
              /\ top' = top \o auto
              /\ datapart' = {i \in Sects : \E j \in 1..i : takesdata(j)}
              /\ linked' = {n \in DOMAIN known : Imported(n) /\ known[n] # {"hidden"}}
              /\ phase' = "common"
              /\ UNCHANGED <<job, input, sects, regions, globalfill, format, errs, com, symoff, taken, psect, passVars, outVars>>

(***************************************************************************)
(* write_elks: common blocks, in multiples of 4 bytes; undefined symbols   *)
(* are counted and the output written all the same.                        *)
(***************************************************************************)
Rounded(n) == 4 * ((n + 3) \div 4)
CommonBefore(i) ==      \* common blocks of the same module and counter before i
  {j \in 1..(i - 1) : /\ job.tab[j].kind = "com" /\ job.tab[j].mod = job.tab[i].mod
                      /\ job.tab[j].seg = job.tab[i].seg}
SumOf(S) == FoldSet(LAMBDA j, acc : Rounded(job.tab[j].value) + acc, 0, S)

AllocateCommon ==
  /\ phase = "common"
  /\ symoff' = [i \in DOMAIN job.tab |->
       IF job.tab[i].kind = "com" THEN SumOf(CommonBefore(i)) ELSE job.tab[i].value]
  /\ com' = [m \in DOMAIN job.mods |-> [seg \in Segs |->
       SumOf({j \in DOMAIN job.tab : /\ job.tab[j].kind = "com" /\ job.tab[j].mod = m
                                     /\ job.tab[j].seg = seg})]]
  /\ errs' = \E s \in Range(job.tab) : s.kind = "imp" /\ s.name \notin linked
  /\ phase' = "assign"
  /\ UNCHANGED <<readVars, kinds, datapart, linked, taken, psect, passVars, outVars>>

(***************************************************************************)
(* assign, orphans: a piece goes to the first statement that matches it;   *)
(* the others to the end of a section of their kind.                       *)
(***************************************************************************)
Inputs ==      \* input statements in script order, with their sections
  FlattenSeq([i \in Sects |->
    LET S == SelectSeq(Flat(sects[i].body), LAMBDA s : s.k = "input")
    IN  [j \in DOMAIN S |-> [stmt |-> S[j], sect |-> i]]])
filematch(s, m) == s.star \/ m \in s.files
Matches(i, ins) ==
  {j \in DOMAIN ins : /\ filematch(ins[j].stmt, PMod(i))
                      /\ Takes(ins[j].stmt, <<PSeg(i), PCommon(i)>>)}
FirstMatch(i, ins) == IF Matches(i, ins) = {} THEN 0 ELSE First(Matches(i, ins))

allfiles(i) == \E s \in Range(Flat(sects[i].body)) : s.k = "input" /\ s.star
Latest(S) == CHOOSE i \in S : \A j \in S : j <= i
OfKind(kind) == {i \in Sects : (i \in datapart) = kind}
Choice(kind) ==      \* {} or the section for orphans of this kind
  LET own == OfKind(kind)
      loaded == {i \in own : ~NoLoad(i)}
      all == {i \in loaded : allfiles(i)}
  IN  IF all # {} THEN {Latest(all)}
      ELSE IF loaded # {} THEN {First(loaded)}
           ELSE IF own # {} THEN {First(own)} ELSE {}
OrphanSect(kind) == IF Choice(kind) # {} THEN Choice(kind) ELSE Choice(~kind)

OrphanId(kind) == IF kind THEN -2 ELSE -1
OrphanStmt(kind) == [k |-> "input", id |-> OrphanId(kind), star |-> FALSE, files |-> {}, secs |-> {}]

AssignPieces ==
  /\ phase = "assign"
  /\ \E ins \in {Inputs} : \E first \in {[i \in Pieces |-> FirstMatch(i, ins)]} :
     LET Orphans == {i \in Pieces : first[i] = 0}
         Kind(i) == PSeg(i) >= 2
         Home(i) == IF i \in Orphans THEN CHOOSE s \in OrphanSect(Kind(i)) : TRUE
                    ELSE ins[first[i]].sect
         Stmt(i) == IF i \in Orphans THEN OrphanId(Kind(i))
                    ELSE ins[first[i]].stmt.id
         Stmts(s) ==     \* in the order the first orphans come in
           LET mine == {i \in Orphans : Home(i) = s}
               firsts == {i \in mine : \A j \in mine : j < i => Kind(j) # Kind(i)}
           IN  InOrder(firsts)
     IN  IF \E i \in Orphans : \/ OrphanSect(Kind(i)) = {}
                               \/ job.opt.orphanerror /\ PSize(i) # 0
         THEN Fatal
         ELSE /\ psect' = [i \in Pieces |-> Home(i)]
              /\ taken' = [id \in {-1, -2} \union {ins[j].stmt.id : j \in DOMAIN ins} |->
                   InOrder({i \in Pieces : Stmt(i) = id})]
              /\ sects' = [s \in Sects |-> [sects[s] EXCEPT !.body =
                   @ \o [j \in DOMAIN Stmts(s) |-> OrphanStmt(Kind(Stmts(s)[j]))]]]
              /\ lay' = [dot |-> 0, cur |-> 0, fill |-> 0, extras |-> <<>>, failed |-> FALSE,
                   val |-> [n \in ssyms |-> 0], asg |-> [n \in ssyms |-> FALSE],
                   pval |-> [n \in ssyms |-> 0],
                   vma |-> [s \in Sects |-> 0], lma |-> [s \in Sects |-> 0],
                   size |-> [s \in Sects |-> 0], sub |-> [s \in Sects |-> 1],
                   addr |-> [i \in Pieces |-> 0], pad |-> [i \in Pieces |-> 0],
                   padfill |-> [i \in Pieces |-> 0],
                   org |-> [r \in DOMAIN regions |-> 0], len |-> [r \in DOMAIN regions |-> 0],
                   cursor |-> [r \in DOMAIN regions |-> 0], boxes |-> {}]
              /\ phase' = "pass"
              /\ UNCHANGED <<job, input, top, regions, globalfill, format, kinds, datapart, linked,
                             errs, com, symoff, prev, pass, outVars>>

(***************************************************************************)
(* Expressions.  The bit operators and shifts are left out: for addresses  *)
(* they are arithmetic like the others.                                    *)
(***************************************************************************)
Bool(b) == IF b THEN 1 ELSE 0

modvalue(i, st) ==
  LET s == job.tab[i]
  IN  IF s.kind = "abs" THEN symoff[i]
      ELSE st.addr[Piece(s.mod, s.seg, s.kind = "com")] + symoff[i]

(* A symbol the script assigns has its latest value in this pass, or else   *)
(* its last one in the previous pass.                                       *)
symvalue(n, st) ==
  IF n \in ssyms /\ (Has(n, "plain") \/ Has(n, "hidden") \/ ~moddefined(n))
  THEN {IF st.asg[n] THEN st.val[n] ELSE st.pval[n]}
  ELSE {modvalue(i, st) : i \in {j \in DOMAIN job.tab : /\ job.tab[j].name = n
                                                         /\ job.tab[j].kind # "imp"}}

align(v, n) == IF \E e \in 0..16 : n = 2 ^ e THEN {((v + n - 1) \div n) * n} ELSE {}

Abs(a) == IF a < 0 THEN -a ELSE a
Quotient(a, b) ==      \* C's division
  IF (a < 0) = (b < 0) THEN Abs(a) \div Abs(b) ELSE -(Abs(a) \div Abs(b))

Operate(op, a, b) ==
  CASE op = "+" -> {a + b}
    [] op = "-" -> {a - b}
    [] op = "*" -> {a * b}
    [] op = "/" -> IF b = 0 THEN {} ELSE {Quotient(a, b)}
    [] op = "%" -> IF b = 0 THEN {} ELSE {a - b * Quotient(a, b)}
    [] op = "<" -> {Bool(a < b)}
    [] op = "<=" -> {Bool(a <= b)}
    [] op = "==" -> {Bool(a = b)}
    [] op = "!=" -> {Bool(a # b)}
    [] op = "align" -> align(a, b)
    [] op = "MAX" -> {IF a > b THEN a ELSE b}
    [] op = "MIN" -> {IF a < b THEN a ELSE b}

RECURSIVE eval(_, _)
eval(e, st) ==
  CASE e.op = "num" -> {e.n}
    [] e.op = "dot" -> {st.dot}
    [] e.op = "sym" -> symvalue(e.name, st)
    [] e.op = "ADDR" -> {st.vma[i] : i \in SectNamed(e.name)}
    [] e.op = "LOADADDR" -> {st.lma[i] : i \in SectNamed(e.name)}
    [] e.op = "SIZEOF" -> {IF i = st.cur THEN st.dot - st.vma[i] ELSE st.size[i] :
                             i \in SectNamed(e.name)}
    [] e.op = "DEFINED" -> {Bool(\/ e.name \in ssyms /\ st.asg[e.name]
                                 \/ e.name \in linked \/ moddefined(e.name))}
    [] e.op = "ORIGIN" -> IF RegionNamed(e.name) = {} THEN {}
                          ELSE {st.org[First(RegionNamed(e.name))]}
    [] e.op = "LENGTH" -> IF RegionNamed(e.name) = {} THEN {}
                          ELSE {st.len[First(RegionNamed(e.name))]}
    [] e.op = "cond" -> UNION {eval(IF v # 0 THEN e.b ELSE e.c, st) : v \in eval(e.a, st)}
    [] e.op = "neg" -> {-v : v \in eval(e.a, st)}
    [] e.op = "!" -> {Bool(v = 0) : v \in eval(e.a, st)}
    [] e.op = "&&" -> UNION {IF v = 0 THEN {0} ELSE {Bool(w # 0) : w \in eval(e.b, st)} :
                               v \in eval(e.a, st)}
    [] e.op = "||" -> UNION {IF v # 0 THEN {1} ELSE {Bool(w # 0) : w \in eval(e.b, st)} :
                               v \in eval(e.a, st)}
    [] OTHER -> UNION {UNION {Operate(e.op, a, b) : b \in eval(e.b, st)} : a \in eval(e.a, st)}

fillbyte(e, st) == {v % 256 : v \in {w \in eval(e, st) : w \in -128..255}}

(***************************************************************************)
(* walk: the statements of a section.                                      *)
(***************************************************************************)
addextra(st, at, len, value, data) ==
  [st EXCEPT !.extras = Append(@, [sect |-> st.cur, vma |-> at, len |-> len,
                                   value |-> value, data |-> data])]
gap(st, to) ==
  IF to > st.dot /\ st.fill # 0 THEN addextra(st, st.dot, to - st.dot, st.fill, FALSE) ELSE st

assign_symbol(s, st) ==
  IF s.akind = "provide" /\ (Has(s.name, "plain") \/ moddefined(s.name))
  THEN {st}
  ELSE {[st EXCEPT !.val[s.name] = v, !.asg[s.name] = TRUE] : v \in eval(s.e, st)}

assertion(s, st) == {[st EXCEPT !.failed = @ \/ v = 0] : v \in eval(s.e, st)}

Pad(i, sub) == (sub - (PSize(i) % sub)) % sub
RECURSIVE placed(_, _, _)
placed(ps, sub, st) ==
  IF ps = <<>> THEN {st}
  ELSE LET i == Head(ps)
       IN  UNION {placed(Tail(ps), sub, next) : next \in
             {[st EXCEPT !.addr[i] = st.dot,
                         !.pad[i] = IF PCommon(i) THEN 0 ELSE Pad(i, sub),
                         !.padfill[i] = IF PCommon(i) THEN 0 ELSE st.fill,
                         !.dot = @ + PSize(i) + Pad(i, sub)]}}

PageOf(a) == a \div Page
NextPage(start) == Page * ((start + Page - 1) \div Page)
MutFullPage(start, end) == end - start = Page
Crosses(start, end) == PageOf(end) # PageOf(start)

Box(start, st) == [start |-> start, end |-> st.dot]

RECURSIVE walk(_, _, _)
walk(body, sub, st) ==
  IF body = <<>> THEN {st}
  ELSE
    LET s == Head(body)
        Onepage(first) ==      \* first: the block laid out where it is
          IF first.dot - st.dot > Page THEN {}
          ELSE IF ~Crosses(st.dot, first.dot)
               THEN {[first EXCEPT !.boxes = @ \union {Box(st.dot, first)}]}
               ELSE LET to == NextPage(st.dot)
                        moved == gap([first EXCEPT !.extras = st.extras, !.fill = st.fill,
                                                   !.dot = st.dot, !.boxes = st.boxes], to)
                    IN  {[w EXCEPT !.boxes = @ \union {Box(to, w)}] :
                           w \in walk(s.body, sub, [moved EXCEPT !.dot = to])}
        Done ==
          CASE s.k = "assign" /\ s.name # <<".">> -> assign_symbol(s, st)
            [] s.k = "assign" /\ s.name = <<".">> ->
                 {[gap(st, v) EXCEPT !.dot = v] : v \in {w \in eval(s.e, st) : w >= st.dot}}
            [] s.k = "data" ->
                 {[addextra(st, st.dot, s.size, v, TRUE) EXCEPT !.dot = @ + s.size] :
                    v \in {w \in eval(s.e, st) : -(2 ^ (8 * s.size - 1)) <= w
                                                 /\ w < 2 ^ (8 * s.size)}}
            [] s.k = "fill" -> {[st EXCEPT !.fill = v] : v \in fillbyte(s.e, st)}
            [] s.k = "assert" -> assertion(s, st)
            [] s.k = "input" -> placed(taken[s.id], sub, st)
            [] s.k = "onepage" -> UNION {Onepage(first) : first \in walk(s.body, sub, st)}
    IN  UNION {walk(Tail(body), sub, next) : next \in Done}

Later(a, b) == IF a > b THEN a ELSE b
layout_section(i, st0) ==
  LET s == sects[i]
      st == [st0 EXCEPT !.cur = i]
      region == First(RegionNamed(s.region))
      lmaregion == First(RegionNamed(s.lmaregion))
      scripted == IF s.addr # NoE THEN eval(s.addr, st)
                  ELSE IF s.region # "" THEN {st.cursor[region]} ELSE {st.dot}
      starts == {IF job.opt.tgiven /\ s.name = ".text" THEN job.opt.tbase
                 ELSE IF job.opt.dbase # 0 /\ s.name = ".data" THEN job.opt.dbase ELSE a :
                   a \in scripted}
      aligned == IF s.align = NoE THEN starts
                 ELSE UNION {UNION {align(a, n) : n \in eval(s.align, st)} : a \in starts}
      subs == IF s.subalign = NoE THEN {1}
              ELSE UNION {align(1, n) : n \in eval(s.subalign, st)}
      At(start) == [st EXCEPT !.vma[i] = start]
      lmas(start) == IF s.at # NoE THEN eval(s.at, At(start))
                     ELSE IF s.lmaregion # "" THEN {st.cursor[lmaregion]} ELSE {start}
      fills(start) == IF s.fill # NoE THEN fillbyte(s.fill, At(start))
                      ELSE IF globalfill # NoE THEN fillbyte(globalfill, At(start)) ELSE {0}
      Walked(start, sub, l, f) ==
        walk(s.body, sub, [At(start) EXCEPT !.sub[i] = sub, !.lma[i] = l, !.fill = f,
                                            !.dot = start])
      Ended(start, w) ==
        LET size == w.dot - start
            c1 == IF s.region = "" THEN w.cursor
                  ELSE [w.cursor EXCEPT ![region] = Later(@, start + size)]
            c2 == IF s.lmaregion = "" THEN c1
                  ELSE [c1 EXCEPT ![lmaregion] = Later(@, w.lma[i] + size)]
        IN  [w EXCEPT !.size[i] = size, !.cursor = c2, !.cur = 0]
  IN  UNION {UNION {UNION {UNION {{Ended(start, w) : w \in Walked(start, sub, l, f)} :
        f \in fills(start)} : l \in lmas(start)} : sub \in subs} : start \in aligned}

RECURSIVE EvalRegions(_, _)
EvalRegions(r, st) ==
  IF r > Len(regions) THEN {st}
  ELSE UNION {LET with == [st EXCEPT !.org[r] = o]
              IN  UNION {EvalRegions(r + 1, [with EXCEPT !.len[r] = l, !.cursor[r] = o]) :
                           l \in eval(regions[r].length, with)} :
                o \in eval(regions[r].origin, st)}

RECURSIVE WalkTop(_, _)
WalkTop(stmts, st) ==
  IF stmts = <<>> THEN {st}
  ELSE LET s == Head(stmts)
           Done == CASE s.k = "section" -> layout_section(s.sect, st)
                     [] s.k = "assert" -> assertion(s, st)
                     [] s.k = "assign" /\ s.name # <<".">> -> assign_symbol(s, st)
                     [] OTHER -> {[st EXCEPT !.dot = v] : v \in eval(s.e, st)}
       IN  UNION {WalkTop(Tail(stmts), next) : next \in Done}

layout_pass(st) ==
  UNION {WalkTop(top, w) :
    w \in EvalRegions(1, [st EXCEPT !.asg = [n \in ssyms |-> FALSE], !.extras = <<>>,
                                    !.failed = FALSE, !.dot = 0, !.boxes = {}])}

(* What remember() compares with the previous pass. *)
MutSizesOnly(st) == [size |-> st.size]
Remembered(st) ==
  [vma |-> st.vma, lma |-> st.lma, size |-> st.size, val |-> st.val, addr |-> st.addr]

MutNoLimit(p) == FALSE
LastPass(p) == p + 1 = MaxPasses

LayoutPass ==
  /\ phase = "pass"
  /\ LET done == layout_pass(lay)
     IN  \/ /\ done = {}
            /\ Fatal
         \/ \E st \in done :
              /\ lay' = [st EXCEPT !.pval = st.val]
              /\ prev' = Remembered(st)
              /\ LET settled == pass > 0 /\ Remembered(st) = prev
                 IN  /\ phase' = IF settled THEN (IF st.failed THEN "error" ELSE "place")
                                 ELSE IF LastPass(pass) THEN "error" ELSE "pass"
                     /\ pass' = IF settled \/ pass + 1 > MaxPasses THEN pass ELSE pass + 1
              /\ UNCHANGED <<readVars, layVars, outVars>>

(***************************************************************************)
(* script_layout after the passes: the a.out parts, the checks, and the    *)
(* place of each piece in the file.                                        *)
(***************************************************************************)
End(i) == lay.vma[i] + lay.size[i]
LoadEnd(i) == lay.lma[i] + lay.size[i]
Part(data) == {i \in Sects : (i \in datapart) = data}
Before(i) == {j \in Part(i \in datapart) : j < i}

OutOfOrder ==      \* "must not start below the end of the section before it"
  /\ ~Binary
  /\ \E i \in Sects : /\ Before(i) # {} /\ lay.size[i] # 0
                      /\ lay.vma[i] < End(Latest(Before(i)))

Loaded(i) == lay.size[i] # 0 /\ ~NoLoad(i)
Overlap(a, b, at) == at[a] < at[b] + lay.size[b] /\ at[b] < at[a] + lay.size[a]
InRegion(i, at, r) ==
  at >= lay.org[r] /\ at + lay.size[i] <= lay.org[r] + lay.len[r]
MutNoOverlapCheck ==
  \A i \in Sects : lay.vma[i] >= 0 /\ End(i) <= Space /\ lay.lma[i] >= 0 /\ LoadEnd(i) <= Space
checks ==
  \A i \in Sects :
    /\ lay.vma[i] >= 0 /\ End(i) <= Space /\ lay.lma[i] >= 0 /\ LoadEnd(i) <= Space
    /\ sects[i].region # "" => InRegion(i, lay.vma[i], First(RegionNamed(sects[i].region)))
    /\ sects[i].lmaregion # "" =>
         InRegion(i, lay.lma[i], First(RegionNamed(sects[i].lmaregion)))
    /\ lay.lma[i] = lay.vma[i] \/ Binary
    /\ \A j \in Sects : i < j /\ lay.size[i] # 0 /\ lay.size[j] # 0 =>
         /\ Binary /\ ~NoLoad(i) /\ ~NoLoad(j) => ~Overlap(i, j, lay.lma)
         /\ ((i \in datapart) = (j \in datapart) \/ ~job.opt.sepid) => ~Overlap(i, j, lay.vma)

MaxOf(S) == CHOOSE n \in S : \A m \in S : m <= n
MinOf(S) == CHOOSE n \in S : \A m \in S : n <= m

DataEnds ==      \* where initialized data of the data part ends
  {lay.extras[j].vma + lay.extras[j].len :
     j \in {l \in DOMAIN lay.extras : LET x == lay.extras[l]
            IN x.data /\ x.sect \in datapart /\ ~NoLoad(x.sect)}}
  \union
  {lay.addr[i] + PSize(i) + Pad(i, lay.sub[psect[i]]) :
     i \in {j \in Pieces : /\ ~PCommon(j) /\ PSize(j) # 0
                            /\ psect[j] \in datapart /\ ~NoLoad(psect[j])}}

PartsOf ==
  LET text == Part(FALSE)
      data == Part(TRUE)
      ts == IF text # {} THEN lay.vma[First(text)]
            ELSE IF data # {} THEN lay.vma[First(data)] ELSE 0
      te == IF text # {} THEN End(Latest(text)) ELSE ts
      ds == IF data # {} THEN lay.vma[First(data)] ELSE te
      lmas == {lay.lma[i] : i \in {j \in Sects : Loaded(j)}}
  IN  [text_start |-> ts, text_end |-> te, data_start |-> ds,
       bss_end |-> IF data # {} THEN End(Latest(data)) ELSE te,
       data_end |-> MaxOf({ds} \union DataEnds),
       low |-> IF lmas = {} THEN ts ELSE MinOf(lmas)]

Place ==
  /\ phase = "place"
  /\ IF OutOfOrder \/ ~checks
     THEN Fatal
     ELSE /\ parts' = PartsOf
          /\ phase' = "write"
          /\ UNCHANGED <<readVars, layVars, passVars, image, records>>

(***************************************************************************)
(* Writing: gap fill, the modules with their padding, BYTE and WORD data.  *)
(* The image says what is at an offset: a byte of a piece, of an extra, or *)
(* a fill byte.  (The modules' own bytes are the subject of AsLink.)       *)
(***************************************************************************)
fileoff(i, a) ==
  IF Binary THEN lay.lma[i] + (a - lay.vma[i]) - parts.low
  ELSE IF i \in datapart THEN parts.text_end - parts.text_start + a - parts.data_start
       ELSE a - parts.text_start
MutFromZero(i) ==
  IF Binary THEN lay.lma[psect[i]] - lay.vma[psect[i]] ELSE -parts.text_start
segfadj(i) ==
  IF Binary THEN lay.lma[psect[i]] - lay.vma[psect[i]] - parts.low
  ELSE IF psect[i] \in datapart
       THEN parts.text_end - parts.text_start - parts.data_start
       ELSE -parts.text_start

(* A write of n bytes; the file has what was written last. *)
Out(at, n, kind, which) == [at |-> at, n |-> n, kind |-> kind, which |-> which]
Covers(w, o) == w.at <= o /\ o < w.at + w.n
Byte(kind, which, n) == <<kind, which, n>>
ByteOf(w, o) == Byte(w.kind, w.which, IF w.kind = "fill" THEN 0 ELSE o - w.at)
Written(ws) ==
  [o \in UNION {w.at..(w.at + w.n - 1) : w \in Range(ws)} |->
     ByteOf(ws[MaxOf({j \in DOMAIN ws : Covers(ws[j], o)})], o)]

GapAfter(a, value) ==      \* from a loaded section to the next one in the file
  LET end == fileoff(a, lay.vma[a]) + lay.size[a]
      later == {fileoff(i, lay.vma[i]) :
                  i \in {j \in Sects : Loaded(j) /\ fileoff(j, lay.vma[j]) >= end}}
  IN  IF ~Loaded(a) \/ later = {} THEN <<>> ELSE <<Out(end, MinOf(later) - end, "fill", value)>>

Extras(data, kind) ==
  FlattenSeq([n \in DOMAIN lay.extras |->
    LET x == lay.extras[n]
    IN  IF x.data # data \/ NoLoad(x.sect) THEN <<>>
        ELSE <<Out(fileoff(x.sect, x.vma), x.len, kind, IF data THEN n ELSE x.value)>>])

script_write_fill ==
  Extras(FALSE, "fill")
  \o FlattenSeq([a \in Sects |->
       IF globalfill = NoE THEN <<>>
       ELSE LET value == CHOOSE v \in fillbyte(globalfill, lay) : TRUE
            IN  IF value = 0 THEN <<>> ELSE GapAfter(a, value)])
WriteModules ==
  FlattenSeq([i \in Pieces |->
    IF PCommon(i) \/ NoLoad(psect[i]) THEN <<>>
    ELSE LET at == lay.addr[i] + segfadj(i)
         IN  <<Out(at, PSize(i), "piece", i), Out(at + PSize(i), lay.pad[i], "fill", lay.padfill[i])>>])
script_write_data == Extras(TRUE, "extra")

Writes == script_write_fill \o WriteModules \o script_write_data

Write ==
  /\ phase = "write"
  /\ image' = Written(Writes)
  /\ phase' = IF format \in {"srec", "ihex"} THEN "convert" ELSE "done"
  /\ UNCHANGED <<readVars, layVars, passVars, parts, records>>

(***************************************************************************)
(* script_convert: one run of records for each loadable section, in load   *)
(* address order; common blocks at the end of the file are not in it.      *)
(***************************************************************************)
FileSize == MaxOf({0} \union {o + 1 : o \in DOMAIN image})
MutSkipsNext(done) == {lay.lma[i] : i \in {j \in Sects : Loaded(j) /\ lay.lma[j] > done + 1}}
NextLoad(done) == {lay.lma[i] : i \in {j \in Sects : Loaded(j) /\ lay.lma[j] > done}}
RECURSIVE Runs(_)
Runs(done) ==
  IF NextLoad(done) = {} THEN <<>>
  ELSE LET l == MinOf(NextLoad(done))
           i == First({j \in Sects : Loaded(j) /\ lay.lma[j] = l})
           off == fileoff(i, lay.vma[i])
           n == MinOf({lay.size[i], FileSize - off})
       IN  (IF off >= FileSize THEN <<>> ELSE <<[addr |-> l, off |-> off, n |-> n]>>) \o Runs(l)
Converted ==
  LET runs == Runs(-1)
      At(o) == IF o \in DOMAIN image THEN image[o] ELSE Byte("zero", 0, 0)
  IN  [a \in UNION {r.addr..(r.addr + r.n - 1) : r \in Range(runs)} |->
         LET r == CHOOSE q \in Range(runs) : q.addr <= a /\ a < q.addr + q.n
         IN  At(r.off + a - r.addr)]

script_convert ==
  /\ phase = "convert"
  /\ records' = Converted
  /\ phase' = "done"
  /\ UNCHANGED <<readVars, layVars, passVars, parts, image>>

Finished == phase \in {"done", "error"} /\ UNCHANGED vars

Next ==
  \/ Read /\ UNCHANGED <<layVars, passVars, outVars>>
  \/ MarkImports \/ AllocateCommon \/ AssignPieces \/ LayoutPass \/ Place \/ Write
  \/ script_convert \/ Finished

(* One process that does not wait for anything. *)
Spec == Init /\ [][Next]_vars /\ WF_vars(Next)
-----------------------------------------------------------------------------
(***************************************************************************)
(* Properties.                                                             *)
(***************************************************************************)
Accepted == phase \in {"write", "convert", "done"}

(* An empty section does not stop the next one from starting below the end  *)
(* of the part so far (script_layout's order check looks at the previous    *)
(* section only); such a layout has no place in an a.out file.              *)
Descends ==
  \E i, j \in Sects : /\ j < i /\ (i \in datapart) = (j \in datapart)
                      /\ lay.vma[i] < End(j)

(* Everything that is to be loaded is in the output file at the place of    *)
(* its address: the bytes of every module's pieces and of BYTE and WORD are *)
(* written inside the file's parts and nothing is written over them, also   *)
(* for pieces no statement matches; only what NOLOAD sections take is left  *)
(* out.                                                                     *)
Explicit(i) == \E j \in DOMAIN Inputs : \E l \in DOMAIN taken[Inputs[j].stmt.id] :
                 /\ taken[Inputs[j].stmt.id][l] = i
                 /\ NoLoad(Inputs[j].sect) /\ Inputs[j].stmt.id > 0
Discarded(i) ==
  Explicit(i) \/ \A s \in OfKind(PSeg(i) >= 2) : NoLoad(s)
ImageHoldsAll ==
  phase \in {"convert", "done"} /\ ~(Descends /\ ~Binary) =>
    /\ \A i \in Pieces : ~PCommon(i) /\ ~Discarded(i) =>
         \A n \in 0..(PSize(i) - 1) :
           \E o \in DOMAIN image :
             /\ image[o] = Byte("piece", i, n)
             /\ o = fileoff(psect[i], lay.addr[i] + n)
    /\ \A x \in DOMAIN lay.extras : lay.extras[x].data /\ ~NoLoad(lay.extras[x].sect) =>
         \A n \in 0..(lay.extras[x].len - 1) : \E o \in DOMAIN image : image[o] = Byte("extra", x, n)
    /\ ~Binary => \A o \in DOMAIN image :
         image[o][1] # "fill" =>
           o >= 0 /\ o < parts.text_end - parts.text_start + parts.data_end - parts.data_start

(* Two pieces never share an address, unless their sections are in separate *)
(* instruction and data spaces.                                             *)
PiecesApart ==
  Accepted => \A i, j \in Pieces :
    i < j /\ ~(job.opt.sepid /\ (psect[i] \in datapart) # (psect[j] \in datapart)) =>
      \/ PSize(i) = 0 \/ PSize(j) = 0
      \/ lay.addr[i] + PSize(i) <= lay.addr[j] \/ lay.addr[j] + PSize(j) <= lay.addr[i]

(* The contents of a ONEPAGE block, if they are no larger than a page, are  *)
(* within one page in every accepted layout.                                *)
Within(b) == b.end = b.start \/ PageOf(b.start) = PageOf(b.end - 1)
OnePageTogether == Accepted => \A b \in lay.boxes : b.end - b.start <= Page => Within(b)

(* "keep them within one 256-byte page", "It's an error if the contents are *)
(* larger than a page": every accepted ONEPAGE block is within a page.      *)
OnePageHolds == Accepted => \A b \in lay.boxes : Within(b)

(* The passes stop at a fixed point: another pass would change nothing, as  *)
(* long as no MEMORY region is defined by a later one (remember() does not  *)
(* compare regions).                                                        *)
RECURSIVE Mentions(_)
Mentions(e) ==
  (IF e.op \in {"ORIGIN", "LENGTH"} THEN RegionNamed(e.name) ELSE {})
  \union (IF "a" \in DOMAIN e THEN Mentions(e.a) ELSE {})
  \union (IF "b" \in DOMAIN e THEN Mentions(e.b) ELSE {})
  \union (IF "c" \in DOMAIN e THEN Mentions(e.c) ELSE {})
RegionsInOrder ==
  \A r \in DOMAIN regions :
    \A q \in Mentions(regions[r].origin) \union Mentions(regions[r].length) : q < r
SettledIsFixpoint ==
  phase = "place" /\ RegionsInOrder =>
    \A st \in layout_pass(lay) :
      /\ st.vma = lay.vma /\ st.lma = lay.lma /\ st.size = lay.size
      /\ st.val = lay.val /\ st.addr = lay.addr
      /\ st.org = lay.org /\ st.len = lay.len /\ st.extras = lay.extras

(* __name_start, __name_end and __name_load are where the section finally   *)
(* is, when a module imports them and the script does not assign them.      *)
SectionSymbols ==
  Accepted => \A i \in Sects :
    LET n == sects[i].name
        Ours(kind) == Auto(kind, n) \in linked
                      /\ Assign("provide", Auto(kind, n), AutoValue(kind, n)) \in Range(top)
    IN  /\ Ours("start") => lay.val[Auto("start", n)] = lay.vma[i]
        /\ Ours("end") => lay.val[Auto("end", n)] = End(i)
        /\ Ours("load") => lay.val[Auto("load", n)] = lay.lma[i]

(* The records have every byte of the image that a loadable section covers, *)
(* at its load address, and no address twice.                               *)
RecordsHoldImage ==
  phase = "done" /\ format \in {"srec", "ihex"} =>
    /\ \A o \in DOMAIN image : image[o][1] # "fill" =>
         (o + parts.low) \in DOMAIN records /\ records[o + parts.low] = image[o]
    /\ LET runs == Runs(-1)
       IN  \A i, j \in DOMAIN runs : i < j => runs[i].addr + runs[i].n <= runs[j].addr

(* Reading ends although files may include each other, and layout ends      *)
(* although symbols may depend on each other.                               *)
LinkEnds == <>(phase \in {"done", "error"})
=============================================================================
