------------------------------ MODULE AsPasses ------------------------------
(***************************************************************************)
(* as01: two passes over a source with GET files, macros, conditionals and *)
(* location counters (as/readsrc.c, assemble.c, macro.c, pops.c, express.c,*)
(* mops.c), writing an object file (ObjCode) in the last pass.             *)
(*                                                                         *)
(* A line is [label, op, ...]; the scanner, listings, the -b binary and    *)
(* macro parameters are left out.  Flags of symbols and of values are sets *)
(* of the names of their bits: type (LAB, VAR, RED, COMM, EXP, ENT, MAC)   *)
(* and data (REL, FOR, IMP, UND).                                          *)
(*                                                                         *)
(* A line is assembled in one step.  While it is, r holds the variables it *)
(* works on and label, old (oldlabel), x (lastexp), vals (the values of    *)
(* the expression so far), jump (lcjump, without the code), code, the      *)
(* addresses that genobj writes, and trap, that a division by 0 ended the  *)
(* program.                                                                *)
(*                                                                         *)
(* An expression is the sequence of its nodes in the order in which the    *)
(* parser finishes them: a node works on the value of the node before it,  *)
(* and a binary one on that of node left too.                              *)
(***************************************************************************)
EXTENDS ObjCode, FiniteSets

CONSTANTS
  Jobs,       \* sources and options: [files, textseg, undimp, globals]; the main file is 1
  NLoc,       \* location counters: 16
  FcMax, FdMax,                        \* databuf: 3024 bytes of FCB and FCC, 126 words of FDB
  Span,       \* an offset_t is unsigned: 2^64
  CharSpan,   \* and so is an unsigned char: 2^8
  MaxGet, MaxIf, MaxMac, MaxBlock      \* nesting: 8 each

ASSUME LimitsAssumption ==
  /\ NLoc \in {8, 16}                      \* NLoc - 1 is SEGM, a mask
  /\ FcMax \in Nat /\ FdMax \in Nat
  /\ Span \in Nat \ {0} /\ CharSpan \in Nat \ {0} /\ CharSpan % 2 = 0
  /\ \A n \in {MaxGet, MaxIf, MaxMac, MaxBlock} : n \in Nat \ {0}

(* What a source can hold: "" is no name, and a line's operands go with its *)
(* operation.                                                              *)
Name == STRING \ {""}
Nodes == [op : {"num", "here", "id", "neg", "+", "-", "*", "/", "="}, n : Int, name : STRING, left : Nat]
IsExpr(e) ==
  /\ e \in Seq(Nodes) /\ e # <<>>
  /\ \A i \in 1..Len(e) :
       /\ e[i].op = "id" => e[i].name \in Name
       /\ e[i].op \in {"+", "-", "*", "/", "="} => e[i].left \in 1..(i - 1)
IsLine(l, j) ==
  /\ l.label \in STRING
  /\ l.op \in {"rmb", "blkw", "align", "org", "loc", "equ", "set", "comm", "comm1", "mem", "imm",
               "branch", "block", "if", "elseif"} => IsExpr(l.e)
  /\ l.op = "rmb" => l.fill = <<>> \/ IsExpr(l.fill)
  /\ l.op \in {"fcb", "fdb"} => l.es \in Seq(Seq(Nodes)) /\ \A i \in 1..Len(l.es) : IsExpr(l.es[i])
  /\ l.op = "fcc" => l.n \in Nat
  /\ l.op \in {"import", "entry", "export", "globl"} => l.names \in Seq(Name)
  /\ l.op \in {"comm1", "macro", "call"} => l.name \in Name
  /\ l.op \in {"mem", "imm", "inher", "branch"} => l.opcode \in 0..255
  /\ l.op = "get" => l.file \in DOMAIN j.files
(* Lines that genobj does not write whole (see Kept): readline and inp_line  *)
(* give such lines of the main file only, and not from a macro.             *)
Long(l) ==
  \/ l.op = "fcc" /\ l.n > CharSpan
  \/ l.op = "fcb" /\ Len(l.es) > CharSpan
  \/ l.op = "fdb" /\ 2 * Len(l.es) > CharSpan
Lines(j) == UNION {{j.files[f][i] : i \in DOMAIN j.files[f]} : f \in DOMAIN j.files}
ASSUME JobsAssumption ==
  \A j \in Jobs :
    /\ j.files \in Seq(Seq(Lines(j))) /\ j.files # <<>>
    /\ \A l \in Lines(j) : IsLine(l, j)
    /\ \A f \in DOMAIN j.files : \A i \in DOMAIN j.files[f] :
         Long(j.files[f][i]) => f = 1 /\ \A l \in Lines(j) : l.op # "macro"
    /\ j.textseg \in Int /\ j.textseg < NLoc /\ j.undimp \in BOOLEAN

VARIABLES
  phase,      \* "as"; "done", or "failed" with the object file removed; "crash"
  job,
  pass,
  files,      \* open files, innermost first: [file, next]
  macs,       \* macros being expanded, innermost first: the lines left
  load,       \* macro being read: [on, name, saving, text, last (the line in linebuf)]
  conds,      \* [ifflag, elseflag, stack]
  blocks,     \* BLOCK stack: [lc, data, seg]
  syms,       \* symbol table: [type, data, seg, val, text]
  loc,        \* [lc, data, seg (lcdata), cur (lcptr), tab (lctab), apart (history, see setloc)]
  errs,       \* toterr # 0
  dirty,      \* dirty_pass
  header,     \* what objheader wrote: [sizes, arrext, syms]
  enc,        \* object code encoder
  emitted     \* where each byte that a line asked for belongs: <<counter, lc>>

srcVars == <<files, macs, load, conds, blocks>>
lineVars == <<syms, loc, errs, dirty, enc, emitted>>
asVars == <<phase, job, pass, srcVars, lineVars, header>>

last_pass == 1            \* nothing changes it
Bind(v, F(_)) == CHOOSE y \in {F(z) : z \in {v}} : TRUE     \* F(v), v evaluated once

Over(f, g) ==             \* f, and g where f has no value
  [x \in DOMAIN f \union DOMAIN g |-> IF x \in DOMAIN f THEN f[x] ELSE g[x]]

BssLoc == 3               \* BSSLOC and DATALOC
TextLoc == IF job.textseg <= 0 THEN 0 ELSE job.textseg

Value(v, data, seg) == [val |-> v, data |-> data, seg |-> seg, sym |-> ""]
NoLoad == [on |-> FALSE, name |-> "", saving |-> FALSE, text |-> <<>>, last |-> <<>>]
inidata == {"REL", "UND"} \union (IF job.undimp THEN {"IMP"} ELSE {})
NewSym == [type |-> {}, data |-> inidata, seg |-> IF job.undimp THEN NLoc - 1 ELSE 0,
           val |-> 0, text |-> <<>>]
FreshLoc == [lc |-> 0, data |-> {"REL"}, seg |-> 0, cur |-> 0, apart |-> FALSE,
               tab |-> [s \in 0..(NLoc - 1) |-> [data |-> {"REL"}, lc |-> 0]]]

(***************************************************************************)
(* readline: lines come from the innermost macro that has one, or else     *)
(* from the innermost file.                                                *)
(***************************************************************************)
Text(f) == job.files[f]
Live(ms) ==
  LET lines == {i \in DOMAIN ms : ms[i] # <<>>}
  IN  IF lines = {} THEN <<>>
      ELSE SubSeq(ms, CHOOSE i \in lines : \A j \in lines : i <= j, Len(ms))
AtEof == Live(macs) = <<>> /\ files[1].next > Len(Text(files[1].file))
Line == IF Live(macs) # <<>> THEN Live(macs)[1][1] ELSE Text(files[1].file)[files[1].next]
MacsAfter ==
  IF Live(macs) = <<>> THEN <<>> ELSE <<Tail(Live(macs)[1])>> \o Tail(Live(macs))
FilesAfter == IF Live(macs) # <<>> THEN files ELSE [files EXCEPT ![1].next = @ + 1]
Consumed == macs' = MacsAfter /\ files' = FilesAfter

(***************************************************************************)
(* Errors, symbols, location counters.                                     *)
(***************************************************************************)
Err(r) == [r EXCEPT !.errs = TRUE]
ErrLast(r) == IF pass = last_pass THEN Err(r) ELSE r
ErrIf(cond, r) == IF cond THEN Err(r) ELSE r

lookup(n, r) == IF n \in DOMAIN r.syms THEN r ELSE [r EXCEPT !.syms = Over([m \in {n} |-> NewSym], @)]

labelerror(r) == [r EXCEPT !.errs = TRUE, !.label = ""]

SymDiff(A, B) == (A \ B) \union (B \ A)

(* Undefined, or bound like the location counter. *)
SegRel(s, r) ==
  \/ ~("LAB" \in s.type \/ ("IMP" \in s.data /\ "UND" \notin s.data))
  \/ s.seg = r.loc.seg /\ "REL" \notin SymDiff(s.data, r.loc.data)

Rmb(r, n) == IF pass = last_pass THEN [r EXCEPT !.enc = accumulate_rmb(@, n)] ELSE r

(* setloc: a change of segment is told to the linker by lcdata, not lcptr. *)
(* The two differ after ORG and in a BLOCK, and a change to lcdata's       *)
(* segment is then not told: the linker stays in another one (apart).      *)
setloc(seg, r) ==
  LET told == IF pass = last_pass /\ seg # r.loc.seg
              THEN [r EXCEPT !.enc = putobj(@, <<SegCode + seg>>)] ELSE r
      tab == [r.loc.tab EXCEPT ![r.loc.cur] = [data |-> r.loc.data, lc |-> r.loc.lc]]
  IN  [told EXCEPT !.loc = [lc |-> tab[seg].lc, data |-> tab[seg].data, seg |-> seg,
                            cur |-> seg, tab |-> tab,
                            apart |-> r.loc.apart \/ (seg = r.loc.seg /\ seg # r.loc.cur)]]

(***************************************************************************)
(* Expressions (express.c).  The other operators of a term need absolute   *)
(* operands, as "*" does.  Division is unsigned, and traps on 0, which a   *)
(* symbol that is not yet defined is.                                      *)
(***************************************************************************)
expundefined(r) == [r EXCEPT !.x.data = {"FOR", "UND"}, !.x.seg = 0]
experror(r) == expundefined(Err(r))
showrelbad(r) == expundefined(ErrLast(r))
chkabs(r) == IF "REL" \in r.x.data THEN expundefined(ErrLast(r)) ELSE r

Identifier(n, r) ==      \* factor, case IDENT
  LET known == r.syms[n].type \intersect {"LAB", "VAR"} # {}
      s == IF known THEN r.syms[n] ELSE [r.syms[n] EXCEPT !.data = @ \union {"FOR"}]
      x == [val |-> IF pass = last_pass /\ "IMP" \in s.data THEN 0 ELSE s.val,
            data |-> IF pass = last_pass THEN s.data ELSE s.data \ {"IMP"}, seg |-> s.seg,
            sym |-> IF known THEN r.x.sym ELSE n]
      seen == [r EXCEPT !.syms[n] = s, !.x = x]
  IN  IF "MAC" \in s.type THEN experror(r)
      ELSE IF pass = last_pass /\ "IMP" \notin s.data /\ "UND" \in s.data
           THEN experror(seen)
           ELSE seen

Unsigned(v) == v % Span

(* The segment is the low 4 bits of a value's flags: "|" and "^". *)
Bit(a, i) == (a \div i) % 2
OrBit(a, b, i) == IF Bit(a, i) = 1 \/ Bit(b, i) = 1 THEN i ELSE 0
XorBit(a, b, i) == IF Bit(a, i) # Bit(b, i) THEN i ELSE 0
Or(a, b) == OrBit(a, b, 1) + OrBit(a, b, 2) + OrBit(a, b, 4) + OrBit(a, b, 8)
Xor(a, b) == XorBit(a, b, 1) + XorBit(a, b, 2) + XorBit(a, b, 4) + XorBit(a, b, 8)

Combine(op, left, r) ==
  LET x == r.x
      both == left.data \union x.data
      Put(v, data, seg) == [r EXCEPT !.x.val = v, !.x.data = data, !.x.seg = seg]
      mismatch == left.seg # x.seg \/ "REL" \in SymDiff(left.data, x.data)
  IN  CASE op = "+" ->
             IF "REL" \in left.data \intersect x.data
             THEN showrelbad(Put(left.val + x.val, x.data, x.seg))
             ELSE Put(left.val + x.val, both, Or(left.seg, x.seg))
        [] op = "-" ->
             IF "REL" \in x.data /\ ("REL" \notin left.data \/ "IMP" \in both \/ mismatch)
             THEN showrelbad(Put(left.val - x.val, x.data, x.seg))
             ELSE Put(left.val - x.val,
                      (both \ {"REL"}) \union (SymDiff(left.data, x.data) \intersect {"REL"}),
                      Xor(left.seg, x.seg))
        [] op = "*" -> chkabs(Put(left.val * x.val, both, Or(left.seg, x.seg)))
        [] op = "/" -> IF Unsigned(x.val) = 0 THEN [r EXCEPT !.trap = TRUE]
                       ELSE chkabs(Put(Unsigned(left.val) \div Unsigned(x.val), both,
                                       Or(left.seg, x.seg)))
        [] op = "=" ->
             LET v == IF left.val = x.val THEN -1 ELSE 0
             IN  IF "IMP" \in both \/ mismatch THEN showrelbad(Put(v, x.data, x.seg))
                 ELSE Put(v, (left.data \intersect x.data) \ {"REL"}, 0)

Node(t, r) ==
  CASE t.op = "num" -> [r EXCEPT !.x.val = t.n, !.x.data = {}, !.x.seg = 0]
    [] t.op = "here" ->
         LET s == [r EXCEPT !.x.val = r.loc.lc, !.x.data = r.loc.data, !.x.seg = r.loc.seg]
         IN  IF pass = last_pass /\ "UND" \in r.loc.data THEN experror(s) ELSE s
    [] t.op = "id" -> Identifier(t.name, lookup(t.name, r))
    [] t.op = "neg" -> [chkabs(r) EXCEPT !.x.val = -@]
    [] OTHER -> Combine(t.op, r.vals[t.left], r)
Noted(r) == [r EXCEPT !.vals = Append(@, r.x)]
expres(e, r) ==
  LET upto[i \in 0..Len(e)] ==
        IF i = 0 THEN [r EXCEPT !.vals = <<>>]
        ELSE Bind(upto[i - 1], LAMBDA s : Noted(Node(e[i], s)))
  IN  upto[Len(e)]
Names(e) == {e[i].name : i \in {j \in DOMAIN e : e[j].op = "id"}}

absexpres(e, r) == Bind(expres(e, r), chkabs)
nonimpexpres(e, r) ==
  Bind(expres(e, r), LAMBDA s : IF "IMP" \in s.x.data THEN experror(s) ELSE s)
Undefined(r) == "UND" \in r.x.data

(***************************************************************************)
(* asline, before the operation: a label is bound to the location counter; *)
(* a label that was confirmed keeps its value in the first pass.           *)
(***************************************************************************)
At(s, r) == [s EXCEPT !.data = (@ \intersect {"FOR"}) \union r.loc.data, !.seg = r.loc.seg,
                      !.val = r.loc.lc]
Labelled(l, r0) ==
  IF l.label = "" THEN r0
  ELSE Bind(lookup(l.label, r0), LAMBDA r1 :
    LET n == l.label
        s == r1.syms[n]
        r == [r1 EXCEPT !.old = s.val]
    IN  IF s.type \intersect {"LAB", "VAR"} # {}
        THEN LET moved == IF pass # 0 /\ "VAR" \notin s.type
                          THEN [r EXCEPT !.syms[n] = At(s, r)] ELSE r
             IN  ErrIf("RED" \in s.type, [moved EXCEPT !.label = n])
        ELSE IF SegRel(s, r)
             THEN [r EXCEPT !.syms[n] = [At(s, r) EXCEPT !.type = @ \ {"COMM"}], !.label = n]
             ELSE Err(r))

Moved(r) == Err([r EXCEPT !.dirty = TRUE])      \* UNSTABLE_LABEL
Unstable(p, n, r) == IF p # 0 /\ r.syms[n].val # r.old THEN Moved(r) ELSE r

(* assemble, after the operation: confirm the label, in pass p. *)
MutMovesUnseen(p, r) ==
  IF r.label = "" THEN r
  ELSE [r EXCEPT !.syms[r.label].type = @ \union {"LAB"}]
Confirmed(p, r) ==
  IF r.label = "" THEN r
  ELSE [Unstable(p, r.label, r) EXCEPT !.syms[r.label].type =
          IF "RED" \in @ THEN (@ \union {"LAB", "EXP"}) \ {"RED"} ELSE @ \union {"LAB"}]

(* genobj: the bytes of a line are assembled from lc on.  Those of FCB, FCC *)
(* and FDB are counted in an unsigned char: of n items only these are      *)
(* written, though lc moves by all.                                        *)
Kept(n) ==
  CASE Line.op \in {"fcb", "fcc"} -> ((n - 1) % CharSpan) + 1
    [] Line.op = "fdb" -> ((n - 1) % (CharSpan \div 2)) + 1
    [] OTHER -> n
EmitItem(c, kept, r) ==
  LET at == r.loc.lc
      put == [k \in {<<r.loc.cur, at + i>> : i \in 0..(c.size - 1)} |->
                [x |-> c.x, size |-> c.size, i |-> k[2] - at + 1]]
      moved == [r EXCEPT !.loc.lc = @ + c.size]
  IN  IF pass = last_pass
      THEN [moved EXCEPT !.enc = IF kept THEN genobjadr(@, c.x, c.size, header.arrext) ELSE @,
                         !.emitted = Over(put, @)]
      ELSE moved
Emit(r) ==
  LET upto[i \in 0..Len(r.code)] ==
        IF i = 0 THEN r ELSE Bind(upto[i - 1], LAMBDA s : EmitItem(r.code[i], i <= Kept(Len(r.code)), s))
  IN  [upto[Len(r.code)] EXCEPT !.loc.lc = @ + r.jump]

Item(x, size) == [x |-> x, size |-> size]
Code(r, size) == [r EXCEPT !.code = Append(@, Item(r.x, size))]
Literal(r, v) == [r EXCEPT !.code = Append(@, Item(Value(v, {}, 0), 1))]

(***************************************************************************)
(* Directives (pops.c).                                                    *)
(***************************************************************************)
(* IMPORT; a name that has a definition is an error. *)
DeclareImport(n, r0) == Bind(lookup(n, r0), LAMBDA r :
  LET s == r.syms[n]
  IN  IF s.type \intersect {"MAC", "VAR"} # {} \/ ~SegRel(s, r) THEN Err(r)
      ELSE IF s.type \intersect {"COMM", "EXP", "LAB"} # {} THEN Err(r)
           ELSE [r EXCEPT !.syms[n].data = r.loc.data \union {"FOR", "IMP", "REL"},
                          !.syms[n].seg = r.loc.seg])
(* ENTRY, EXPORT; .GLOBL *)
doentexp(n, kind, r0) == Bind(lookup(n, r0), LAMBDA r :
  LET s == r.syms[n]
      global ==
        IF s.type \intersect {"EXP", "LAB"} # {} THEN [s EXCEPT !.type = @ \union {"EXP"}]
        ELSE [s EXCEPT !.type = @ \union {"RED"}, !.data = @ \union {"IMP"},
                       !.seg = IF "IMP" \in s.data THEN @ ELSE NLoc - 1]
      exported == [s EXCEPT !.type = @ \union (IF kind = "entry" THEN {"ENT", "EXP"} ELSE {"EXP"}),
                            !.data = @ \ {"IMP"}]
  IN  IF s.type \intersect {"MAC", "VAR", "COMM"} # {} THEN Err(r)
      ELSE IF pass = last_pass THEN ErrIf(kind # "globl" /\ "LAB" \notin s.type, r)
           ELSE [r EXCEPT !.syms[n] = IF kind = "globl" THEN global ELSE exported])

docomm(n, l, r0) == Bind(absexpres(l.e, r0), LAMBDA r :
  LET s == r.syms[n]
  IN  IF ~SegRel(s, r) THEN Err(r)
      ELSE IF s.type \intersect {"EXP", "LAB"} # {} THEN labelerror(r)
           ELSE [r EXCEPT
                  !.syms[n] = [s EXCEPT
                    !.val = IF "COMM" \notin s.type \/ Unsigned(r.x.val) > Unsigned(s.val)
                            THEN r.x.val ELSE s.val,
                    !.type = @ \union {"COMM"} \union (IF l.local THEN {"RED"} ELSE {}),
                    !.data = {"FOR", "IMP", "REL"}, !.seg = r.loc.seg],
                  !.label = ""])
pcomm(l, r) ==
  IF r.label = "" \/ "VAR" \in r.syms[r.label].type THEN labelerror(r)
  ELSE docomm(r.label, l, r)
pcomm1(l, r0) ==      \* .COMM name, size: in the bss, then back to where it was
  Bind(setloc(BssLoc, lookup(l.name, IF r0.label # "" THEN labelerror(r0) ELSE r0)), LAMBDA r :
    LET s == r.syms[l.name]
        named == s.type \intersect {"MAC", "VAR"} = {}
        taken == s.type \intersect {"EXP", "LAB"} # {}
        common == [r EXCEPT !.syms[l.name].data = r.loc.data \union {"FOR", "IMP", "REL"},
                            !.syms[l.name].seg = r.loc.seg]
    IN  setloc(r0.loc.seg,
               IF ~named THEN Err(r)
               ELSE IF ~SegRel(s, r) THEN Err([r EXCEPT !.label = l.name])
               ELSE IF taken THEN absexpres(l.e, Err([r EXCEPT !.label = l.name]))
                    ELSE docomm(l.name, l, common)))

(* EQU and SET. *)
showredefinedlabel(r) ==
  LET n == r.label
      shown == [r EXCEPT !.label = ""]
  IN  IF "RED" \in r.syms[n].type THEN shown
      ELSE Err([shown EXCEPT !.syms[n].type = @ \union {"RED"}])
doequset(bits, l, r0) ==
  LET n == r0.label
      old == r0.syms[n]
  IN  Bind(nonimpexpres(l.e, [r0 EXCEPT !.syms[n].type = @ \union bits,
                                        !.syms[n].data = @ \ {"IMP"}]), LAMBDA r :
        LET data == r.x.data \union (old.data \intersect {"FOR"})
            differs == \/ SymDiff(old.data, data) \intersect {"REL", "UND"} # {}
                       \/ r.syms[n].val # r.x.val
            set == [r EXCEPT !.syms[n].data = data, !.syms[n].seg = r.x.seg,
                             !.syms[n].val = r.x.val, !.label = ""]
        IN  IF "LAB" \in old.type /\ "UND" \notin old.data /\ pass = 0 /\ differs
            THEN showredefinedlabel(r)
            ELSE IF "VAR" \in bits THEN set ELSE Unstable(pass, n, set))
pequ(l, r) ==
  IF r.label = "" THEN labelerror(r)
  ELSE LET type == r.syms[r.label].type
       IN  IF "COMM" \in type THEN showredefinedlabel(r)
           ELSE IF "VAR" \in type THEN labelerror(r) ELSE doequset({"LAB"}, l, r)
pset(l, r) ==
  IF r.label = "" THEN labelerror(r)
  ELSE LET type == r.syms[r.label].type
       IN  IF "COMM" \in type THEN labelerror(r)
           ELSE doequset(IF "LAB" \in type THEN {} ELSE {"VAR"}, l, r)

(* A directive that has no label. *)
Bare(r) == IF r.label # "" THEN labelerror(r) ELSE r

porg(l, r0) == Bind(absexpres(l.e, Bare(r0)), LAMBDA r :
  LET bound == [r EXCEPT !.loc.data = r.x.data, !.loc.seg = r.x.seg]
  IN  IF Undefined(r) THEN bound
      ELSE [Rmb(bound, r.x.val - r.loc.lc) EXCEPT !.loc.lc = r.x.val])
ploc(l, r0) == Bind(absexpres(l.e, Bare(r0)), LAMBDA r :
  IF Undefined(r) THEN r ELSE IF r.x.val \in 0..(NLoc - 1) THEN setloc(r.x.val, r) ELSE Err(r))
ptext(l, r) == setloc(TextLoc, r)
pdata(l, r) == setloc(BssLoc, r)

Bound(r) == [r EXCEPT !.loc.data = @ \union r.x.data, !.loc.seg = Or(@, r.x.seg)]
NoFill == <<>>
Filled(n, r) == [r EXCEPT !.code = [i \in 1..n |-> Item(r.x, 1)]]
checkdatabounds(r) == ErrIf(~Undefined(r) /\ r.x.val \notin -128..255, r)
constdata(l, size, r0) == Bind(Bound(absexpres(l.e, r0)), LAMBDA r :
  IF "UND" \in r.loc.data THEN r
  ELSE IF size # 1 \/ l.fill = NoFill THEN [Rmb(r, r.x.val * size) EXCEPT !.jump = r.x.val * size]
       ELSE Bind(checkdatabounds(absexpres(l.fill, r)), LAMBDA s : Filled(r.x.val * size, s)))
palign(l, r0) == Bind(Bound(absexpres(l.e, r0)), LAMBDA r :
  LET over == IF Unsigned(r.x.val) = 0 THEN 0 ELSE Unsigned(r.loc.lc) % Unsigned(r.x.val)
  IN  IF "UND" \in r.loc.data \/ over = 0 THEN r
      ELSE [Rmb(r, r.x.val - over) EXCEPT !.jump = r.x.val - over])
peven(l, r) == [Rmb(r, r.loc.lc % 2) EXCEPT !.jump = r.loc.lc % 2]

pfcb(e, r) == Code(checkdatabounds(absexpres(e, r)), 1)
pfdb(e, r) == Code(expres(e, r), 2)
(* The operands of a line in turn. *)
Element(op, v, r) ==
  CASE op = "fcb" -> pfcb(v, r)
    [] op = "fdb" -> pfdb(v, r)
    [] op = "import" -> DeclareImport(v, r)
    [] OTHER -> doentexp(v, op, r)
Each(op, list, r) ==
  LET upto[i \in 0..Len(list)] ==
        IF i = 0 THEN r ELSE Bind(upto[i - 1], LAMBDA s : Element(op, list[i], s))
  IN  upto[Len(list)]
pfcc(l, r) == [r EXCEPT !.code = [i \in 1..l.n |-> Item(Value(i, {}, 0), 1)]]
pfail(l, r) == ErrLast(r)

(***************************************************************************)
(* Instructions (mops.c): an opcode, and an operand of 1 or 2 bytes.       *)
(* Direct addressing is for addresses known in the first pass.             *)
(***************************************************************************)
MutForwardDirect(x) == "REL" \notin x.data /\ x.val \in 0..255
Direct(x) == x.data \intersect {"FOR", "REL"} = {} /\ x.val \in 0..255
(* Operations on memory alone have their modes at 0x60 and 0x70. *)
Mode(opcode, bits) == opcode + bits + (IF opcode < 128 THEN 64 ELSE 0)
doaltind(l, r0) == Bind(expres(l.e, r0), LAMBDA r :
  IF l.mode = "indexed"
  THEN Code(Literal(ErrIf(r.x.val \notin 0..255, r), Mode(l.opcode, 32)), 1)
  ELSE IF l.opcode >= 128 /\ (l.mode = "byte" \/ (l.mode # "word" /\ Direct(r.x)))
       THEN Code(Literal(r, Mode(l.opcode, 16)), 1)
       ELSE Code(Literal(ErrIf(l.mode = "byte", r), Mode(l.opcode, 48)), 2))
mimmed(l, r0) == Bind(expres(l.e, r0), LAMBDA r :
  IF l.long THEN Code(Literal(r, l.opcode), 2)
  ELSE Code(Literal(IF pass = last_pass THEN checkdatabounds(chkabs(r)) ELSE r, l.opcode), 1))
minher(l, r) == Literal(r, l.opcode)
mshort(l, r0) == Bind(nonimpexpres(l.e, r0), LAMBDA r :
  LET here == r.x.seg = r.loc.seg /\ "REL" \notin SymDiff(r.x.data, r.loc.data)
      offset == r.x.val - r.loc.lc - 2
      near == [r EXCEPT !.x.data = (@ \union r.loc.data) \ {"REL"}, !.x.seg = 0]
      Reach(s) == IF Undefined(s) THEN s
                  ELSE ErrIf(offset \notin -128..127, [s EXCEPT !.x.val = offset])
  IN  Code(Literal(IF pass # last_pass THEN [r EXCEPT !.x.data = {}]
                   ELSE IF here THEN Reach(near) ELSE showrelbad(r), l.opcode), 1))

(***************************************************************************)
(* A line, from asline to genobj.                                          *)
(***************************************************************************)
Fresh == [syms |-> syms, loc |-> loc, enc |-> enc, errs |-> errs, dirty |-> dirty,
          emitted |-> emitted, label |-> "", old |-> 0, x |-> Value(0, {}, 0),
          vals |-> <<>>, jump |-> 0, code |-> <<>>, trap |-> FALSE]
(* More data on a line than databuf holds is undefined: nothing more is    *)
(* said of the program.                                                    *)
Overrun(code) ==
  \/ Len(code) > FcMax /\ Line.op \in {"fcb", "fcc"}
  \/ Len(code) > FdMax /\ Line.op = "fdb"
Commit(r) ==
  \E c \in {Confirmed(pass, r)} : \E f \in {Emit(c)} :
    /\ phase' = IF f.trap \/ Overrun(f.code) THEN "crash" ELSE phase
    /\ syms' = f.syms /\ loc' = f.loc /\ enc' = f.enc
    /\ errs' = f.errs /\ dirty' = f.dirty /\ emitted' = f.emitted

Reading == phase = "as" /\ ~AtEof
OnLine(kind) == Reading /\ ~load.on /\ conds.ifflag /\ Line.op = kind
Do(op(_, _)) ==
  /\ \E l \in {Line} : \E r \in {Labelled(l, Fresh)} : \E s \in {op(l, r)} : Commit(s)
  /\ Consumed
  /\ UNCHANGED <<job, pass, header>>
Simple(op(_, _)) == Do(op) /\ UNCHANGED <<load, conds, blocks>>

Plain == OnLine("none") /\ Simple(LAMBDA l, r : r)
Fcb == OnLine("fcb") /\ Simple(LAMBDA l, r : Each("fcb", l.es, r))
Fdb == OnLine("fdb") /\ Simple(LAMBDA l, r : Each("fdb", l.es, r))
Fcc == OnLine("fcc") /\ Simple(pfcc)
Rmbs == OnLine("rmb") /\ Simple(LAMBDA l, r : constdata(l, 1, r))
Blkw == OnLine("blkw") /\ Simple(LAMBDA l, r : constdata(l, 2, r))
Align == OnLine("align") /\ Simple(palign)
Even == OnLine("even") /\ Simple(peven)
Org == OnLine("org") /\ Simple(porg)
Loc == OnLine("loc") /\ Simple(ploc)
TextSect == OnLine("text") /\ Simple(ptext)
DataSect == OnLine("data") /\ Simple(pdata)
Equ == OnLine("equ") /\ Simple(pequ)
Set == OnLine("set") /\ Simple(pset)
Comm == OnLine("comm") /\ Simple(pcomm)
Comm1 == OnLine("comm1") /\ Simple(pcomm1)
Import == OnLine("import") /\ Simple(LAMBDA l, r : Each("import", l.names, r))
Export(kind) == OnLine(kind) /\ Simple(LAMBDA l, r : Each(kind, l.names, r))
Fail == OnLine("fail") /\ Simple(pfail)
Memory == OnLine("mem") /\ Simple(doaltind)
Immediate == OnLine("imm") /\ Simple(mimmed)
Inherent == OnLine("inher") /\ Simple(minher)
Branch == OnLine("branch") /\ Simple(mshort)

(***************************************************************************)
(* BLOCK and ENDB: lc and lcdata are saved, lcptr is not.                  *)
(***************************************************************************)
Block ==
  /\ OnLine("block")
  /\ IF Len(blocks) >= MaxBlock THEN Do(LAMBDA l, r : Err(r)) /\ UNCHANGED blocks
     ELSE Do(porg) /\ blocks' = <<[lc |-> loc.lc, data |-> loc.data, seg |-> loc.seg]>> \o blocks
  /\ UNCHANGED <<load, conds>>

pendb(l, r0) ==
  LET r == Bare(r0)
      b == blocks[1]
  IN  IF blocks = <<>> THEN Err(r)
      ELSE [Rmb(r, b.lc - r.loc.lc) EXCEPT !.loc.lc = b.lc, !.loc.data = b.data, !.loc.seg = b.seg]
EndB ==
  /\ OnLine("endb")
  /\ Do(pendb)
  /\ blocks' = IF blocks = <<>> THEN <<>> ELSE Tail(blocks)
  /\ UNCHANGED <<load, conds>>

(***************************************************************************)
(* Conditionals: the only lines asline looks at while ifflag is off.       *)
(***************************************************************************)
Conditional(l) == l.op \in {"if", "elseif", "else", "endif"} /\ l.label = ""
CondLine(kind) ==
  Reading /\ ~load.on /\ Line.op = kind /\ IF conds.ifflag THEN TRUE ELSE Line.label = ""
Switch(r, c) ==
  Commit(r) /\ conds' = c /\ Consumed /\ UNCHANGED <<job, pass, header, load, blocks>>

MutElseKept(off) == [ifflag |-> conds.ifflag /\ ~off, elseflag |-> off \/ conds.elseflag,
                     stack |-> <<[ifflag |-> conds.ifflag, elseflag |-> conds.elseflag]>> \o conds.stack]
Opened(off) == [ifflag |-> conds.ifflag /\ ~off, elseflag |-> off,
                stack |-> <<[ifflag |-> conds.ifflag, elseflag |-> conds.elseflag]>> \o conds.stack]
If ==
  /\ CondLine("if")
  /\ \E r \in {Labelled(Line, Fresh)} :
       IF Len(conds.stack) >= MaxIf THEN Switch(Err(r), conds)
       ELSE \E s \in {IF conds.ifflag THEN absexpres(Line.e, r) ELSE r} :
              Switch(s, Opened(conds.ifflag /\ ~Undefined(s) /\ s.x.val = 0))

(* The scanner enters a name that an operand starts with, but not while    *)
(* ifflag is off.                                                          *)
Scanned(e, r) == IF conds.ifflag /\ e[1].op = "id" THEN lookup(e[1].name, r) ELSE r
ElseIf ==
  /\ CondLine("elseif")
  /\ IF conds.stack # <<>> /\ conds.elseflag /\ ~(Names(Line.e) \subseteq DOMAIN syms)
     THEN /\ phase' = "crash"         \* factor follows the null gsymptr
          /\ UNCHANGED <<job, pass, srcVars, lineVars, header>>
     ELSE \E r \in {Scanned(Line.e, Labelled(Line, Fresh))} :
            IF conds.stack = <<>> THEN Switch(Err(r), conds)
            ELSE \E s \in {IF conds.elseflag THEN absexpres(Line.e, r) ELSE r} :
                   LET on == conds.elseflag /\ ~Undefined(s) /\ s.x.val # 0
                   IN  Switch(s, [conds EXCEPT !.ifflag = on, !.elseflag = @ /\ ~on])
Else ==
  /\ CondLine("else")
  /\ \E r \in {Labelled(Line, Fresh)} :
       IF conds.stack = <<>> THEN Switch(Err(r), conds)
       ELSE Switch(r, [conds EXCEPT !.ifflag = conds.elseflag, !.elseflag = FALSE])
EndIf ==
  /\ CondLine("endif")
  /\ \E r \in {Labelled(Line, Fresh)} :
       IF conds.stack = <<>> THEN Switch(Err(r), conds)
       ELSE Switch(r, [ifflag |-> conds.stack[1].ifflag, elseflag |-> conds.stack[1].elseflag,
                       stack |-> Tail(conds.stack)])
SkipLine ==
  /\ Reading /\ ~load.on /\ ~conds.ifflag /\ ~Conditional(Line)
  /\ Consumed
  /\ UNCHANGED <<phase, job, pass, load, conds, blocks, lineVars, header>>

(***************************************************************************)
(* Macros and GET files.  pmacro reads lines up to MEND by itself; macload *)
(* stays set at an end of file, so reading goes on in the next file, or in *)
(* the next pass.  At the end of a GET file it takes the line that is      *)
(* still in linebuf again.                                                 *)
(***************************************************************************)
MacroSymbol(n, r) ==
  [r EXCEPT !.syms[n].type = @ \union (IF "MAC" \in @ THEN {"RED"} ELSE {"MAC"}),
            !.syms[n].data = {"UND"}]
Macro ==
  /\ OnLine("macro")
  /\ \E l \in {Line} : \E r \in {lookup(l.name, Labelled(l, Fresh))} :
       LET s == r.syms[l.name]
           bad == r.label # "" \/ "LAB" \in s.type \/ "FOR" \in s.data
           saving == ~bad /\ (pass # last_pass \/ "RED" \in s.type)
       IN  /\ Commit(IF bad THEN Err(r) ELSE IF saving THEN MacroSymbol(l.name, r) ELSE r)
           /\ load' = [on |-> TRUE, name |-> l.name, saving |-> saving, text |-> <<>>,
                        last |-> <<l>>]
  /\ Consumed
  /\ UNCHANGED <<job, pass, header, conds, blocks>>
Comment(l) == l.op = "none" /\ l.label = ""
Loaded(l) == [load EXCEPT !.text = IF Comment(l) THEN @ ELSE Append(@, l), !.last = <<l>>]
LoadLine ==
  /\ Reading /\ load.on /\ Line.op # "mend"
  /\ load' = Loaded(Line)
  /\ Consumed
  /\ UNCHANGED <<phase, job, pass, header, conds, blocks, lineVars>>
Mend ==
  /\ Reading /\ load.on /\ Line.op = "mend"
  /\ load' = NoLoad
  /\ syms' = IF load.saving
             THEN [syms EXCEPT ![load.name].text = load.text, ![load.name].data = {}] ELSE syms
  /\ Consumed
  /\ UNCHANGED <<phase, job, pass, header, conds, blocks, loc, errs, dirty, enc, emitted>>

(* MEND is no keyword: elsewhere it is an unknown operation. *)
StrayMend == OnLine("mend") /\ Simple(LAMBDA l, r : Err(lookup("mend", r)))

MutOneMoreLevel == Len(MacsAfter) > MaxMac
MacrosFull == Len(MacsAfter) >= MaxMac
Call ==
  /\ OnLine("call")
  /\ \E l \in {Line} : \E r \in {lookup(l.name, Labelled(l, Fresh))} :
       LET entered == "MAC" \in r.syms[l.name].type /\ ~MacrosFull
       IN  /\ Commit(IF entered THEN r ELSE Err(r))
           /\ macs' = IF entered THEN <<r.syms[l.name].text>> \o MacsAfter ELSE MacsAfter
  /\ files' = FilesAfter
  /\ UNCHANGED <<job, pass, header, load, conds, blocks>>

Get ==
  /\ OnLine("get")
  /\ LET full == Len(files) - 1 >= MaxGet
     IN  /\ \E r \in {Labelled(Line, Fresh)} : Commit(IF full THEN Err(r) ELSE r)
         /\ files' = IF full THEN FilesAfter
                     ELSE <<[file |-> Line.file, next |-> 1]>> \o FilesAfter
  /\ macs' = MacsAfter
  /\ UNCHANGED <<job, pass, header, load, conds, blocks>>

(***************************************************************************)
(* pproceof: an END line, or the end of a file.  asline has bound the label *)
(* of an END line, and assemble confirms it after pproceof: at the end of  *)
(* the first pass this is in the second, and in the last one never.        *)
(***************************************************************************)
AtEnd == phase = "as" /\ IF AtEof THEN TRUE ELSE OnLine("end")
Ending == IF AtEof THEN Fresh ELSE Labelled(Line, Fresh)

MutReopened == [files EXCEPT ![1].next = 1]
Unstacked == Tail(files)
EndOfGet ==
  /\ AtEnd /\ Len(files) > 1
  /\ files' = Unstacked /\ macs' = MacsAfter
  /\ \E r \in {Ending} : Commit(ErrIf(load.on, r))
  /\ load' = IF load.on THEN Loaded(load.last[1]) ELSE load
  /\ UNCHANGED <<job, pass, conds, blocks, header>>

FinalTab == [loc.tab EXCEPT ![loc.cur] = [data |-> loc.data, lc |-> loc.lc]]

(* objheader: sizes and symbols as they are at the end of the first pass.  *)
(* arrext is in the order of the hash table: any order.                    *)
InObject(s) ==
  "EXP" \in s.type \/ "IMP" \in s.data \/ (~job.globals /\ s.type \intersect {"MAC", "VAR"} = {})
SegSizes(tab) == [s \in 0..(NLoc - 1) |-> tab[s].lc % 65536]
SymEntry(s) ==
  [exported |-> "EXP" \in s.type,
   imported |-> "IMP" \in s.data /\ ~({"COMM", "RED"} \subseteq s.type),
   common |-> "COMM" \in s.type,
   rel |-> "REL" \in s.data, seg |-> s.seg, val |-> s.val % 65536]
objheader(tab, table) ==
  LET named == {n \in DOMAIN table : InObject(table[n])}
  IN  [sizes |-> SegSizes(tab),
       arrext |-> CHOOSE q \in [1..Cardinality(named) -> named] : \A n \in named : \E i \in DOMAIN q : q[i] = n,
       syms |-> [n \in named |-> SymEntry(table[n])]]

AtMain == <<[file |-> 1, next |-> 1]>>
line_zero == [FreshLoc EXCEPT !.cur = TextLoc, !.seg = TextLoc]
EndOfPass ==
  /\ AtEnd /\ Len(files) = 1 /\ pass # last_pass
  /\ pass' = pass + 1
  /\ \E r \in {Ending} : \E c \in {Confirmed(pass + 1, [r EXCEPT !.errs = FALSE, !.dirty = FALSE])} :
       /\ header' = objheader(FinalTab, r.syms)
       /\ syms' = c.syms /\ errs' = c.errs /\ dirty' = c.dirty
  /\ files' = AtMain /\ macs' = <<>> /\ blocks' = <<>>
  /\ conds' = [conds EXCEPT !.ifflag = TRUE, !.stack = <<>>]
  /\ loc' = line_zero
  /\ enc' = putobj1(initobj, <<SegCode>> \o IF TextLoc = 0 THEN <<>> ELSE <<SegCode + TextLoc>>)
  /\ UNCHANGED <<phase, job, load, emitted>>

Unclosed == blocks # <<>> \/ conds.stack # <<>> \/ "UND" \in loc.data \/ load.on
finishup ==
  /\ AtEnd /\ Len(files) = 1 /\ pass = last_pass
  /\ \E r \in {Ending} :
       /\ errs' = (r.errs \/ Unclosed) /\ syms' = r.syms
       /\ phase' = IF r.errs \/ Unclosed THEN "failed" ELSE "done"
  /\ loc' = [loc EXCEPT !.tab = FinalTab]
  /\ enc' = putobj(enc, <<0>>)
  /\ UNCHANGED <<job, pass, srcVars, dirty, header, emitted>>

AsInit ==
  /\ phase = "as" /\ job \in Jobs /\ pass = 0
  /\ files = AtMain /\ macs = <<>> /\ blocks = <<>> /\ load = NoLoad
  /\ conds = [ifflag |-> TRUE, elseflag |-> FALSE, stack |-> <<>>]
  /\ syms = <<>> /\ loc = line_zero /\ errs = FALSE /\ dirty = FALSE
  /\ header = [sizes |-> [s \in 0..(NLoc - 1) |-> 0], arrext |-> <<>>, syms |-> <<>>]
  /\ enc = initobj /\ emitted = <<>>

AsNext ==
  \/ Plain \/ Fcb \/ Fdb \/ Fcc \/ Rmbs \/ Blkw \/ Align \/ Even \/ Org \/ Loc \/ TextSect
  \/ DataSect \/ Equ \/ Set \/ Comm \/ Comm1 \/ Import \/ (\E k \in {"entry", "export", "globl"} : Export(k))
  \/ Fail \/ Memory \/ Immediate \/ Inherent \/ Branch \/ Block \/ EndB
  \/ If \/ ElseIf \/ Else \/ EndIf \/ SkipLine
  \/ Macro \/ LoadLine \/ Mend \/ StrayMend \/ Call \/ Get \/ EndOfGet \/ EndOfPass \/ finishup
=============================================================================
