------------------------------- MODULE AsLink -------------------------------
(***************************************************************************)
(* A source assembled by as01 (AsPasses) and its object file put into the  *)
(* image by ld01's linkmod and padmod (ld/writex86.c).                     *)
(*                                                                         *)
(* The module's segments follow each other in memory by the sizes of the   *)
(* object header, each with its padding.  The segments of Discarded        *)
(* (NOLOAD) have addresses and no place in the file.  The commands that    *)
(* the assembler does not write (long and pc-relative relocations, 4 byte  *)
(* skips) are left out.                                                    *)
(***************************************************************************)
EXTENDS AsPasses

CONSTANTS
  Base,          \* address of segment 0
  Pad,           \* padding after each segment (SUBALIGN)
  Discarded,     \* NOLOAD segments
  Extern(_)      \* values of symbols other modules define

VARIABLES
  at,            \* next byte of the object file's text part
  curseg, spos, segpos, relocsize,
  fpos,          \* place in the file, after its header
  image          \* the bytes written; what was never written reads as 0

ldVars == <<at, curseg, spos, segpos, relocsize, fpos, image>>
vars == <<asVars, ldVars>>

Segs == 0..(NLoc - 1)
FillByte == 170

(* What the layout decided from the header's sizes: segaddr, segfadj. *)
SizesBefore(seg, sizes, out) ==
  LET sum[s \in 0..NLoc] ==
        IF s = 0 THEN 0 ELSE sum[s - 1] + (IF (s - 1) \in out THEN 0 ELSE sizes[s - 1] + Pad)
  IN  sum[seg]
segaddr(seg) == Base + SizesBefore(seg, header.sizes, {})
segfadj(seg) == SizesBefore(seg, header.sizes, Discarded) - segaddr(seg)

LinkInit ==
  /\ at = 0 /\ curseg = 0 /\ spos = 0 /\ segpos = [s \in Segs |-> 0]
  /\ relocsize = 2 /\ fpos = 0 /\ image = <<>>

Open ==
  /\ phase = "done" /\ phase' = "link"
  /\ at' = 1 /\ curseg' = 0 /\ spos' = segaddr(0)
  /\ segpos' = [s \in Segs |-> segaddr(s)]
  /\ fpos' = IF 0 \in Discarded THEN fpos ELSE segaddr(0) + segfadj(0)
  /\ relocsize' = 2
  /\ UNCHANGED <<job, pass, srcVars, lineVars, header, image>>

Byte(i) == enc.out[at + i]
Operand(from, n) == ValueOf(SubSeq(enc.out, at + from, at + from + n - 1))
Command(first, last) == phase = "link" /\ Byte(0) \in first..last
Advance(n) == at' = at + n
ObjectKept == UNCHANGED <<job, pass, srcVars, lineVars, header>>

Written(bytes) == Over([p \in fpos..(fpos + Len(bytes) - 1) |-> bytes[p - fpos + 1]], image)
segwrite(bytes) ==
  /\ spos' = spos + Len(bytes)
  /\ IF curseg \in Discarded THEN UNCHANGED <<fpos, image>>
     ELSE fpos' = fpos + Len(bytes) /\ image' = Written(bytes)

SetSize ==
  /\ Command(1, 2) /\ relocsize' = Byte(0) /\ Advance(1)
  /\ ObjectKept /\ UNCHANGED <<phase, curseg, spos, segpos, fpos, image>>
writenulls(n) ==
  /\ spos' = spos + n
  /\ IF curseg \in Discarded THEN UNCHANGED <<fpos, image>>
     ELSE /\ fpos' = fpos + n
          /\ image' = [p \in DOMAIN image \ (fpos..(fpos + n - 1)) |-> image[p]]
skip ==
  /\ Command(Skip1Code, Skip2Code)
  /\ LET n == Byte(0) - Skip1Code + 1
     IN  writenulls(Operand(1, n)) /\ Advance(1 + n)
  /\ ObjectKept /\ UNCHANGED <<phase, curseg, segpos, relocsize>>

setseg(seg) ==
  IF seg = curseg THEN UNCHANGED <<curseg, spos, segpos, fpos>>
  ELSE /\ segpos' = [segpos EXCEPT ![curseg] = spos]
       /\ spos' = segpos[seg] /\ curseg' = seg
       /\ fpos' = IF seg \in Discarded THEN fpos ELSE segpos[seg] + segfadj(seg)
SetSeg ==
  /\ Command(SegCode, SegCode + NLoc - 1)
  /\ setseg(Byte(0) - SegCode) /\ Advance(1)
  /\ ObjectKept /\ UNCHANGED <<phase, relocsize, image>>

AbsCount == IF Byte(0) = AbsCode THEN AbsMax ELSE Byte(0) - AbsCode
Absolute ==
  /\ Command(AbsCode, AbsCode + AbsMax - 1)
  /\ segwrite(SubSeq(enc.out, at + 1, at + AbsCount)) /\ Advance(1 + AbsCount)
  /\ ObjectKept /\ UNCHANGED <<phase, curseg, segpos, relocsize>>
OffsetReloc ==
  /\ Command(OffsetCode, OffsetCode + NLoc - 1)
  /\ segwrite(BytesOf(segaddr(Byte(0) - OffsetCode) + Operand(1, relocsize), relocsize))
  /\ Advance(1 + relocsize)
  /\ ObjectKept /\ UNCHANGED <<phase, curseg, segpos, relocsize>>

symvalue(n) ==
  LET s == header.syms[n]
  IN  IF s.imported \/ s.common THEN Extern(n) ELSE (IF s.rel THEN segaddr(s.seg) ELSE 0) + s.val
SymbolReloc ==
  /\ Command(SymbolCode, SymbolCode + 63)
  /\ LET code == Byte(0) - SymbolCode
         w == IF code >= 4 THEN 2 ELSE 1
         num == Operand(1, w)
         offset == Operand(1 + w, code % 4)
     IN  IF num < Len(header.arrext)
         THEN /\ segwrite(BytesOf(symvalue(header.arrext[num + 1]) + offset, relocsize))
              /\ Advance(1 + w + (code % 4)) /\ UNCHANGED phase
         ELSE phase' = "crash" /\ UNCHANGED <<at, spos, fpos, image>>     \* past symparray
  /\ ObjectKept /\ UNCHANGED <<curseg, segpos, relocsize>>

EndOfText ==
  /\ Command(0, 0)
  /\ phase' = "pad" /\ segpos' = [segpos EXCEPT ![curseg] = spos]
  /\ ObjectKept /\ UNCHANGED <<at, curseg, spos, relocsize, fpos, image>>

WrongSize(seg) == segpos[seg] - segaddr(seg) # header.sizes[seg]
(* The segments are padded in turn; size_error is fatal. *)
Filled0(seg) == (segpos[seg] + segfadj(seg))..(segpos[seg] + segfadj(seg) + Pad - 1)
padmod ==
  /\ phase = "pad"
  /\ IF \E seg \in Segs : WrongSize(seg) THEN phase' = "refused" /\ UNCHANGED <<segpos, image>>
     ELSE /\ phase' = "linked"
          /\ image' = Over([p \in UNION {Filled0(seg) : seg \in Segs \ Discarded} |-> FillByte], image)
          /\ segpos' = [seg \in Segs |-> segpos[seg] + Pad]
  /\ ObjectKept /\ UNCHANGED <<at, curseg, spos, relocsize, fpos>>

Init == AsInit /\ LinkInit
Assemble == AsNext /\ UNCHANGED ldVars
LinkMod ==
  Open \/ SetSize \/ skip \/ SetSeg \/ Absolute \/ OffsetReloc \/ SymbolReloc \/ EndOfText \/ padmod
Next == Assemble \/ LinkMod
Spec == Init /\ [][Next]_vars /\ WF_vars(Next)

Ended == {"failed", "refused", "linked", "crash"}

(***************************************************************************)
(* Properties.                                                             *)
(***************************************************************************)

(* Positions are of their types, and no stack is deeper than its array     *)
(* (hid_getstak, hid_macstak, hid_ifstak, hid_blockstak), which nothing    *)
(* but the checks of pget, entermac, doif and pblock guards.               *)
TypeOK ==
  /\ phase \in {"as", "done", "link", "pad"} \union Ended
  /\ pass \in 0..last_pass
  /\ Len(files) - 1 \in 0..MaxGet
  /\ \A i \in DOMAIN files : files[i].next \in 1..(Len(Text(files[i].file)) + 1)
  /\ Len(macs) <= MaxMac /\ Len(conds.stack) <= MaxIf /\ Len(blocks) <= MaxBlock
  /\ loc.cur \in Segs /\ loc.seg \in Segs /\ curseg \in Segs /\ relocsize \in {1, 2}
  /\ \A i \in DOMAIN enc.out : enc.out[i] \in 0..255

(* What a line asked for, with addresses for segments and externals. *)
Wanted(k) ==
  LET c == emitted[k]
      base == IF "REL" \notin c.x.data THEN 0
              ELSE IF "IMP" \in c.x.data THEN Extern(c.x.sym) ELSE segaddr(c.x.seg)
  IN  BytesOf(base + c.x.val, c.size)[c.i]
PlaceOf(k) == segaddr(k[1]) + segfadj(k[1]) + k[2]

(* Segment sizes and skips have 16 bits in the object file.  Counters, code *)
(* and what genobj leaves out together stay below that.                    *)
Small ==
  /\ \A s \in Segs : loc.tab[s].lc \in 0..65535
  /\ \A k \in DOMAIN emitted : k[2] \in 0..65535
  /\ CharSpan * Cardinality({i \in DOMAIN Text(1) : Long(Text(1)[i])}) < 65536

(* When neither program complains, every byte of the linked image is what  *)
(* the source put at that place of that counter: code and data where lines *)
(* were assembled, padding after each segment, and nothing written, which  *)
(* reads as zeros, elsewhere.  The encoder's buffers, the decoder, the     *)
(* layout by the header of the first pass and the size check have to agree *)
(* for it; a line that genobj did not write whole is never accepted.       *)
(* Where setloc left the linker in another segment only the size check is  *)
(* left, which segments that exchanged as many bytes pass.                 *)
AcceptedIsRight ==
  phase = "linked" /\ ~loc.apart /\ Small =>
    LET loaded == Segs \ Discarded
        keys == {k \in DOMAIN emitted : k[1] \in loaded}
        pads == {PlaceOf(<<s, header.sizes[s] + i>>) : s \in loaded, i \in 0..(Pad - 1)}
    IN  /\ \A k \in keys : PlaceOf(k) \in DOMAIN image /\ image[PlaceOf(k)] = Wanted(k)
        /\ \A p \in pads : p \in DOMAIN image /\ image[p] = FillByte
        /\ DOMAIN image = pads \union {PlaceOf(k) : k \in keys}

(* A line is assembled only if every IF around it is being assembled, and  *)
(* an ELSE can start a branch only while none of its IF has been taken.    *)
NestedOff ==
  conds.stack # <<>> =>
    /\ conds.ifflag => \A i \in DOMAIN conds.stack : conds.stack[i].ifflag
    /\ conds.elseflag => ~conds.ifflag /\ conds.stack[1].ifflag

EndLabels == {l.label : l \in {m \in Lines(job) : m.op = "end"}}

(* The object header is written before the last pass: an accepted object   *)
(* file gives what it exports the values they have in the code, though a   *)
(* line may be assembled in the last pass alone and a label bound, set or  *)
(* made common there.  SET symbols may change, and segments are not        *)
(* compared: a label whose LOC names a later symbol keeps the segment of   *)
(* the first pass.  The label of an END line is bound in the last pass and *)
(* never confirmed.                                                        *)
HeaderIsFinal ==
  phase \in {"done", "link", "pad", "linked", "refused"} =>
    \A n \in DOMAIN header.syms :
      header.syms[n].exported /\ "VAR" \notin syms[n].type /\ n \notin EndLabels =>
        header.syms[n].val = syms[n].val % 65536

(* The size of these lines is in the line itself, and genobj writes them    *)
(* whole.                                                                  *)
Sized(l) ==
  CASE l.op \in {"if", "elseif", "macro", "call", "block", "endb", "get", "set", "loc", "org",
                 "comm", "comm1"} -> FALSE
    [] l.op \in {"rmb", "blkw", "align"} -> Len(l.e) = 1 /\ l.e[1].op = "num" /\ l.e[1].n >= 0
    [] l.op = "equ" -> Names(l.e) = {}
    [] l.op = "end" -> l.label = ""
    [] OTHER -> ~Long(l)
Sizeable ==
  LET t == Text(1)
  IN  /\ \A i \in DOMAIN t : Sized(t[i])
      /\ \A i, j \in DOMAIN t : t[i].label = t[j].label => i = j \/ t[i].label = ""

(* Only the operands of directives can make a line's size depend on the    *)
(* pass: in other sources, whatever instructions refer to ahead, no label  *)
(* moves, exported labels stay in the segment the header gives them, and   *)
(* the linker finds the segment sizes it gives, if they are below 64K.     *)
StablePasses ==
  Sizeable =>
    /\ ~dirty
    /\ phase = "refused" => ~Small
    /\ phase \in {"done", "link", "pad", "linked"} =>
         \A n \in DOMAIN header.syms :
           header.syms[n].exported /\ "LAB" \in syms[n].type => header.syms[n].seg = syms[n].seg

(* Every run of the assembler and of the linker ends: macros that call     *)
(* themselves and files that GET themselves run into the limits.           *)
AssemblyEnds == <>(phase \in Ended)
=============================================================================
