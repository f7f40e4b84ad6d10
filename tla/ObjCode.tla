------------------------------ MODULE ObjCode -------------------------------
(***************************************************************************)
(* The text part of an object file, as as/genobj.c writes it.              *)
(*                                                                         *)
(* The encoder gathers absolute bytes (absbuf) and skips (rmbcount) before *)
(* it writes a command for them; relsize is the relocation size it last    *)
(* wrote.  objbuf, the output buffer, is the end of out.                   *)
(*                                                                         *)
(* An address is [val, data, seg, sym], data being the flags REL, IMP, FOR *)
(* and UND of lastexp.data.                                                *)
(***************************************************************************)
EXTENDS Integers, Sequences

AbsMax == 64             \* OBJ_MAX_ABS_LEN, and 1 more than MODIFY_MASK
AbsCode == 64            \* commands
OffsetCode == 128
SymbolCode == 192
SegCode == 32
Skip1Code == 17
Skip2Code == 18

(* u2cn, u4cn: the low bytes of a number, high byte first *)
BytesOf(v, n) ==
  IF n = 1 THEN <<v % 256>> ELSE IF n = 2 THEN <<(v \div 256) % 256, v % 256>> ELSE <<>>
(* cnu2 *)
ValueOf(b) == IF b = <<>> THEN 0 ELSE IF Len(b) = 1 THEN b[1] ELSE 256 * b[1] + b[2]

(* Offsets are unsigned: a negative one is a large one. *)
isge2byteoffset(v) == v >= 256 \/ v < 0

initobj == [abs |-> <<>>, rmb |-> 0, relsize |-> 0, out |-> <<>>]

putobj1(o, bytes) == [o EXCEPT !.out = @ \o bytes]

(* A full buffer's length does not fit beside the command: 64 | 0x40 is a   *)
(* length of 0.                                                             *)
flushabs(o) ==
  IF o.abs = <<>> THEN o
  ELSE [o EXCEPT !.out = @ \o <<AbsCode + (Len(o.abs) % AbsMax)>> \o o.abs, !.abs = <<>>]

flushrmb(o) ==
  CASE o.rmb = 0 -> o
    [] isge2byteoffset(o.rmb) ->
         [o EXCEPT !.out = @ \o <<Skip2Code>> \o BytesOf(o.rmb, 2), !.rmb = 0]
    [] OTHER -> [o EXCEPT !.out = @ \o <<Skip1Code>> \o BytesOf(o.rmb, 1), !.rmb = 0]

accumulate_rmb(o, n) == [flushabs(o) EXCEPT !.rmb = @ + n]

putobj(o, bytes) == putobj1(flushrmb(flushabs(o)), bytes)

putabs(o, byte) ==
  LET s == flushrmb(o)
      f == IF Len(s.abs) = AbsMax THEN flushabs(s) ELSE s
  IN  [f EXCEPT !.abs = Append(@, byte)]

(* The number of an imported symbol is its place in arrext, or the number   *)
(* after the last one.                                                      *)
SymNum(arrext, n) ==
  LET found == {i \in DOMAIN arrext : arrext[i] = n}
  IN  IF found = {} THEN Len(arrext) ELSE (CHOOSE i \in found : \A j \in found : i <= j) - 1

SizeBits(v) == IF isge2byteoffset(v) THEN 2 ELSE IF v # 0 THEN 1 ELSE 0

MutSizeForgotten(o, x, size, arrext) ==
  IF "REL" \notin x.data
  THEN IF size = 1 THEN putabs(o, x.val % 256)
       ELSE putabs(putabs(o, BytesOf(x.val, 2)[1]), BytesOf(x.val, 2)[2])
  ELSE putobj([o EXCEPT !.relsize = size], <<OffsetCode + x.seg>> \o BytesOf(x.val, size))
genobjadr(o, x, size, arrext) ==
  IF "REL" \notin x.data
  THEN IF size = 1 THEN putabs(o, x.val % 256)
       ELSE putabs(putabs(o, BytesOf(x.val, 2)[1]), BytesOf(x.val, 2)[2])
  ELSE LET sized == IF size = o.relsize THEN o ELSE putobj([o EXCEPT !.relsize = size], <<size>>)
           num == SymNum(arrext, x.sym)
           wide == isge2byteoffset(num)
       IN  putobj(sized,
             IF "IMP" \notin x.data THEN <<OffsetCode + x.seg>> \o BytesOf(x.val, size)
             ELSE <<SymbolCode + (IF wide THEN 4 ELSE 0) + SizeBits(x.val)>>
                  \o BytesOf(num, IF wide THEN 2 ELSE 1) \o BytesOf(x.val, SizeBits(x.val)))
=============================================================================
