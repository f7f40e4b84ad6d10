-------------------------------- MODULE MCAs --------------------------------
(* Sources for AsLink: every short sequence of lines from a menu, one menu  *)
(* for each part of the assembler, between fixed first and last lines.      *)
EXTENDS AsLink

MCExtern(n) == CASE n = "i" -> 4660 [] n = "g" -> 513 [] OTHER -> 770

Leaf(o, n, name) == <<[op |-> o, n |-> n, name |-> name, left |-> 0]>>
Num(n) == Leaf("num", n, "")
Id(n) == Leaf("id", 0, n)
Here == Leaf("here", 0, "")
Moved0(e, by) == [i \in DOMAIN e |-> [e[i] EXCEPT !.left = IF @ = 0 THEN 0 ELSE @ + by]]
Bin(o, a, b) == a \o Moved0(b, Len(a)) \o <<[op |-> o, n |-> 0, name |-> "", left |-> Len(a)]>>
Neg(a) == a \o Leaf("neg", 0, "")

Labeled(n, l) == [l EXCEPT !.label = n]
Word(o) == [label |-> "", op |-> o]
With(o, e) == [label |-> "", op |-> o, e |-> e]
Bytes(es) == [label |-> "", op |-> "fcb", es |-> es]
Words(es) == [label |-> "", op |-> "fdb", es |-> es]
B(n) == Bytes(<<Num(n)>>)
W(e) == Words(<<e>>)
String(n) == [label |-> "", op |-> "fcc", n |-> n]
Room(o, e, fill) == [label |-> "", op |-> o, e |-> e, fill |-> fill]
Names1(o, n) == [label |-> "", op |-> o, names |-> <<n>>]
Mem(mode, code, e) == [label |-> "", op |-> "mem", mode |-> mode, opcode |-> code, e |-> e]
Imm(code, long, e) == [label |-> "", op |-> "imm", opcode |-> code, long |-> long, e |-> e]
Nop == [label |-> "", op |-> "inher", opcode |-> 1]
Bra(e) == [label |-> "", op |-> "branch", opcode |-> 32, e |-> e]
Common(local, e) == [label |-> "", op |-> "comm", local |-> local, e |-> e]
Common1(n, e) == [label |-> "", op |-> "comm1", name |-> n, local |-> FALSE, e |-> e]
Named(o, n) == [label |-> "", op |-> o, name |-> n]
Include(f) == [label |-> "", op |-> "get", file |-> f]

Seqs(menu, n) == UNION {[1..k -> menu] : k \in 0..n}
Between(firsts, menu, n, lasts) == {f \o q \o l : f \in firsts, q \in Seqs(menu, n), l \in lasts}
Main(mains, textseg, undimp) ==
  {[files |-> <<s, <<>>>>, textseg |-> textseg, undimp |-> undimp, globals |-> undimp] : s \in mains}
Both(mains, seconds) ==
  {[files |-> <<s, t>>, textseg |-> -1, undimp |-> FALSE, globals |-> TRUE] : s \in mains, t \in seconds}

(* Location counters, ORG and BLOCK. *)
Places == {With("loc", Num(3)), With("loc", Num(0)), With("org", Num(2)), With("block", Num(0)),
           Word("endb"), W(Id("l")), Bytes(<<Num(1), Num(2)>>), Room("rmb", Num(1), NoFill)}
PlaceEnds == {<<Labeled("l", B(9))>>}
Sections == {Word("text"), Word("data"), B(1), With("align", Num(2)), W(Id("l")),
             With("loc", Bin("*", Num(2), Num(4)))}
PlaceJobs ==
  Main(Between({<<B(7)>>}, Places, 3, PlaceEnds), -1, FALSE)
    \union Main(Between({<<>>, <<B(7), Word("data")>>}, Sections, 2, PlaceEnds), 4, FALSE)

(* Two BLOCKs after each of which a byte goes into the other's segment, and *)
(* labels whose segment is not known in the first pass.                     *)
InBlock(n, seg) == <<With("block", Num(n)), With("loc", Num(seg)), Word("endb")>>
Exchange ==
  <<With("loc", Num(3)), B(1), With("loc", Num(4)), B(2)>> \o InBlock(1, 3)
    \o <<With("loc", Num(4)), B(66), With("loc", Num(3)), B(50)>> \o InBlock(2, 4)
    \o <<With("loc", Num(3)), B(51)>>
LateSegment ==
  <<Names1("export", "l"), With("loc", Id("n")), Labeled("l", B(1)), With("loc", Id("m")), B(2),
    Labeled("n", With("equ", Num(1))), Labeled("m", With("equ", Num(0)))>>
(* An absolute value that carries a segment: ORG in a counter, then LOC     *)
(* away and back.                                                          *)
AbsoluteIn(seg, n) == <<With("loc", Num(seg)), With("org", Num(n))>>
MixedSegments ==
  {AbsoluteIn(3, 2) \o AbsoluteIn(4, 1) \o
   <<With("loc", Num(3)), Labeled("a", B(1)), With("loc", Num(4)), W(Bin(o, Here, Id("a"))),
     With("org", Bin(o, Here, Id("a"))), B(5), Labeled("b", With("equ", Here)), With("loc", Num(0)), W(Id("b"))>>
   : o \in {"+", "-", "*"}}
LateEnd ==
  <<Names1("export", "l"), Room("rmb", Id("n"), NoFill), Labeled("n", With("equ", Num(1))),
    Labeled("l", Word("end"))>>
MovedEnd == <<B(1), Labeled("l", Word("end"))>>
LateJobs == Main({Exchange, LateSegment, LateEnd, MovedEnd} \union MixedSegments, -1, FALSE)

(* Conditionals. *)
Conds == {With("if", Num(0)), With("if", Id("f")), Word("else"), With("elseif", Num(1)),
          With("elseif", Id("z")), Word("endif"), B(1)}
CondJobs ==
  Main(Between({<<>>, <<With("if", Num(0)), With("if", Num(1))>>}, Conds, 3,
               {<<Labeled("f", With("equ", Num(0))), Labeled("k", B(1)), Names1("export", "k")>>}),
       -1, FALSE)

(* Macros and GET. *)
Nest == {Named("macro", "m"), Word("mend"), Named("call", "m"), Include(2), Word("end"),
         Labeled("k", B(1)), Labeled("k", Word("end"))}
Twice == <<Named("macro", "m"), B(2), Named("call", "m"), Named("call", "m"), Word("mend")>>
NestJobs ==
  Both(Between({<<>>, Twice}, Nest, 3, {<<B(3)>>}),
       {<<B(7), Named("call", "m")>>, <<Include(2), Labeled("e", Word("end")), B(8)>>, <<Named("macro", "m")>>})

(* Symbols, expressions and instructions. *)
Decls == {<<>>, <<Names1("import", "i")>>, <<Names1("globl", "l")>>, <<Names1("entry", "l")>>,
          <<Labeled("l", Common(TRUE, Num(2)))>>, <<Labeled("v", With("set", Num(1)))>>}
Uses == {W(Id("l")), W(Bin("+", Id("i"), Num(300))), W(Bin("-", Here, Id("l"))),
         Mem("any", 128, Id("l")), Mem("any", 0, Id("v")), Mem("byte", 128, Id("l")),
         Mem("indexed", 128, Id("v")), Imm(128, FALSE, Id("v")), Imm(206, TRUE, Id("l")),
         Bra(Id("l")), Bytes(<<Neg(Id("v")), Bin("=", Id("l"), Id("v"))>>),
         Labeled("v", With("set", Bin("+", Id("v"), Num(1)))), Labeled("l", Nop),
         Room("rmb", Bin("/", Num(2), Id("v")), NoFill), Names1("export", "l"), Names1("globl", "v"),
         Common1("l", Num(4)), Word("fail"), Word("even")}
Defs == {<<Labeled("l", Nop)>>, <<B(1), Labeled("l", With("equ", Num(5)))>>,
         <<Labeled("l", Word("none"))>>}
SymJobs == UNION {Main(Between(Decls, Uses, 2, Defs), -1, u) : u \in {FALSE}}
             \union Main(Between(Decls, Uses, 1, Defs), -1, TRUE)

(* The encoder's limits. *)
Fill(n) == Room("rmb", Num(n), Num(7))
Sizes == {Fill(63), Fill(64), Fill(65), Room("rmb", Num(255), NoFill),
          Room("rmb", Num(256), NoFill), Room("blkw", Num(1), NoFill), Fill(2), String(3), B(1), W(Id("i"))}
SizeJobs == Main(Between({<<>>}, Sizes, 2, {<<>>, <<B(1)>>}), -1, TRUE)

(* Lines longer than genobj counts and than databuf holds. *)
Many(n) == [i \in 1..n |-> Num(i % 256)]
LongLines == {String(8), String(9), String(11), Bytes(Many(9)), Words(Many(3)), Words(Many(4)),
              Words(Many(5)), Fill(9)}
LongJobs == Main(Between({<<>>}, LongLines, 1, {<<>>, <<B(1)>>, <<With("org", Num(1))>>}), -1, TRUE)

MCJobs == PlaceJobs \union LateJobs \union CondJobs \union NestJobs \union SymJobs \union SizeJobs
            \union LongJobs
=============================================================================
