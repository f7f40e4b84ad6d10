----------------------------- MODULE LdIoProofs -----------------------------
(***************************************************************************)
(* Theorems about LdIo for every buffer size, file and bound: its type     *)
(* invariant, the input buffer in step with the file, no incomplete        *)
(* executable, and the refinement of LdFiles.                              *)
(***************************************************************************)
EXTENDS LdIo, SequenceTheorems, TLAPS

(* Overlay gives a byte to every offset.                                    *)
LEMMA OverlayType ==
  ASSUME NEW d \in [Offsets -> Bytes], NEW x \in Nat, NEW s \in Seq(Bytes)
  PROVE  Overlay(d, x, s) \in [Offsets -> Bytes]
<1> SUFFICES ASSUME NEW p \in Offsets, x <= p, p < x + Len(s)
             PROVE  s[p - x + 1] \in Bytes
  BY DEF Overlay
<1>1. p - x + 1 \in 1..Len(s)
  BY SizeAssumption DEF Offsets
<1> QED BY <1>1

(* A file is as long as before or as what was written needs.                *)
LEMMA ExtentType ==
  ASSUME NEW s \in Nat, NEW x \in Nat, NEW n \in Nat
  PROVE  Extent(s, x, n) \in Nat
BY DEF Extent

(* The first n bytes of a sequence of bytes.                                *)
LEMMA Prefix ==
  ASSUME NEW s \in Seq(Bytes), NEW n \in 0..Len(s)
  PROVE  /\ SubSeq(s, 1, n) \in Seq(Bytes) /\ Len(SubSeq(s, 1, n)) = n
         /\ \A i \in 1..n : SubSeq(s, 1, n)[i] = s[i]
OBVIOUS

(* A write that is followed by nothing writes nothing.                      *)
LEMMA OverlayEmpty ==
  ASSUME NEW d \in [Offsets -> Bytes], NEW x \in Nat
  PROVE  Overlay(d, x, <<>>) = d
BY SizeAssumption DEF Overlay, Offsets

(* Writing b after s is writing b at the position that s leads to.          *)
LEMMA OverlayAppend ==
  ASSUME NEW d \in [Offsets -> Bytes], NEW x \in Nat, NEW s \in Seq(Bytes),
         NEW b \in Bytes
  PROVE  Overlay(d, x, Append(s, b)) = [Overlay(d, x, s) EXCEPT ![x + Len(s)] = b]
<1> DEFINE t == Append(s, b)
<1>1. t \in Seq(Bytes) /\ Len(t) = Len(s) + 1 /\ t[Len(s) + 1] = b
  OBVIOUS
<1>2. \A i \in 1..Len(s) : t[i] = s[i]
  OBVIOUS
<1> HIDE DEF t
<1> SUFFICES ASSUME NEW p \in Offsets
             PROVE  Overlay(d, x, t)[p]
                      = [Overlay(d, x, s) EXCEPT ![x + Len(s)] = b][p]
  BY DEF Overlay, t
<1>3. p \in Nat
  BY SizeAssumption DEF Offsets
<1>4. CASE p = x + Len(s)
  BY <1>1, <1>3, <1>4 DEF Overlay
<1>5. CASE p # x + Len(s) /\ x <= p /\ p < x + Len(s)
  <2>1. p - x + 1 \in 1..Len(s)
    BY <1>3, <1>5
  <2> QED BY <1>1, <1>2, <1>3, <1>5, <2>1 DEF Overlay
<1>6. CASE p # x + Len(s) /\ ~(x <= p /\ p < x + Len(s))
  BY <1>1, <1>3, <1>6, SMTT(30) DEF Overlay
<1> QED BY <1>4, <1>5, <1>6

(* Writing s and then b after it is writing b over what s has left.         *)
LEMMA OverlayOne ==
  ASSUME NEW d \in [Offsets -> Bytes], NEW x \in Nat, NEW b \in Bytes
  PROVE  Overlay(d, x, <<b>>) = [d EXCEPT ![x] = b]
<1> SUFFICES ASSUME NEW p \in Offsets
             PROVE  Overlay(d, x, <<b>>)[p] = [d EXCEPT ![x] = b][p]
  BY DEF Overlay
<1>1. p \in Nat
  BY SizeAssumption DEF Offsets
<1> QED BY <1>1 DEF Overlay

(* Writing all of s over a part of it that was written already.             *)
LEMMA OverlayAgain ==
  ASSUME NEW d \in [Offsets -> Bytes], NEW x \in Nat, NEW s \in Seq(Bytes),
         NEW n \in 0..Len(s)
  PROVE  Overlay(Overlay(d, x, SubSeq(s, 1, n)), x, s) = Overlay(d, x, s)
<1> DEFINE t == SubSeq(s, 1, n)
<1>1. t \in Seq(Bytes) /\ Len(t) = n /\ n <= Len(s) /\ n \in Nat
  BY Prefix
<1> HIDE DEF t
<1> SUFFICES ASSUME NEW p \in Offsets
             PROVE  Overlay(Overlay(d, x, t), x, s)[p] = Overlay(d, x, s)[p]
  BY DEF Overlay, t
<1>2. p \in Nat
  BY SizeAssumption DEF Offsets
<1> QED BY <1>1, <1>2 DEF Overlay

-----------------------------------------------------------------------------
(* flushout, whole or short, keeps the output variables typed.              *)
LEMMA FlushType ==
  ASSUME TypeOK
  PROVE  /\ Overlay(disk, at, outbuf) \in [Offsets -> Bytes]
         /\ Extent(size, at, Len(outbuf)) \in Nat
         /\ FlushShort => /\ disk' \in [Offsets -> Bytes] /\ size' \in Nat
                          /\ UNCHANGED <<at, outbuf>> /\ phase' = "exit"
<1>1. FlushShort => disk' \in [Offsets -> Bytes] /\ size' \in Nat
  <2> SUFFICES ASSUME NEW n \in 0..(Len(outbuf) - 1),
                      disk' = Overlay(disk, at, SubSeq(outbuf, 1, n)),
                      size' = Extent(size, at, n)
               PROVE  disk' \in [Offsets -> Bytes] /\ size' \in Nat
    BY DEF FlushShort
  <2>1. outbuf \in Seq(Bytes) /\ n \in 0..Len(outbuf) /\ n \in Nat
    BY DEF TypeOK
  <2>2. SubSeq(outbuf, 1, n) \in Seq(Bytes)
    BY <2>1, Prefix
  <2> QED BY <2>1, <2>2, OverlayType, ExtentType DEF TypeOK
<1>2. disk \in [Offsets -> Bytes] /\ at \in Nat /\ outbuf \in Seq(Bytes)
      /\ size \in Nat /\ Len(outbuf) \in Nat
  BY DEF TypeOK
<1>3. Overlay(disk, at, outbuf) \in [Offsets -> Bytes]
  BY <1>2, OverlayType
<1>4. Extent(size, at, Len(outbuf)) \in Nat
  BY <1>2, ExtentType
<1>5. FlushShort => UNCHANGED <<at, outbuf>> /\ phase' = "exit"
  BY DEF FlushShort
<1> QED BY <1>1, <1>3, <1>4, <1>5

(* Type correctness: no buffer overflows, and offsets stay in the file.     *)
THEOREM TypeInvariant == Spec => []TypeOK
<1>1. Init => TypeOK
  BY ByteAssumption, SizeAssumption DEF Init, TypeOK, Offsets
<1>2. TypeOK /\ [Next]_vars => TypeOK'
  <2> SUFFICES ASSUME TypeOK, [Next]_vars PROVE TypeOK'
    OBVIOUS
  <2> USE SizeAssumption
  <2>1. CASE openout
    BY <2>1 DEF openout, outVars, inVars, TypeOK
  <2>2. CASE closeout
    <3>1. CASE Flushed(<<>>) /\ phase' \in {"closed", "exit"}
      BY <2>2, <3>1, FlushType DEF closeout, Flushed, inVars, TypeOK
    <3>2. CASE FlushShort
      BY <2>2, <3>2, FlushType DEF closeout, inVars, TypeOK
    <3> QED BY <2>2, <3>1, <3>2 DEF closeout
  <2>3. CASE executable
    BY <2>3 DEF executable, outVars, inVars, TypeOK
  <2>4. CASE readchar
    <3>1. /\ inbuf' \in Seq(Bytes) /\ Len(inbuf') <= INBUFSIZE
          /\ inptr' \in 0..Len(inbuf') /\ inat' \in Nat
          /\ ch' \in Bytes \union {ERR}
      <4>1. CASE inptr < Len(inbuf) /\ UNCHANGED <<inat, inbuf>>
                 /\ inptr' = inptr + 1 /\ ch' = inbuf[inptr + 1]
        BY <4>1 DEF TypeOK
      <4>2. CASE \E n \in 1..INBUFSIZE :
                   /\ inat + n <= Len(infile)
                   /\ inbuf' = SubSeq(infile, inat + 1, inat + n)
                   /\ inat' = inat + n
                   /\ ch' = inbuf'[1] /\ inptr' = 1
        BY <4>2 DEF TypeOK
      <4>3. CASE inbuf' = <<>> /\ inptr' = 0 /\ ch' = ERR /\ UNCHANGED inat
        BY <4>3 DEF TypeOK
      <4> QED BY <2>4, <4>1, <4>2, <4>3 DEF readchar
    <3> QED BY <2>4, <3>1 DEF readchar, outVars, TypeOK
  <2>5. CASE CountError \/ errexit
    <3>1. CASE CountError
      BY <3>1 DEF CountError, outVars, inVars, TypeOK
    <3>2. CASE errexit
      BY <3>2 DEF errexit, outVars, inVars, TypeOK
    <3> QED BY <2>5, <3>1, <3>2
  <2>6. ASSUME NEW b \in Bytes, writechar(b) PROVE TypeOK'
    <3>1. CASE /\ Len(outbuf) < OUTBUFSIZE /\ outbuf' = Append(outbuf, b)
               /\ UNCHANGED <<phase, disk, size, at>>
      BY <2>6, <3>1 DEF writechar, inVars, TypeOK
    <3>2. CASE Flushed(<<b>>) /\ UNCHANGED phase
      <4>1. <<b>> \in Seq(Bytes) /\ Len(<<b>>) = 1
        OBVIOUS
      <4> QED BY <2>6, <3>2, <4>1, FlushType DEF writechar, Flushed, inVars, TypeOK
    <3>3. CASE FlushShort
      BY <2>6, <3>3, FlushType DEF writechar, inVars, TypeOK
    <3>4. Len(outbuf) < OUTBUFSIZE \/ BufferFull
      BY DEF BufferFull, TypeOK
    <3> QED BY <2>6, <3>1, <3>2, <3>3, <3>4 DEF writechar, BufferFull, TypeOK
  <2>7. ASSUME NEW p \in Offsets, seekout(p) PROVE TypeOK'
    <3>1. CASE /\ disk' = Overlay(disk, at, outbuf)
               /\ size' = Extent(size, at, Len(outbuf))
               /\ outbuf' = <<>> /\ at' = p /\ UNCHANGED phase
      BY <2>7, <3>1, FlushType DEF seekout, inVars, TypeOK, Offsets
    <3>2. CASE Flushed(<<>>) /\ phase' = "exit"
      BY <2>7, <3>2, FlushType DEF seekout, Flushed, inVars, TypeOK
    <3>3. CASE FlushShort
      BY <2>7, <3>3, FlushType DEF seekout, inVars, TypeOK
    <3> QED BY <2>7, <3>1, <3>2, <3>3 DEF seekout
  <2>8. ASSUME NEW p \in Offsets, seekin(p) PROVE TypeOK'
    BY <2>8 DEF seekin, outVars, TypeOK, Offsets
  <2>9. ASSUME NEW f \in InFiles, openin(f) PROVE TypeOK'
    BY <2>9, FileAssumption DEF openin, outVars, TypeOK
  <2>10. CASE UNCHANGED vars
    BY <2>10 DEF vars, outVars, inVars, TypeOK
  <2> QED BY <2>1, <2>2, <2>3, <2>4, <2>5, <2>6, <2>7, <2>8, <2>9, <2>10
          DEF Next, Finished
<1> QED BY <1>1, <1>2, PTL DEF Spec
-----------------------------------------------------------------------------
(* A read of n bytes fills the buffer with the next n of the file.          *)
LEMMA ReadBlock ==
  ASSUME NEW s \in Seq(Bytes), NEW x \in Nat, NEW n \in Nat \ {0}, x + n <= Len(s)
  PROVE  /\ Len(SubSeq(s, x + 1, x + n)) = n
         /\ \A i \in 1..n : SubSeq(s, x + 1, x + n)[i] = s[x + i]
OBVIOUS

(* Positions in the input file, before and after the buffer is used up.     *)
LEMMA PositionArithmetic ==
  ASSUME NEW x \in Nat, NEW n \in Nat
  PROVE  /\ x - n + n = x /\ x - 0 + 0 = x
         /\ x + n - n + 1 = x + 1
OBVIOUS

(* One step keeps the input buffer in step with the input file.             *)
LEMMA InputStep ==
  ASSUME TypeOK, InputInSync, [Next]_vars
  PROVE  InputInSync'
<1>1. CASE readchar
  <2>1. CASE UNCHANGED <<infile, inat, inbuf>>
    BY <2>1 DEF InputInSync
  <2>2. CASE inbuf' = <<>>
    BY <2>2 DEF InputInSync
  <2>3. ASSUME NEW n \in 1..INBUFSIZE, inat + n <= Len(infile),
               inbuf' = SubSeq(infile, inat + 1, inat + n), inat' = inat + n,
               UNCHANGED infile
        PROVE  InputInSync'
    <3>1. Len(inbuf') = n /\ \A i \in 1..n : inbuf'[i] = infile[inat + i]
      BY <2>3, SizeAssumption DEF TypeOK
    <3> QED BY <2>3, <3>1, SizeAssumption DEF InputInSync, TypeOK
  <2> QED BY <1>1, <2>1, <2>2, <2>3 DEF readchar
<1>2. CASE UNCHANGED <<infile, inat, inbuf>>
  BY <1>2 DEF InputInSync
<1>3. CASE inbuf' = <<>>
  BY <1>3 DEF InputInSync
<1>4. [Next]_vars => \/ readchar \/ UNCHANGED <<infile, inat, inbuf>>
                     \/ inbuf' = <<>>
  BY DEF Next, openout, closeout, executable, CountError, errexit, writechar,
         seekout, seekin, openin, Finished, vars, inVars
<1> QED BY <1>1, <1>2, <1>3, <1>4

(* What is buffered of the input file is what the file has there.           *)
THEOREM InputInvariant == Spec => []InputInSync
<1>1. Init => InputInSync
  BY DEF Init, InputInSync
<1> QED BY <1>1, InputStep, TypeInvariant, PTL DEF Spec

(* ExecutableIsComplete speaks of the end; until then a file is not         *)
(* executable, and a closed one has nothing left in the buffer.             *)
ExecInv ==
  /\ mode = "exec" => phase = "done" /\ errcount = 0
  /\ phase \in {"closed", "done"} => outbuf = <<>>

(* A file that may be executed holds every byte and had no errors.          *)
THEOREM ExecutableTheorem == Spec => []ExecutableIsComplete
<1>1. Init => ExecInv
  BY DEF Init, ExecInv
<1>2. TypeOK /\ ExecInv /\ [Next]_vars => ExecInv'
  <2> SUFFICES ASSUME TypeOK, ExecInv, [Next]_vars PROVE ExecInv'
    OBVIOUS
  <2>1. CASE openout
    BY <2>1 DEF openout, ExecInv
  <2>2. CASE closeout
    BY <2>2 DEF closeout, Flushed, FlushShort, ExecInv
  <2>3. CASE executable
    BY <2>3 DEF executable, ExecInv, TypeOK, outVars
  <2>4. CASE readchar
    BY <2>4 DEF readchar, Linking, ExecInv, outVars
  <2>5. CASE CountError \/ errexit
    BY <2>5 DEF CountError, errexit, Linking, ExecInv, outVars
  <2>6. ASSUME NEW b \in Bytes, writechar(b) PROVE ExecInv'
    BY <2>6 DEF writechar, Flushed, FlushShort, ExecInv
  <2>7. ASSUME NEW p \in Offsets, seekout(p) \/ seekin(p) PROVE ExecInv'
    BY <2>7 DEF seekout, seekin, Linking, Flushed, FlushShort, ExecInv, outVars
  <2>8. ASSUME NEW f \in InFiles, openin(f) PROVE ExecInv'
    BY <2>8 DEF openin, Linking, ExecInv, outVars
  <2>9. CASE UNCHANGED vars
    BY <2>9 DEF vars, outVars, ExecInv
  <2> QED BY <2>1, <2>2, <2>3, <2>4, <2>5, <2>6, <2>7, <2>8, <2>9
          DEF Next, Finished
<1>3. ExecInv => ExecutableIsComplete
  BY DEF ExecInv, ExecutableIsComplete
<1> QED BY <1>1, <1>2, <1>3, TypeInvariant, PTL DEF Spec
-----------------------------------------------------------------------------
(* Flushing, whole or in part, changes nothing in the file the program sees.*)
LEMMA FlushUnseen ==
  ASSUME TypeOK
  PROVE  /\ Flushed(<<>>) => UNCHANGED <<Content, Length, Where>>
         /\ FlushShort => UNCHANGED <<Content, Length, Where>>
<1>1. /\ disk \in [Offsets -> Bytes] /\ at \in Nat /\ outbuf \in Seq(Bytes)
      /\ size \in Nat /\ Len(outbuf) \in Nat
      /\ Content \in [Offsets -> Bytes] /\ Length \in Nat
  BY FlushType DEF TypeOK, Content, Length
<1>2. ASSUME Flushed(<<>>) PROVE UNCHANGED <<Content, Length, Where>>
  <2>1. /\ disk' = Content /\ size' = Length /\ at' = at + Len(outbuf)
        /\ outbuf' = <<>> /\ Len(outbuf') = 0
    BY <1>2 DEF Flushed, Content, Length
  <2>2. Content' = Content
    BY <1>1, <2>1, OverlayEmpty DEF Content
  <2>3. Length' = Length
    BY <2>1 DEF Length, Extent
  <2>4. Where' = Where
    BY <1>1, <2>1 DEF Where
  <2> QED BY <2>2, <2>3, <2>4
<1>3. ASSUME FlushShort PROVE UNCHANGED <<Content, Length, Where>>
  <2>1. PICK n \in 0..(Len(outbuf) - 1) :
          /\ disk' = Overlay(disk, at, SubSeq(outbuf, 1, n))
          /\ size' = Extent(size, at, n)
    BY <1>3 DEF FlushShort
  <2>2. at' = at /\ outbuf' = outbuf
    BY <1>3 DEF FlushShort
  <2>3. n \in 0..Len(outbuf)
    BY <1>1
  <2>4. Content' = Content
    BY <1>1, <2>1, <2>2, <2>3, OverlayAgain DEF Content
  <2>5. Length' = Length
    BY <1>1, <2>1, <2>2, <2>3 DEF Length, Extent
  <2>6. Where' = Where
    BY <2>2 DEF Where
  <2> QED BY <2>4, <2>5, <2>6
<1> QED BY <1>2, <1>3

(* A byte that writechar takes is at its place in the file, whether it      *)
(* joined the buffer or began the next one.                                 *)
LEMMA WriteSeen ==
  ASSUME TypeOK, NEW b \in Bytes,
         \/ outbuf' = Append(outbuf, b) /\ UNCHANGED <<disk, size, at>>
         \/ Flushed(<<b>>)
  PROVE  /\ Content' = [Content EXCEPT ![Where] = b]
         /\ Length' = IF Where < Length THEN Length ELSE Where + 1
         /\ Where' = Where + 1
<1>1. /\ disk \in [Offsets -> Bytes] /\ at \in Nat /\ outbuf \in Seq(Bytes)
      /\ size \in Nat /\ Len(outbuf) \in Nat
      /\ Content \in [Offsets -> Bytes] /\ Length \in Nat
  BY FlushType DEF TypeOK, Content, Length
<1>2. CASE outbuf' = Append(outbuf, b) /\ UNCHANGED <<disk, size, at>>
  <2>1. Len(outbuf') = Len(outbuf) + 1
    BY <1>1, <1>2
  <2>2. Content' = [Content EXCEPT ![Where] = b]
    BY <1>1, <1>2, OverlayAppend DEF Content, Where
  <2> QED BY <1>1, <1>2, <2>1, <2>2 DEF Length, Where, Extent
<1>3. CASE Flushed(<<b>>)
  <2>1. /\ disk' = Content /\ size' = Length /\ at' = Where
        /\ outbuf' = <<b>> /\ Len(outbuf') = 1
    BY <1>3 DEF Flushed, Content, Length, Where
  <2>2. Where \in Nat
    BY <1>1 DEF Where
  <2>3. Content' = [Content EXCEPT ![Where] = b]
    BY <1>1, <2>1, <2>2, OverlayOne DEF Content
  <2>4. Length' = Extent(Length, Where, 1) /\ Where' = Where + 1
    BY <2>1 DEF Length, Where
  <2> QED BY <1>1, <2>2, <2>3, <2>4 DEF Extent
<1> QED BY <1>2, <1>3

(* readchar returns the byte at the position the program has reached, from  *)
(* the buffer or from the first byte of the next one, or ERR.               *)
LEMMA ReadSeen ==
  ASSUME TypeOK, InputInSync, readchar
  PROVE  \/ InWhere < Len(infile) /\ ch' = infile[InWhere + 1] /\ InWhere' = InWhere + 1
         \/ ch' = ERR /\ InWhere' = InWhere
<1>1. /\ infile \in Seq(Bytes) /\ inbuf \in Seq(Bytes) /\ inat \in Nat
      /\ inptr \in 0..Len(inbuf) /\ Len(inbuf) \in Nat /\ Len(infile) \in Nat
  BY DEF TypeOK
<1>2. CASE inptr < Len(inbuf) /\ ch' = inbuf[inptr + 1] /\ inptr' = inptr + 1
           /\ UNCHANGED <<inat, inbuf>>
  <2>1. inptr + 1 \in 1..Len(inbuf) /\ inbuf # <<>>
    BY <1>1, <1>2
  <2>2. /\ Len(inbuf) <= inat /\ inat <= Len(infile)
        /\ inbuf[inptr + 1] = infile[inat - Len(inbuf) + (inptr + 1)]
    BY <2>1 DEF InputInSync
  <2>3. InWhere + 1 = inat - Len(inbuf) + (inptr + 1)
    BY <1>1 DEF InWhere
  <2>4. InWhere < Len(infile) /\ InWhere' = InWhere + 1
    BY <1>1, <1>2, <2>2 DEF InWhere
  <2> QED BY <1>2, <2>2, <2>3, <2>4
<1>3. ASSUME inptr >= Len(inbuf), NEW n \in 1..INBUFSIZE, inat + n <= Len(infile),
             inbuf' = SubSeq(infile, inat + 1, inat + n), inat' = inat + n,
             ch' = inbuf'[1], inptr' = 1
      PROVE  InWhere < Len(infile) /\ ch' = infile[InWhere + 1]
             /\ InWhere' = InWhere + 1
  <2>1. n \in Nat \ {0} /\ 1 \in 1..n
    BY SizeAssumption
  <2>2. Len(inbuf') = n /\ inbuf'[1] = infile[inat + 1]
    BY <1>1, <1>3, <2>1, ReadBlock
  <2>3. inptr = Len(inbuf) /\ inat \in Nat /\ Len(inbuf) \in Nat
    BY <1>1, <1>3
  <2>4. InWhere = inat
    BY <2>3, PositionArithmetic DEF InWhere
  <2>5. InWhere' = inat + 1
    BY <1>3, <2>1, <2>2, <2>3, PositionArithmetic DEF InWhere
  <2> QED BY <1>1, <1>3, <2>1, <2>2, <2>4, <2>5
<1>4. CASE inptr >= Len(inbuf) /\ inbuf' = <<>> /\ inptr' = 0 /\ ch' = ERR
           /\ UNCHANGED inat
  <2>1. Len(inbuf') = 0
    BY <1>4
  <2> QED BY <1>1, <1>4, <2>1 DEF InWhere
<1> QED BY <1>2, <1>3, <1>4 DEF readchar

(* Calls that leave the output alone leave the file the program sees alone. *)
LEMMA OutputFrame == UNCHANGED outVars => UNCHANGED <<Content, Length, Where>>
BY DEF outVars, Content, Length, Where

(* Calls that leave the input alone leave its position alone.               *)
LEMMA InputFrame == UNCHANGED inVars => UNCHANGED <<infile, InWhere, ch>>
BY DEF inVars, InWhere

(* Every step of io.c is a step of an unbuffered file, or none at all.      *)
LEMMA StepRefines ==
  ASSUME TypeOK, InputInSync, [Next]_vars
  PROVE  [File!Next]_(File!vars)
<1> USE DEF File!outVars, File!inVars, File!Running, Linking
<1>1. CASE openout
  <2>1. File!Open
    BY <1>1, OutputFrame, InputFrame DEF openout, File!Open
  <2> QED BY <2>1 DEF File!Next
<1>2. CASE closeout
  <2>1. UNCHANGED <<Content, Length, Where, infile, InWhere, ch, mode, errcount>>
        /\ phase = "open" /\ phase' \in {"closed", "exit"}
    BY <1>2, FlushUnseen, InputFrame DEF closeout, FlushShort
  <2>2. CASE phase' = "closed"
    BY <2>1, <2>2 DEF File!Next, File!Close
  <2>3. CASE phase' = "exit"
    BY <2>1, <2>3 DEF File!Next, File!Fail
  <2> QED BY <2>1, <2>2, <2>3
<1>3. CASE executable
  <2>1. mode' = IF errcount = 0 THEN "exec" ELSE "none"
    BY <1>3 DEF executable, TypeOK
  <2>2. File!Finish
    BY <1>3, <2>1, OutputFrame, InputFrame DEF executable, File!Finish
  <2> QED BY <2>2 DEF File!Next
<1>4. CASE readchar
  <2>1. UNCHANGED <<phase, Content, Length, Where, mode, infile, errcount>>
        /\ phase \in {"start", "open"}
    BY <1>4, OutputFrame DEF readchar
  <2>2. CASE InWhere < Len(infile) /\ ch' = infile[InWhere + 1]
             /\ InWhere' = InWhere + 1
    BY <2>1, <2>2 DEF File!Next, File!ReadByte
  <2>3. CASE ch' = ERR /\ InWhere' = InWhere
    BY <2>1, <2>3 DEF File!Next, File!ReadNothing
  <2> QED BY <1>4, <2>2, <2>3, ReadSeen
<1>5. CASE CountError
  BY <1>5, OutputFrame, InputFrame DEF CountError, File!Next, File!CountError
<1>6. CASE errexit
  BY <1>6, OutputFrame, InputFrame DEF errexit, File!Next, File!Fail
<1>7. ASSUME NEW b \in Bytes, writechar(b) PROVE [File!Next]_(File!vars)
  <2>1. UNCHANGED <<mode, infile, InWhere, ch, errcount>> /\ phase = "open"
        /\ Where < MaxOffset
    BY <1>7, InputFrame DEF writechar, Where
  <2>2. CASE /\ UNCHANGED phase
             /\ \/ outbuf' = Append(outbuf, b) /\ UNCHANGED <<disk, size, at>>
                \/ Flushed(<<b>>)
    BY <2>1, <2>2, WriteSeen DEF File!Next, File!WriteByte
  <2>3. CASE FlushShort
    BY <2>1, <2>3, FlushUnseen DEF FlushShort, File!Next, File!Fail
  <2> QED BY <1>7, <2>2, <2>3 DEF writechar
<1>8. ASSUME NEW p \in Offsets, seekout(p) PROVE [File!Next]_(File!vars)
  <2>1. UNCHANGED <<mode, infile, InWhere, ch, errcount>> /\ phase = "open"
    BY <1>8, InputFrame DEF seekout
  <2>2. CASE /\ disk' = Overlay(disk, at, outbuf)
             /\ size' = Extent(size, at, Len(outbuf))
             /\ outbuf' = <<>> /\ at' = p /\ UNCHANGED phase
    <3>1. p \in Nat /\ p \in File!Offsets
      BY SizeAssumption DEF Offsets, File!Offsets
    <3>2. disk' = Content /\ size' = Length /\ Len(outbuf') = 0
      BY <2>2 DEF Content, Length
    <3>3. Content' = Content
      BY <2>2, <3>1, <3>2, FlushType, OverlayEmpty DEF Content
    <3>4. Length' = Length /\ Where' = p
      BY <2>2, <3>1, <3>2 DEF Length, Where, Extent
    <3> QED BY <2>1, <2>2, <3>1, <3>3, <3>4 DEF File!Next, File!Seek
  <2>3. CASE Flushed(<<>>) /\ phase' = "exit"
    BY <2>1, <2>3, FlushUnseen DEF File!Next, File!Fail
  <2>4. CASE FlushShort
    BY <2>1, <2>4, FlushUnseen DEF FlushShort, File!Next, File!Fail
  <2> QED BY <1>8, <2>2, <2>3, <2>4 DEF seekout
<1>9. ASSUME NEW p \in Offsets, seekin(p) PROVE [File!Next]_(File!vars)
  <2>1. p \in Nat /\ p \in File!Offsets
    BY SizeAssumption DEF Offsets, File!Offsets
  <2>2. Len(inbuf') = 0
    BY <1>9 DEF seekin
  <2>3. InWhere' = p
    BY <1>9, <2>1, <2>2 DEF seekin, InWhere
  <2> QED BY <1>9, <2>1, <2>3, OutputFrame DEF seekin, File!Next, File!SeekIn
<1>10. ASSUME NEW f \in InFiles, openin(f) PROVE [File!Next]_(File!vars)
  <2>1. Len(inbuf') = 0
    BY <1>10 DEF openin
  <2>2. InWhere' = 0
    BY <1>10, <2>1, PositionArithmetic, 0 \in Nat DEF openin, InWhere
  <2> QED BY <1>10, <2>2, OutputFrame DEF openin, File!Next, File!OpenIn
<1>11. CASE UNCHANGED vars
  BY <1>11, OutputFrame, InputFrame DEF vars, File!vars
<1> QED BY <1>1, <1>2, <1>3, <1>4, <1>5, <1>6, <1>7, <1>8, <1>9, <1>10, <1>11
        DEF Next, Finished

(* io.c's buffers cannot be told from unbuffered files.                     *)
THEOREM Refinement == Spec => ImplementsFiles
<1>1. Init => File!Init
  <2> SUFFICES ASSUME Init PROVE File!Init
    OBVIOUS
  <2>1. Len(outbuf) = 0 /\ Len(inbuf) = 0 /\ at = 0 /\ inat = 0 /\ inptr = 0
    BY DEF Init
  <2>2. Content = [p \in Offsets |-> Zero]
    BY <2>1, ByteAssumption, SizeAssumption DEF Init, Content, Overlay, Offsets
  <2>3. Length = 0 /\ Where = 0
    BY <2>1 DEF Init, Length, Extent, Where
  <2>4. InWhere = 0
    BY <2>1, PositionArithmetic, 0 \in Nat DEF InWhere
  <2> QED BY <2>2, <2>3, <2>4 DEF Init, File!Init, Offsets, File!Offsets
<1> QED BY <1>1, StepRefines, TypeInvariant, InputInvariant, PTL
        DEF Spec, ImplementsFiles, File!Spec
=============================================================================
