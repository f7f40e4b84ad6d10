-------------------------------- MODULE LdIo --------------------------------
(***************************************************************************)
(* The linker's buffered input and output (ld/io.c) under any order of the *)
(* calls that readobj.c and writex86.c make.  outbuf is written to the     *)
(* output file when it is full, before a seek and at the end; inbuf is     *)
(* filled by reads.  System calls may fail, and write and read may do less *)
(* than asked; a failure is fatal, except that readchar reports it as the  *)
(* end of the file.                                                        *)
(*                                                                         *)
(* writeout and writechar are both writechar once per byte, readin and     *)
(* readineofok are readchar.  The relocation buffers of REL_OUTPUT have no *)
(* caller and stay empty; the text of messages is left out.                *)
(***************************************************************************)
EXTENDS Naturals, Sequences

CONSTANTS
  Bytes, Zero,   \* byte values, and the one that fills a hole in a file
  MaxOffset,     \* bound: no output file is longer
  InFiles,       \* contents of input files
  ERR,           \* not a byte
  OUTBUFSIZE, INBUFSIZE,
  MaxErrors      \* bound: errors counted in a run

Offsets == 0..(MaxOffset - 1)

ASSUME ByteAssumption == Zero \in Bytes
ASSUME SizeAssumption ==
  /\ MaxOffset \in Nat /\ MaxErrors \in Nat
  /\ OUTBUFSIZE \in Nat \ {0} /\ INBUFSIZE \in Nat \ {0}
ASSUME FileAssumption == InFiles \subseteq Seq(Bytes)

VARIABLES
  phase,     \* "start", "open", "closed", "done"; "exit" after exit(2)
  disk,      \* the bytes in the output file
  size,      \* its length
  at,        \* file offset of outfd
  outbuf,    \* bytes between outbuf and outbufptr
  mode,      \* the output file: "none", "old" (of an earlier link), "plain"
             \* (not executable) or "exec"
  infile,    \* the input file that infd is open on
  inat,      \* file offset of infd
  inbuf,     \* bytes between inbuf and inbufend
  inptr,     \* inbufptr - inbuf
  ch,        \* what the last readchar returned
  errcount   \* errors counted by undefined, interseg and reserved

outVars == <<disk, size, at, outbuf>>
inVars == <<infile, inat, inbuf, inptr, ch>>
vars == <<phase, outVars, mode, inVars, errcount>>

(* ioinit; the output file may exist, from an earlier link. *)
Init ==
  /\ phase = "start"
  /\ disk = [p \in Offsets |-> Zero] /\ size = 0 /\ at = 0 /\ outbuf = <<>>
  /\ mode \in {"none", "old"}
  /\ infile = <<>> /\ inat = 0 /\ inbuf = <<>> /\ inptr = 0 /\ ch = ERR
  /\ errcount = 0

Linking == phase \in {"start", "open"}

(***************************************************************************)
(* Output.  Overlay is a file's contents after b is written at offset a.   *)
(***************************************************************************)
Overlay(d, a, b) ==
  [p \in Offsets |-> IF a <= p /\ p < a + Len(b) THEN b[p - a + 1] ELSE d[p]]
Extent(s, a, n) == IF n = 0 \/ a + n <= s THEN s ELSE a + n

(* openout: creat truncates; permission to execute is taken away. *)
openout ==
  /\ phase = "start"
  /\ phase' = "open"
  /\ mode' = "plain"
  /\ UNCHANGED <<outVars, inVars, errcount>>

(* flushout wrote the whole buffer, and left it to be filled with rest. *)
Flushed(rest) ==
  /\ disk' = Overlay(disk, at, outbuf)
  /\ size' = Extent(size, at, Len(outbuf))
  /\ at' = at + Len(outbuf)
  /\ outbuf' = rest

(* flushout wrote less: outputerror.  File offset and buffer end with the   *)
(* process and are left as they were.                                       *)
FlushShort ==
  /\ \E n \in 0..(Len(outbuf) - 1) :
       /\ disk' = Overlay(disk, at, SubSeq(outbuf, 1, n))
       /\ size' = Extent(size, at, n)
  /\ phase' = "exit"
  /\ UNCHANGED <<at, outbuf>>

MutOneMore == Len(outbuf) > OUTBUFSIZE
BufferFull == Len(outbuf) >= OUTBUFSIZE

writechar(b) ==
  /\ phase = "open"
  /\ at + Len(outbuf) < MaxOffset
  /\ \/ /\ ~BufferFull
        /\ outbuf' = Append(outbuf, b)
        /\ UNCHANGED <<phase, disk, size, at>>
     \/ /\ BufferFull
        /\ Flushed(<<b>>)
        /\ UNCHANGED phase
     \/ /\ BufferFull
        /\ FlushShort
  /\ UNCHANGED <<mode, inVars, errcount>>

MutSeekOnly(p) ==
  /\ phase = "open"
  /\ at' = p
  /\ UNCHANGED <<phase, disk, size, outbuf, mode, inVars, errcount>>
seekout(p) ==
  /\ phase = "open"
  /\ \/ /\ disk' = Overlay(disk, at, outbuf)
        /\ size' = Extent(size, at, Len(outbuf))
        /\ outbuf' = <<>>
        /\ at' = p
        /\ UNCHANGED phase
     \/ Flushed(<<>>) /\ phase' = "exit"           \* lseek failed
     \/ FlushShort
  /\ UNCHANGED <<mode, inVars, errcount>>

closeout ==
  /\ phase = "open"
  /\ \/ Flushed(<<>>) /\ phase' = "closed"
     \/ Flushed(<<>>) /\ phase' = "exit"           \* close failed
     \/ FlushShort
  /\ UNCHANGED <<mode, inVars, errcount>>

MutAlwaysExecutable ==
  /\ phase = "closed" /\ phase' = "done"
  /\ mode' = "exec"
  /\ UNCHANGED <<outVars, inVars, errcount>>
executable ==
  /\ phase = "closed"
  /\ phase' = "done"
  /\ mode' = IF errcount > 0 THEN "none" ELSE "exec"
  /\ UNCHANGED <<outVars, inVars, errcount>>

(***************************************************************************)
(* Input.                                                                  *)
(***************************************************************************)
openin(f) ==
  /\ Linking
  /\ infile' = f /\ inat' = 0
  /\ inbuf' = <<>> /\ inptr' = 0
  /\ UNCHANGED <<phase, outVars, mode, ch, errcount>>

MutBufferUsed(p) ==
  /\ Linking
  /\ inat' = p
  /\ UNCHANGED <<phase, outVars, mode, infile, inbuf, inptr, ch, errcount>>
seekin(p) ==
  /\ Linking
  /\ inat' = p
  /\ inbuf' = <<>> /\ inptr' = 0
  /\ UNCHANGED <<phase, outVars, mode, infile, ch, errcount>>

readchar ==
  /\ Linking
  /\ \/ /\ inptr < Len(inbuf)
        /\ ch' = inbuf[inptr + 1]
        /\ inptr' = inptr + 1
        /\ UNCHANGED <<inat, inbuf>>
     \/ /\ inptr >= Len(inbuf)
        /\ \E n \in 1..INBUFSIZE :
             /\ inat + n <= Len(infile)
             /\ inbuf' = SubSeq(infile, inat + 1, inat + n)
             /\ inat' = inat + n
        /\ ch' = inbuf'[1]
        /\ inptr' = 1
     \/ /\ inptr >= Len(inbuf)                     \* end of file or error
        /\ inbuf' = <<>> /\ inptr' = 0
        /\ ch' = ERR
        /\ UNCHANGED inat
  /\ UNCHANGED <<phase, outVars, mode, infile, errcount>>

(***************************************************************************)
(* Errors: undefined, interseg and reserved count one and go on; the       *)
(* others, and a file that cannot be opened, end the run.                  *)
(***************************************************************************)
CountError ==
  /\ Linking
  /\ errcount < MaxErrors
  /\ errcount' = errcount + 1
  /\ UNCHANGED <<phase, outVars, mode, inVars>>

errexit ==
  /\ Linking
  /\ phase' = "exit"
  /\ UNCHANGED <<outVars, mode, inVars, errcount>>

Finished == phase \in {"done", "exit"} /\ UNCHANGED vars

Next ==
  \/ openout \/ closeout \/ executable \/ readchar \/ CountError \/ errexit
  \/ \E b \in Bytes : writechar(b)
  \/ \E p \in Offsets : seekout(p) \/ seekin(p)
  \/ \E f \in InFiles : openin(f)
  \/ Finished

Spec == Init /\ [][Next]_vars
-----------------------------------------------------------------------------
(***************************************************************************)
(* Properties.                                                             *)
(***************************************************************************)

(* The buffers hold bytes and never more than they have room for; the input *)
(* buffer holds the bytes of the input file before its offset.              *)
TypeOK ==
  /\ phase \in {"start", "open", "closed", "done", "exit"}
  /\ disk \in [Offsets -> Bytes] /\ size \in Nat /\ at \in Nat
  /\ outbuf \in Seq(Bytes) /\ Len(outbuf) <= OUTBUFSIZE
  /\ mode \in {"none", "old", "plain", "exec"}
  /\ infile \in Seq(Bytes) /\ inat \in Nat
  /\ inbuf \in Seq(Bytes) /\ Len(inbuf) <= INBUFSIZE
  /\ inptr \in 0..Len(inbuf)
  /\ ch \in Bytes \union {ERR}
  /\ errcount \in Nat
  /\ at + Len(outbuf) <= MaxOffset

(* What is in inbuf is what the input file has just before infd's offset,   *)
(* so that the position of the next byte is inat - Len(inbuf) + inptr.      *)
InputInSync ==
  inbuf # <<>> =>
    /\ Len(inbuf) <= inat /\ inat <= Len(infile)
    /\ \A i \in 1..Len(inbuf) : inbuf[i] = infile[inat - Len(inbuf) + i]

(* The output file may be executed only when every byte that was written    *)
(* is in it and no error was counted: a link that failed, in io.c or        *)
(* anywhere else, leaves no executable file behind.                         *)
ExecutableIsComplete ==
  mode = "exec" => phase = "done" /\ outbuf = <<>> /\ errcount = 0

(* The files as the program sees them: the output file is what is on disk   *)
(* with the buffer written over it, and the next byte of the input file is  *)
(* the one after those taken from the buffer.                               *)
Content == Overlay(disk, at, outbuf)
Length == Extent(size, at, Len(outbuf))
Where == at + Len(outbuf)
InWhere == inat - Len(inbuf) + inptr

File ==
  INSTANCE LdFiles WITH
    content <- Content, size <- Length, where <- Where, ipos <- InWhere

(* io.c implements unbuffered files: every byte written is at its position  *)
(* in the file whatever seeks and flushes came between, and readchar gives  *)
(* the byte at the position that opens, seeks and reads have led to.        *)
ImplementsFiles == File!Spec
=============================================================================
