------------------------------ MODULE LdFiles ------------------------------
(***************************************************************************)
(* What ld/io.c promises its callers: an output file and an input file     *)
(* read and written byte by byte at a position, without buffers.  LdIo     *)
(* implements it.                                                          *)
(***************************************************************************)
EXTENDS Naturals, Sequences

CONSTANTS Bytes, Zero, MaxOffset, InFiles, ERR

Offsets == 0..(MaxOffset - 1)

VARIABLES
  phase,     \* "start", "open", "closed", "done", or "exit" after an error
  content,   \* the byte at each offset of the output file
  size,      \* its length
  where,     \* the position of the next byte written
  mode,      \* the output file: "none", "old", "plain" or "exec"
  infile,    \* the contents of the input file
  ipos,      \* the position of the next byte read
  ch,        \* what the last readchar returned
  errcount   \* errors counted so far

outVars == <<content, size, where>>
inVars == <<infile, ipos, ch>>
vars == <<phase, outVars, mode, inVars, errcount>>

Init ==
  /\ phase = "start"
  /\ content = [p \in Offsets |-> Zero] /\ size = 0 /\ where = 0
  /\ mode \in {"none", "old"}
  /\ infile = <<>> /\ ipos = 0 /\ ch = ERR
  /\ errcount = 0

Open ==
  /\ phase = "start" /\ phase' = "open"
  /\ mode' = "plain"
  /\ UNCHANGED <<outVars, inVars, errcount>>

WriteByte(b) ==
  /\ phase = "open"
  /\ where < MaxOffset
  /\ content' = [content EXCEPT ![where] = b]
  /\ size' = IF where < size THEN size ELSE where + 1
  /\ where' = where + 1
  /\ UNCHANGED <<phase, mode, inVars, errcount>>

Seek(p) ==
  /\ phase = "open"
  /\ where' = p
  /\ UNCHANGED <<phase, content, size, mode, inVars, errcount>>

Close ==
  /\ phase = "open" /\ phase' = "closed"
  /\ UNCHANGED <<outVars, mode, inVars, errcount>>

(* The file is kept, and may be executed, only after a link without errors. *)
Finish ==
  /\ phase = "closed" /\ phase' = "done"
  /\ mode' = IF errcount = 0 THEN "exec" ELSE "none"
  /\ UNCHANGED <<outVars, inVars, errcount>>

Running == phase \in {"start", "open"}

OpenIn(f) ==
  /\ Running
  /\ infile' = f /\ ipos' = 0
  /\ UNCHANGED <<phase, outVars, mode, ch, errcount>>

SeekIn(p) ==
  /\ Running
  /\ ipos' = p
  /\ UNCHANGED <<phase, outVars, mode, infile, ch, errcount>>

ReadByte ==
  /\ Running
  /\ ipos < Len(infile)
  /\ ch' = infile[ipos + 1] /\ ipos' = ipos + 1
  /\ UNCHANGED <<phase, outVars, mode, infile, errcount>>

(* The end of the file, or a read error: both are ERR to the caller. *)
ReadNothing ==
  /\ Running
  /\ ch' = ERR
  /\ UNCHANGED <<phase, outVars, mode, infile, ipos, errcount>>

CountError ==
  /\ Running
  /\ errcount' = errcount + 1
  /\ UNCHANGED <<phase, outVars, mode, inVars>>

(* exit(2).  Nothing is promised of the output file but that it is not      *)
(* made executable.                                                         *)
Fail ==
  /\ phase # "exit" /\ phase' = "exit"
  /\ UNCHANGED <<outVars, mode, inVars, errcount>>

Next ==
  \/ Open \/ Close \/ Finish \/ ReadByte \/ ReadNothing \/ CountError \/ Fail
  \/ \E b \in Bytes : WriteByte(b)
  \/ \E p \in Offsets : Seek(p) \/ SeekIn(p)
  \/ \E f \in InFiles : OpenIn(f)

Spec == Init /\ [][Next]_vars
=============================================================================
