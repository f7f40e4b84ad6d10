----------------------------- MODULE ScriptRead -----------------------------
(***************************************************************************)
(* Reading a linker script (ld/script.c: commands, sections_body, section, *)
(* memory, assignment, include, script_define, script_set_entry) and the   *)
(* default script (default_script, addcounter).                            *)
(*                                                                         *)
(* The scanner is abstracted away: a file is a sequence of commands.       *)
(* INCLUDE reads another file in place.  A job is one run of ld01: its     *)
(* script files, -A definitions, options, and the modules module selection *)
(* has loaded.  script_error is fatal: phase "error".                      *)
(*                                                                         *)
(*   expression  [op |-> "num", n], "dot", [op |-> "sym", name], functions *)
(*               with a name (ADDR...), or an operator with a, b, c        *)
(*   statement   k = "assign" (akind, name, e), "assert" (e), "data" (size,*)
(*               e), "fill" (e), "input" (id, files, star, secs),          *)
(*               "onepage" (body), "section"                               *)
(***************************************************************************)
EXTENDS Naturals, Integers, Sequences, FiniteSets

CONSTANTS
  Jobs,         \* jobs: [files, main, defs, options, mods, tab]
  Files(_),     \* the script files of a job's field files: name -> commands
  MaxIncludes,  \* INCLUDE nesting: 10
  NSeg          \* location counters: 16

VARIABLES
  phase,
  job,
  input,     \* what is left of the open script files, innermost first
  top,       \* top-level statements; a section is [k |-> "section", sect]
  sects,     \* output sections in script order
  regions,   \* MEMORY regions: [name, origin, length]
  globalfill,\* the top-level FILL, or NoE
  format     \* OUTPUT_FORMAT: "aout", "binary", "srec" or "ihex"

(* headerless: -d, or an OUTPUT_FORMAT other than aout *)
Binary == job.opt.binary \/ format # "aout"

readVars == <<job, input, top, sects, regions, globalfill, format>>

NoE == [op |-> "none"]
Num(n) == [op |-> "num", n |-> n]
Dot == [op |-> "dot"]
Sym(n) == [op |-> "sym", name |-> n]
Bin(op, a, b) == [op |-> op, a |-> a, b |-> b]

Assign(akind, n, e) == [k |-> "assign", akind |-> akind, name |-> n, e |-> e]

SectNamed(n) == {i \in DOMAIN sects : sects[i].name = n}
RegionNamed(n) == {i \in DOMAIN regions : regions[i].name = n}
First(S) == CHOOSE i \in S : \A j \in S : i <= j

(***************************************************************************)
(* The default script.  The counter's segment boundaries are PROVIDEd; the *)
(* data counters keep the end of initialized data in __dend.               *)
(***************************************************************************)
SegSym(seg, which) == <<"__seg", seg, which>>
addcounter(seg, data) ==
  <<Assign("provide", SegSym(seg, "DL"), Dot)>>
  \o (IF data THEN <<Assign("hidden", <<"__dpos">>, Dot)>> ELSE <<>>)
  \o <<[k |-> "input", id |-> 2 * seg + 1, star |-> TRUE, files |-> {},
        secs |-> {<<seg, FALSE>>}]>>
  \o (IF data
      THEN <<Assign("hidden", <<"__dend">>,
               [op |-> "cond", a |-> Bin("!=", Dot, Sym(<<"__dpos">>)),
                b |-> Dot, c |-> Sym(<<"__dend">>)])>>
      ELSE <<>>)
  \o <<Assign("provide", SegSym(seg, "DH"), Dot),
       Assign("provide", SegSym(seg, "CL"), Dot),
       [k |-> "input", id |-> 2 * seg + 2, star |-> TRUE, files |-> {},
        secs |-> {<<seg, TRUE>>}],
       Assign("provide", SegSym(seg, "CH"), Dot)>>

Section(n, addr, body) ==
  [k |-> "section", name |-> n, addr |-> addr, noload |-> FALSE, at |-> NoE,
   align |-> NoE, subalign |-> NoE, body |-> body, region |-> "", lmaregion |-> "",
   fill |-> NoE]

DataCounters ==
  LET upto[seg \in 2..NSeg] ==
        IF seg = 2 THEN <<[k |-> "onepage", body |-> addcounter(2, TRUE)]>>
        ELSE upto[seg - 1] \o (IF seg < NSeg THEN addcounter(seg, TRUE) ELSE <<>>)
  IN  upto[NSeg]

default_script(opt) ==
  <<[k |-> "format", format |-> IF opt.binary THEN "binary" ELSE "aout"],
    [Section(".text", Num(opt.tbase),
       <<Assign("plain", <<"__btext">>, Dot), Assign("provide", <<"__segoff">>, Num(0))>>
       \o addcounter(0, FALSE) \o addcounter(1, FALSE)
       \o <<Assign("plain", <<"__etext">>, Dot)>>
       \o (IF opt.sepid
           THEN <<Assign("plain", <<".">>, [op |-> "align", a |-> Dot, b |-> Num(16)])>>
           ELSE <<>>)) EXCEPT !.subalign = Num(4)],
    [Section(".data",
       IF opt.dbase # 0 THEN Num(opt.dbase)
       ELSE IF opt.sepid THEN Num(0) ELSE Sym(<<"__etext">>),
       <<Assign("plain", <<"__bdata">>, Dot), Assign("hidden", <<"__dend">>, Dot)>>
       \o DataCounters
       \o <<Assign("plain", <<"__edata">>, Sym(<<"__dend">>)),
            Assign("plain", <<"__end">>, Dot)>>) EXCEPT !.subalign = Num(4)],
    Assign("provide", <<"__heap_top">>, Bin("+", Sym(<<"__end">>), Num(opt.heap)))>>

(***************************************************************************)
(* main: -A definitions are parsed with the options, then the script.      *)
(***************************************************************************)
ReadInit ==
  /\ phase = "read"
  /\ job \in Jobs
  /\ input = <<IF job.files = "default" THEN default_script(job.opt)
               ELSE Files(job.files)["main"]>>
  /\ top = <<>> /\ sects = <<>> /\ regions = <<>>
  /\ globalfill = NoE
  /\ format = "aout"

script_error == phase' = "error" /\ UNCHANGED readVars

Command == input[1][1]
Next1 == <<Tail(input[1])>> \o Tail(input)       \* the command has been read
Reading(kind) == phase = "read" /\ input # <<>> /\ input[1] # <<>> /\ Command.k = kind

(* name = expr; PROVIDE(...); HIDDEN(...); ASSERT(...) *)
DotProvided(s) == s.k = "assign" /\ s.name = <<".">> /\ s.akind # "plain"
ReadStatement ==
  /\ \/ Reading("assign") \/ Reading("assert")
  /\ IF DotProvided(Command)
     THEN script_error
     ELSE /\ top' = Append(top, Command)
          /\ input' = Next1
          /\ UNCHANGED <<phase, job, sects, regions, globalfill, format>>

RECURSIVE Flat(_)
Flat(body) ==    \* the statements, those of ONEPAGE blocks in place
  IF body = <<>> THEN <<>>
  ELSE (IF Head(body).k = "onepage" THEN Flat(Head(body).body) ELSE <<Head(body)>>)
       \o Flat(Tail(body))

(* A second section of the same name and an unknown region are errors. *)
BadSection(s) ==
  \/ SectNamed(s.name) # {}
  \/ \E i \in DOMAIN Flat(s.body) : DotProvided(Flat(s.body)[i])
  \/ \E n \in {s.region, s.lmaregion} : n # "" /\ RegionNamed(n) = {}
section ==
  /\ Reading("section")
  /\ IF BadSection(Command)
     THEN script_error
     ELSE /\ sects' = Append(sects, Command)
          /\ top' = Append(top, [k |-> "section", sect |-> Len(sects) + 1])
          /\ input' = Next1
          /\ UNCHANGED <<phase, job, regions, globalfill, format>>

memory ==
  /\ Reading("memory")
  /\ regions' = regions \o Command.regions
  /\ input' = Next1
  /\ UNCHANGED <<phase, job, top, sects, globalfill, format>>

ReadFill ==
  /\ Reading("fill")
  /\ globalfill' = Command.e
  /\ input' = Next1
  /\ UNCHANGED <<phase, job, top, sects, regions, format>>

ReadFormat ==
  /\ Reading("format")
  /\ format' = Command.format
  /\ input' = Next1
  /\ UNCHANGED <<phase, job, top, sects, regions, globalfill>>

(* INCLUDE "file": nested at most MaxIncludes deep, also if it names itself; *)
(* a file that cannot be read is an error.                                   *)
TooDeep == Len(input) > MaxIncludes
include ==
  /\ Reading("include")
  /\ IF TooDeep \/ Command.file \notin DOMAIN Files(job.files)
     THEN script_error
     ELSE /\ input' = <<Files(job.files)[Command.file]>> \o Next1
          /\ UNCHANGED <<phase, job, top, sects, regions, globalfill, format>>

(* The end of an included file, or of the script: script_set_entry puts the *)
(* -A assignments first.                                                    *)
EndOfText ==
  /\ phase = "read"
  /\ input[1] = <<>>
  /\ input' = Tail(input)
  /\ IF Len(input) > 1
     THEN UNCHANGED <<phase, top>>
     ELSE phase' = "mark" /\ top' = job.defs \o top
  /\ UNCHANGED <<job, sects, regions, globalfill, format>>

Read ==
  \/ ReadStatement \/ section \/ memory \/ ReadFill \/ ReadFormat \/ include \/ EndOfText
=============================================================================
