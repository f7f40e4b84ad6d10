# A TLA+ verification project for mc6801-tools

mc6801-tools is a tool chain for the Motorola MC6801: the assembler `as01`,
the linker `ld01` with linker scripts, the archiver `ar01`, and `objcopy`,
`objdump` and S-record helpers. This directory holds TLA+ models of its parts,
the TLC configurations that check them, and proofs checked by TLAPS.

`tlc -config X.cfg M` runs one check (the table of runs below names the module
of each configuration); `tlapm` on `LinkSymsProofs.tla`, `LinkTableProofs.tla`,
`LdIoProofs.tla`, `NatInduct.tla`, `ArMapProofs.tla`, `ArUpdateProofs.tla`,
`ArSoloProofs.tla` and `AsLinkProofs.tla` checks the proofs.
`PROJECT.json` maps definitions to source lines, and lists runs, mutants,
findings, hazards and theorems.

## 1. Inventory

| Part | State it keeps | Operations | What makes it correct |
|---|---|---|---|
| `ld/readobj.c`, `ld/table.c` | modules in reading order, symbol table, entry list, redefinition list | `readsyms`, `readmodule`, `redsym`, `entrysym`, `addsym`, `findsym` | one table entry per external name; the owner of a symbol is a real definition, chosen by class whatever the order of files; largest common request |
| `ld/linksyms.c` | `loadflag` of modules | `linksyms`, `linkrefs` | exactly the modules reachable from the roots are loaded, with the final owners; the relinking loop ends |
| `ld/table.c` arena | a block used from both ends | `ourmalloc`, `moveup`, `release`, `readstring` | the ends never cross unnoticed |
| `ld/script.c` | statements, output sections, symbols, location counter | parse, `script_roots`, `walk`, `orphans`, `script_layout` | layout settles and is the one the script describes; sections do not overlap |
| `ld/writex86.c` | output position, relocation state | `write_elks`, `linkmod`, `padmod` | every byte lands at its section's address |
| `ld/io.c` | input, output and message buffers | `openout`, `writeout`, `seekout`, `closeout`, `executable` | the file holds the bytes written, each at its position; only a complete file is executable |
| `ar/ar.c` member map | linked list of members | d, m, r, u, q | members not named survive in order; named ones go where they are asked to |
| `ar/ar.c` archive file | archive, temporary file, lock | `scan`, `lock_for_update`, `write_archive`, `quick_append`, `extract_members` | the archive is whole at every moment; no update is lost; readers see members |
| `ar/ar.c` `__.SYMDEF` | index of the symbols members make available | `read_old_symdefs`, `make_new_symdefs`, `update_symdefs`, `write_symdef_member`, `touch_symdef_member` | the index names the symbols of every member at the member's offset |
| `as/readsrc.c`, `as/assemble.c` | pass number, `dirty_pass`, GET and macro stacks | `readline`, `pget`, `pproceof`, `assemble` | assembly ends within the stacks; an accepted object file has the labels of the pass that wrote the code |
| `as/genobj.c` | absolute byte buffer, relocation size, object buffer | `objheader`, `genbin`, `objtrailer` | what `ld01` decodes is what was assembled |
| `as/pops.c`, `mops.c`, `express.c`, `scan.c`, `macro.c` | location counters, conditionals, expression stack | directives and instructions | conditionals and blocks nest; instruction lengths agree between passes |
| `objcopy`, `srec`, `objdump86`, `dumps`, `mkar` | none beyond their input | conversions and listings | records cover the image |

Interactions: `as01` writes object files, `ar01` collects them, `ld01` reads
both. Inside `ld01`, `main` reads every file, calls `script_set_entry`, then
`linksyms` (which calls back into the script for its roots), then
`write_elks`. Each tool is one sequential process; the concurrency in the
system is between invocations of `ar01` (and readers of archives) in a shared
directory, where runs may also be killed. The hard behaviours are therefore
order dependence (of object files, of list edits), fixpoints (relinking,
layout passes), values of the
assembler's first pass used in its second, two programs that must agree on an
encoding, and crashes and races on archive files.

## 2. Modules

| Module | Models | Properties in |
|---|---|---|
| `LinkSyms` | `readmodule`, `redsym`, `entrysym`, `script_set_entry`, `script_roots`, `linksyms`, `linkrefs` | `LinkSyms` |
| `MCLinkSyms` | instances for TLC | |
| `LinkSymsProofs` | theorems about `LinkSyms`: types, and what is loaded | |
| `LinkTableProofs` | theorems about `LinkSyms`: which definition owns a symbol; extends `LinkSymsProofs` | |
| `LdFiles` | what `io.c` promises: an input and an output file without buffers | |
| `LdIo` | the buffers of `ld/io.c`, failing and short system calls; implements `LdFiles` | `LdIo` |
| `MCLdIo` | an instance | |
| `LdIoProofs` | theorems about `LdIo` | |
| `ArSymdef` | `update_symdefs` as operators on the map and the old index | |
| `ArMap` | the member map under d, m, r, u, q and s, the index and the copy loop; extends `ArSymdef` | `ArMap` |
| `MCArMap` | instances | |
| `ArMapProofs` | theorems about `ArMap`: the list of members, what d, r and u keep, where r places files, what m moves | |
| `ArUpdate` | archive file, temporary file, lock, several invocations | `ArUpdate` |
| `MCArUpdate` | instances | |
| `ArUpdateProofs` | theorems about `ArUpdate` for any number of invocations | |
| `ArSoloProofs` | theorems about `ArUpdate` for one updater at a time; extends `ArUpdateProofs` | |
| `NatInduct` | induction on a set of numbers, least elements; used by the proofs about `ar01` and `as01` | |
| `ScriptRead` | reading a linker script, the default script, `-A` | |
| `ScriptLayout` | layout passes, checks, the output file and its records; extends `ScriptRead` | `ScriptLayout` |
| `MCScript` | scripts and modules for TLC | |
| `ObjCode` | the encoder of `as/genobj.c` as operators on its state | |
| `AsPasses` | `as01`: lines, passes, directives, expressions; extends `ObjCode` | |
| `AsLink` | `AsPasses` composed with the decoder of `ld/writex86.c` | `AsLink` |
| `MCAs` | sources for TLC | |
| `AsLinkProofs` | theorems about `AsLink`: conditionals, types, the values in the object header | |

**LinkSyms.** Symbols are indices of `syms`, modules indices of `class`.
`symparray`, `entries` and `red` are the C lists of the same purpose. A symbol
descriptor read from an object file is a record of name, kind (exported,
imported, local), relocatability, segment, entry flag and value; each branch
of the loop in `readmodule` is an action (`AddSym`, `SkipMismatch`,
`SkipImport`, `Install`, `Redefine`). `seen` is a history variable: what was
read and whether a warning was given. A script is the name in its `ENTRY` and
its list of root statements; `match` of a KEEP is the set of modules its
patterns match. The recursion of `linkrefs` is a stack of modules with the
loop variable `pos` of each; `linksyms` makes the calls numbered 1 to `NCalls`
of a round. `script_set_entry` puts the script's entry first without setting
`entrylast`, so that adding `_main` behind it may follow a null pointer; the model
then goes to phase `crash`. The scan of the redefinition list follows the code's two pointers:
`prev` says whether `prlptr` is still on the list.
Left out: decoding bytes, `-r` (main hands it to `mkar.c`, so `linksyms` is
never called with it), and the message texts. `as01` writes a symbol once per
module and always class 0; other classes come from other producers of the
format, and the linker's code for them is what the model checks.

**LdIo.** One action per function of `io.c`: `writechar` stands for a byte of
`writeout` too, `readchar` for a byte of `readin` and `readineofok`. `disk`,
`size` and `at` are the file and the kernel's offset, `outbuf` what is still in
memory; `inat`, `inbuf`, `inptr` likewise for input. Every `write` may be short,
every `lseek`, `close` and `read` may fail, at the place where the code checks
it; `flushout`'s failure is `FlushShort`. The mapping to `LdFiles` is `Content`
(disk with the buffer over it), `Length`, `Where` and `InWhere`. `mode` "old" is
a file of an earlier link, which an error before `openout` leaves alone.
`openout` is one step: the instant between `creat` and `chmod`, in which an old
executable is empty, is not visible. It is assumed that `chmod` succeeds (the
user owns the file). `script_convert`, which rewrites the closed file as
S-records, is not modelled. Messages are left out: what goes to standard output
is flushed at once (`errtrace`) or comes after the last message (the dumps), so
that their order cannot go wrong.

**ArMap, ArSymdef.** The list is modelled with its pointers, because the
interesting errors are pointer errors: element 1 is `mapstart`, 0 is null. Names
keep what matching depends on: directory, the first 13 characters, and the
rest. `Vanish` is another program removing a file between `stat` and `open`.
`DiskSize` bounds the output; a full disk makes `mywrite` fail, as it would.
Contents are a size, whether they are an object file, and its symbols.
`MakeIndex` is the part of `write_archive` before the copy loop,
`Install` the part after it with the second writing of the index and
`touch_symdef_member`. Lengths are counted in units (a header, an index entry
with its string), so that places coincide in small archives as they do in real
ones. Fields `insert_in_map` never sets are read when a file is not an object
file: the outcome is either that of zeros or `crash`. `hang` is a loop over a
map that goes in a circle; `IndexLost` is the `abort` of `read_old_symdefs` when
an argument has cancelled the index unnoticed. An archive that starts with an
index has it first and right. The assumptions on the constants say what the
program is given: archives hold names that `header_from_map` made, `__.SYMDEF`
is the only name in its directory that matches it (it is shorter than the 13
characters compared), a directory has a name once, dates are numbers, and `u`
is a form of `r`.

**ArUpdate.** A file is a sequence of cells, one per `write`: the magic
string, a header, or a data block. Inodes and names are separate, so an open
descriptor stays on its inode across a `rename`. What an operation does to the
map is `Edited` (ArMap has the detail): `Kept`, the elements whose names are
not cancelled, and then the new ones. `locks` is the build option `LOCKS`,
which the Makefiles do not define; a run may check both builds. `Kill` may
happen between any two system calls; the temporary file a killed update leaves
stays, and the next one opens it as it is (`O_CREAT` without `O_TRUNC`) and
writes over its beginning. `overhang` is a history variable: a run has renamed a
temporary file longer than what it had written. A scan step reads one member.

**ScriptRead, ScriptLayout.** A script is a sequence of commands with
expressions as trees; the scanner is left out. A job is a script, `-A`
definitions, options and the modules that module selection loaded, with the
sizes of their location counters. The actions are the calls `main` and
`write_elks` make: reading a command (INCLUDE pushes a file), `markimports`,
common allocation, `assign`, a layout pass, the placing and checking of
sections, writing and `script_convert`. `walk` is a recursive operator over the
statements with the state of a pass (`dot`, section values, symbols, boxes of
ONEPAGE), including its second walk of a ONEPAGE block. An operator that may
call `script_error` returns a set, empty for the fatal exit. The bytes of the
output file are identities ("byte 3 of piece 5"), so that a byte at a wrong
place is seen. Numbers are of the script's type except that the address space
is `Space` and a page `Page`, 64 and 8 bytes in the run.

**ObjCode, AsPasses, AsLink.** A source line is a record of label, operation
and operands; the scanner, listings and macro parameters are left out. A line
is one step, with an action for each kind of directive and instruction; the
other steps are the ends of files and of passes. The flags of symbols and values are
sets of the names of their bits, and each directive is an operator from the
state of the line to its state. `ObjCode` keeps the three things the encoder
gathers: absolute bytes, the skip, the relocation size. `AsLink` adds one action
for each command the linker's decoder knows and `padmod` with its size check.
`emitted` is a history variable: which line put what at which place of which
counter. Instruction encodings are reduced to opcode, addressing mode and
operand size. A null pointer and a division by 0 end in phase `crash`.
An expression is the sequence of its nodes in the order in which the parser
finishes them, each with the number of its left operand, so that `expres` is a
recursive function of a position and not of a tree. Numbers are integers; where
the size of `offset_t` matters they are taken modulo `Span`, which is 2^64 and
in the run 2^30, larger than any value that occurs. `loc.apart` is a history
field: `setloc` did not tell the linker of a change of segment. The segment of
a value is a number of three or four bits that `+` and `-` combine bit by bit, also
when the value is absolute. `genobj` counts the data of a line in an unsigned
char (`Kept`, modulo `CharSpan`), and more than `databuf` holds is undefined: the
model says nothing more of the program (`Overrun`, phase `crash`). The label of an
END line is bound before `pproceof` and confirmed after it (`Ending`).

The assembler and encoder operators were compared with the program: 10415
generated sources from the menus of `MCAs` were assembled by `as01` and by a
transcription of the model, and object files and exit codes were the same. That
comparison was made before the segment bits, lines longer than the encoder counts
and labels of END were modelled; these were compared by single sources (an FCC of
257 characters writes one byte; `l END` behind a byte is "label moved in last
pass").

## 3. Runs

| Run | Configuration | Shows |
|---|---|---|
| link_graph | 3 modules, 3 names, 2 classes, 2 symbols each | `linkrefs` loads exactly the closure of the roots; a symbol's module and value come from one definition |
| link_table | up to 4 modules of one symbol: classes 0-3 with scripts that keep them, or 11 kinds of descriptor with other scripts | ownership by class in every reading order, several rounds, adjacent removals in one scan, unique externals, largest common, the only crash, termination |
| ld_io | buffers of 2 bytes, output of up to 4, 3 input files | buffered files behave as unbuffered ones |
| ar_edit | 14 archives with and without an index, up to 3 arguments, dates, files that vanish | d, m, r, u, q edit as asked; when m works; when the index is right |
| ar_move_lost | archives of 1 to 4 members, all m commands | violation |
| ar_solo | 1 updater, 3 runs, kills, 1 reader | the archive is whole and readable at every moment until the stale end of a temporary file is installed |
| ar_stale_temp | 1 updater, 2 runs, kills | violation |
| ar_races | 2 updaters of all kinds with and without `LOCKS`, 1 reader, 5 starting archives, kills | one writer per version of the archive, appends leave what is there, every run ends |
| ar_lost_update | 2 updaters with `LOCKS` | violation |
| script_layout | the default script with options (`-T 0` too) and 25 others, two modules of 96 combinations of sizes | what an accepted link puts where; passes end in a fixed point |
| script_onepage | one script with ONEPAGE and alignment | violation |
| as_passes | every source of up to 3 lines from seven menus, between fixed lines, and seven longer ones | an accepted source has its bytes in the image, conditionals nest, the header agrees with the code, assembly ends |

Bounds. Three modules are the least in which a spare definition, its rival and
a third user differ; four definitions are needed for two neighbours on the
redefinition list to move in one scan and be scanned again. Two arguments and
four members give every relative position of a moved member, its neighbour and
the ends; members of one and two units and index entries of one make a member
come to lie where another was. Two updaters and one reader give every pairwise
race; members of one and two blocks make a new archive shorter or longer than
the old. Two updaters of one run each do not show everything a third could do:
under `LOCKS` an invocation that waits on a version already replaced and one
that starts on the new version write the temporary file together, which is why
`OneWriterPerVersion` speaks of versions; it also holds for two runs each (5.5
million states, not among the runs). A buffer of two bytes in a file of four is
the least in which a buffer fills, is flushed by the next byte and is followed
by a seek back into what was written. `Page` 8 and `Space` 64 keep the ratio of
pieces, pages and address space such that blocks cross pages and sections run
out of room; `MaxPasses` is the code's 10; the INCLUDE nesting is 2 instead of
10 and `NSeg` 4 instead of 16. In `as_passes` the stacks hold 2 or 3 instead of
8, and 8 location counters stand for 16 (a power of two, because their number
less one is a mask); the values that decide the encoding (64 absolute bytes, 256
and 65536 for skips and offsets) are the real ones. The count of `genobj` wraps at
8 instead of 256, and `databuf` holds 10 bytes or 3 words: as in the code, bytes can
be too many for the count and still fit the buffer (9 stand for 257), while words
overrun it just before their count wraps (126 words there). Longer sources are `Exchange`, in
which two BLOCKs put as many bytes into each other's segment; `LateSegment`, whose
LOC names a symbol that is defined after it; `MixedSegments`, in which absolute
values of two segments are added and subtracted; `LateEnd` and `MovedEnd`, with
labels on END. In `ar_solo` three runs are needed for one to be killed, the next to
write over what it left, and a third to work from the result.

Fairness. `ld01` and `as01` are one process each, so `LinkSyms`, `ScriptLayout`
and `AsLink` assume weak fairness of the next step. In `ArUpdate` each updater's
steps are weakly fair (the operating system runs every process that can run;
waiting for a lock is not a step), and nothing is assumed of kills, readers or
users. Weak fairness is enough for the lock because runs are finite in number.
`ArMap` checks safety only.

## 4. Findings

Shown by a run:

* **ar01 m loses members** (ar_move_lost): moving the first member, a member
  next to itself, the last member to the end, or any member to the front drops
  members; on an archive with one member it never ends. `MoveMiddle` states
  the commands that do work.
* **Lost updates** (ar_lost_update): the comment in `ar.c` promises a lock
  before the archive is looked at; the map is made before it.
* **Stale temporary file** (ar_stale_temp): `ar.c:814` relies on `rename` to
  "update the whole file atomically". The temporary file is opened without
  `O_TRUNC` (`ar.c:897`) and nothing removes the one a killed run left, so that a
  later and shorter archive is installed with the rest of the old one behind it:
  pieces of members, or members that were deleted. `ArchiveWhole`,
  `ReadersSeeMembers` and `UpdateKept` hold up to that moment (`overhang`).
* **ONEPAGE on two pages** (script_onepage): a block is measured at the first
  place `walk` tries and not at the second, where alignment may make it larger.

Known divergences: behaviour met while modelling, reproduced with the programs,
and excluded from a property by a condition that its comment states.

* Index: `update_symdefs` replaces offsets in place (`ar.c:1797`), so when a
  member comes to lie where a later one was, its symbols are given to that one;
  `ar01 ma b.o l.a a.o` with members of equal length does it. A file that is not
  an object file, added to an archive with an index, crashes `ar01` (fields not
  set at `ar.c:1352`; ar01.1 says such files "are reported and left out").
  `r a.o a.o` on an archive with an index is fatal. `rb __.SYMDEF` writes the
  index over a member (`ar.c:971`); `d l.a d/__.SYMDEF` cancels the index but
  compares the argument with `strcmp`, so that `symdef_exists` stays set and
  `read_old_symdefs` aborts (`ar.c:1494`); `qs` appends up to three `__.SYMDEF`
  members; `q` leaves an index as it was. All are states of `ArMap`, and
  `IndexRight` says what remains.
* Archives: a reader that names members opens the archive twice (`ar.c:1391`)
  and may use the offsets of one version in the other; `ar_solo` has readers that
  do not (`Named`). Without `LOCKS`, and with it between writers of different
  versions, two updates write one temporary file together.
* Entry: with ENTRY in the script, no entry symbol in any object file and a known
  `_main` that is not that entry, `ld01` follows a null `entrylast` (set by
  `readobj.c:231`, not by `script.c:1090`). Phase `crash` of `LinkSyms`, and
  `TypeOK` says that it is reached in no other case.
* A mismatched import (`readobj.c:187`): ld01's design note says the symbol is
  left undefined; that holds only when the import is read before the
  definition.
* Scripts: regions defined by later regions may settle a pass early
  (`remember` does not compare regions); an empty section lets the next one
  start below its part, which gives a negative file offset (`script.c:1902`);
  `orphans` picks the first section that is not NOLOAD where its comment and
  the design note say the last; an ASSERT that failed in the abandoned walk of
  a ONEPAGE block stays failed.
* Assembler: `last_pass` is always 1, so the repetition of passes in
  `pproceof` is dead code; `rmb n` before `n equ 4` gives a header whose sizes
  are wrong and which only the linker refuses; a macro used before its
  definition has code in the first pass only; LOC inside BLOCK, or LOC, ORG and
  LOC again, leave `lcdata` and `lcptr` apart, so that the linker is not told
  of the segment and puts the bytes into another one; only its size check can
  refuse the file, and segments that exchanged as many bytes pass it; a label
  after a LOC that names a later symbol has in the header the segment of the
  first pass, where again only the size check can tell; ELSEIF with an unknown
  name in a branch that is off follows a null pointer (`pops.c:150`); a divisor
  that is defined later traps
  (`express.c:197`); an end of file inside MACRO leaves `macload` set. Of a line of
  FCB or FCC with more than 256 bytes `genobj` writes the remainder modulo 256
  (`genobj.c:118`; `pops.c:354`: "line length is unlimited"), which the linker
  refuses for its size; still longer ones, and more than 126 words of FDB, run over
  `databuf`. The label of an END
  line of the main file is compared when the next pass has begun, with
  UNSTABLE_LABEL unless it is 0, and in the last pass not at all
  (`assemble.c:88`): `HeaderIsFinal` leaves these labels out (`EndLabels`).
  Segments of 64K or more have sizes modulo 65536 in the header (`Small`).

## 5. Theorems

`LinkSymsProofs` proves, for every set of names, classes, descriptors, scripts
and every bound:

* `TypeInvariant`: `Spec => []TypeOK`. `TypeOK` is `Shape` (types) and
  `NoDangling` (pointers between the tables); neither is inductive without the
  other, because an action's new record is typed by following pointers. The
  one null pointer the code follows is in it: phase `crash` is reached only with
  the script's ENTRY as the only entry and `_main` to be added.
* `WalkInvariant`: `Spec => [](TypeOK /\ WalkInv)`. `WalkInv` is the inductive
  invariant behind `LinkClosed`. `LinkClosed` speaks only of the end and is not
  inductive; the strengthening says what is already true during the recursion:
  owners of the references behind each loop variable are loaded, a loaded
  module whose loop has not ended is on the stack, and the roots of the calls
  made so far are loaded. Moving a symbol in the scan keeps it because the new
  owner is loaded.
* `LinkClosedTheorem`: `Spec => []LinkClosed`, from the last conjuncts of
  `WalkInv` at the end of a round.

`LinkTableProofs` proves the properties that relate the symbol table to what
was read (`seen`), under the same assumptions:

* `TableInvariant`: `Spec => [](TypeOK /\ TableInv)`. `TableInv` joins
  `UniqueExternals`, `OwnerIsADefinition`, `LowestClassFirst` and
  `LargestCommonWins` with three facts none of them is inductive without: what
  was read is about symbols that exist, a symbol that is not defined has no
  accepted definition, and an accepted definition is the owner, or spare on the
  redefinition list, or was given up for one of a higher class
  (`DefinitionsPlaced`). `UniqueExternalsTheorem`, `OwnerTheorem`,
  `LowestClassTheorem` and `LargestCommonTheorem` are its parts. A lemma for
  each branch of `readmodule` says what it does to one row.
* `HighestLoadedTheorem`: of the definitions in loaded modules the one of the
  highest class owns the symbol when the link ends. `HighestLoadedWins` speaks
  of the end; `ScanInv` says that no element the current scan has passed is of
  a loaded module of a higher class than the owner, which stays true when a
  symbol moves because the owner's class only rises.
* `DefinitionKeptTheorem`: the action property `DefinitionKept`, a symbol once
  defined stays defined, and while linking its class never falls.
* `LinkMinimalTheorem`: nothing beyond the roots' closure is loaded. Until a
  symbol moves, the loaded modules are in every set of modules that is closed
  under references and holds the roots (`MinimalInv`); after a move there is
  another round, which starts from no loaded module.

The assumptions there are those named in `LinkSyms` (`BoundAssumption`,
`InputAssumption`, `ScriptAssumption`): bounds are numbers, descriptors and
scripts are typed. With these two modules every safety property of `LinkSyms`
is proved.

`LdIoProofs` proves, for every buffer size, every set of input files and every
bound on the output file:

* `TypeInvariant`: `Spec => []TypeOK`, no buffer ever holds more than its size;
* `InputInvariant`: `Spec => []InputInSync`, inductive given `TypeOK`;
* `ExecutableTheorem`: `Spec => []ExecutableIsComplete`, through `ExecInv`,
  which adds that the buffer of a closed file is empty;
* `Refinement`: `Spec => ImplementsFiles`, that is, `LdIo` implements
  `LdFiles`. The step lemmas say that a flush, whole or short, is invisible
  (`FlushUnseen`), that a byte written appears at its position (`WriteSeen`),
  and that a byte read is the one at its position (`ReadSeen`, which needs
  `InputInSync`). They rest on lemmas about `Overlay`.

Its assumptions are `ByteAssumption`, `SizeAssumption` (buffers are not empty)
and `FileAssumption` of `LdIo`.

`ArUpdateProofs` proves, for every number of updaters, readers and runs, every
set of members, operations and initial archives, and both builds:

* `TypeInvariant`: `Spec => []TypeOK`, again types and pointers together
  (descriptors and names refer to inodes that exist, the map's offsets are
  places of cells). What `Kept` returns is proved by an induction over its
  recursive function, with a set in place of a predicate (`SetInduction`, from
  the well-foundedness of the naturals).
* `LockInvariant` and `OneWriterTheorem` (`OneWriterPerVersion`): with `LOCKS`,
  of the invocations that work from one version only one at a time writes.
  `LockInv` says who is between lock and close holds the lock of the inode it
  has open, and that a lock has one holder.
* `QuickKeepsTheorem` (the action property `QuickKeeps`): while all runs are
  quick appends, nothing in the archive is changed or cut off, even when several
  create or append to it at once.

`ArSoloProofs` proves what holds when updates do not overlap, under `Solo`: at
most one updater (with any number of runs, each of which may be killed
anywhere), operations that edit, and initial archives that are whole. The
temporary files that kills leave are there for the next run. These are the
instances of the run `ar_solo`.

* `FilesInvariant` holds always: archive and temporary file are different files,
  and only the second is written.
* `SoloInvariant` is the inductive invariant up to `overhang`, which stays true
  once it is (`OverhangStays`): the archive is there, whole and
  not the temporary file; the map names the places of members of the version
  that is open; the map has what the operation adds and not what it drops; what
  was written so far, up to `pos` and whatever stale cells follow, is a prefix of
  a whole archive and agrees with `k` and `part`; an invocation that has renamed its file has its update in the archive.
* `ArchiveWholeTheorem` and `UpdateKeptTheorem` follow from it, and
  `NeverOverwrittenTheorem`, which needs no condition, from `FilesInvariant`.
* `ReadersTheorem` (`ReadersSeeMembers`): any number of readers are given the
  members' own blocks. A version that was the archive is never changed
  (`FilesKept`), and from the end of a member the next one's blocks follow
  (`MemberBody`, an induction over blocks). The hypothesis `~Named` is needed:
  a reader that names members opens the archive twice.

The assumptions are those named in `ArUpdate`: members have a size and are not
the magic string, operations and initial archives are typed, the bound on runs
is a number.

`ArMapProofs` proves, for every set of archives, command lines and files on
disk, and with files that vanish at any moment:

* `MapTypeInvariant`: `Spec => []TypeOK`, of which the essential part is that
  d, r, u and q keep the map one list from `mapstart` to null that holds every
  element;
* `MapOthersKept`: `Spec => []OthersKept`;
* `MapFilesPlaced`: `Spec => []FilesPlaced`;
* `MapMoveMiddle`: `Spec => []MoveMiddle`.

The last three speak only of the end, and `TypeOK` says that the elements are
reached but not in which order; the inductive invariant is `MapInv`, which has
four parts:

* `Basic`: the types, what is known at each place of the program, and where the
  elements come from (the members of the archive first, then a file named by an
  argument handled, then the element of a new index).
* `ListInv`: there is a sequence of all elements, each once, that the pointers
  follow; old members are in it in the order of the archive; the files inserted
  so far stand between the members before and after the place asked for, the
  last of them at `after`; and while the list is copied, each thing written is
  from a place of the list already passed, places rise, and nothing passed that
  is not cancelled or gone is missing (`Trace`). Inserting an element widens the
  list by one place (`WidenedList`, `WidenedSorted`, `WidenedPlaced`).
* `NamesInv`: a member is cancelled only if an argument handled asks for it; the
  member an argument handled stands for, and the one a new element replaces, is
  cancelled; a file handled is on the list unless a later argument matches it.
  `find_mapelt` may find a file inserted before instead of a member, and this
  part is what says that the member was then cancelled already.
* `MoveInv`, for the commands of m that `MoveMiddle` is about: the pointers
  follow a list of all elements; any two members stand in it as the arguments
  handled so far ask (`Before`); `after` is the member to move next to or the
  last one moved, and the members up to it are those moved and those up to the
  place asked for. The three assignments of `move_in_map` take the element at
  place p of a list and put it behind the one at place q (`RearrangedList`, with
  `Slot` for where each place comes from), provided p is not q, which is where
  the conditions of `MoveMiddle` are used; `find_mapelt` finds the member an
  argument stands for, because a member moved before it that matches too would
  be one that two arguments stand for (`FoundMoved`); and the first member is
  never moved, so the list m writes, from the element that was first, is the
  whole one (`FirstStays`).

`find_mapelt`, `last_mapelt` and `prev_mapelt` search what `Nth`, a recursive
function, reaches; that it exists and follows the list is proved by induction
over a set of numbers (`NatInduct`). Files that vanish only make `Kept` and
`Exists` shrink, which is why the properties are conditional on them. `m` is
left out of `ListInv`, since it may lose elements (section 4); `TypeOK` holds for
it too, without the list. The assumptions used are `CommandAssumption`,
`ArchiveAssumption` and `PresentAssumption` of `ArMap`. The second gives that
two names cut to the same 13 characters match the same members (`SameFirst`), on
which the third and fourth parts rest; the last, that a name has one date.

`AsLinkProofs` proves, for every set of sources, 8 or 16 location counters, every
size of the data buffer and every depth of the stacks:

* `CondsNest`: `Spec => []NestedOff`. `NestedOff` speaks of the current flags;
  an ENDIF makes a stacked pair of flags the current one, so that `CondInv` says
  of every stacked pair what `NestedOff` says of the current: assembled only
  inside of assembled ones, and waiting for ELSE only right inside of one.
* `AsInvariant`: `Spec => []AsInv`. The parts of the inductive invariant
  `Inv(L)`, where `L` is the set of the source's lines, are the types of the
  symbol table, counters, encoder and source stacks; the macro being read has a
  symbol (`Mend` stores its text there); the length of each stack; `CondInv`;
  `HeaderKept`; and that an object file is accepted only without errors.
* `AsTypes` (`TypeOK`) and `HeaderHolds` (`HeaderIsFinal`) follow from it.

`HeaderIsFinal` speaks of the end; `HeaderKept` says that through the whole last
pass an exported symbol has the value of the header, or is a SET symbol or the
label of an END line, or an error is counted. Inside a line it is not true: `asline` binds a label before
the operation and `assemble` compares it with `oldlabel` after it. `Keeps` is
what holds between the operations of a line (the label of the line may differ
if `oldlabel` still has the value it had before), `Settled` what holds after
`Confirmed`. There is a lemma for each directive and instruction saying that it
preserves `Fine`, the types with `Keeps`: EQU compares by itself because it takes
the label away, COMM and IMPORT refuse a symbol that is exported, and evaluating
an expression only sets FOR. Loops over operands, nodes of an expression and
addresses of code are recursive functions; that each has a value and preserves
`Fine` is proved by induction over a set of numbers (`NatInduct`).

The assumptions are `LimitsAssumption` (`NLoc` is the code's 16 or the run's 8, so
that its predecessor is a mask; limits are positive) and `JobsAssumption`, which says what the scanner
and parser give to the directives: a line has the operands that its operation
takes, operators work on nodes before them, names are not empty, GET names a
file that can be opened, `-t` names a counter (which `as01` does not check), and a
line longer than the count of `genobj` is in the main file of a source without
macros (the buffers of GET files and macros are shorter).

Only model-checked:

* liveness (`LinkTerminates`, `RunsEnd`, `LinkEnds`, `AssemblyEnds`), which is
  out of the prover's reach;
* `ScriptLayout`, whose statements and expressions are trees walked by
  `RECURSIVE` operators, which the prover cannot use;
* of `AsLink`, `AcceptedIsRight` and `StablePasses`: the first needs an inverse
  of the encoder, a fold over the commands written so far, and the second that
  two executions, the passes, go through the same lines side by side;
* of `ArMap`, `IndexRight`: the index is a fold over sequences of entries, and
  its property excludes several divergences.

## 6. Not modelled

* The arena of `ld/table.c`: which allocations meet depends on the sizes of C
  structures and of one block.
* The text of S-records and Intel hex, `objcopy`, `objdump86`, `dumps`,
  `mkar`: conversions and listings of a file into another form, without state.
  Which addresses the records of a link hold is in `ScriptLayout`.
* Listings, symbol listings, keyword and instruction tables of `as01`, macro
  parameters, the `-b` binary, and the scanners of `as01` and of scripts.
* The fields of the a.out header and its symbol table; option parsing and
  library search in `ld01`.
* The decoding of object file headers and symbols in `readobj.c` and in
  `read_object_symbols`: both models start from the decoded symbols.

## 7. Plan

1. `AcceptedIsRight` for the encoder alone: what the decoder makes of the
   commands that `flushabs`, `flushrmb` and `genobjadr` append.
2. Of `IndexRight`, the part for which no member's place changes.
