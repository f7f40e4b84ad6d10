SPECIFICATION Spec
CONSTANTS
  x = x
  x2 = x2
  y = y
  z = z
  Mag = Mag
  NoFile = NoFile
  Members = {x, x2, y, z}
  Size <- Blocks2
  Updaters = {u1}
  Readers = {}
  Ops <- EditOps
  Bases <- WholeArchive
  Builds = {FALSE}
  Kills = TRUE
  Named = FALSE
  MaxRuns = 2
INVARIANT
  ArchiveAtomic
