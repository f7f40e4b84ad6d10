SPECIFICATION Spec
CONSTANTS
  x = x
  x2 = x2
  y = y
  z = z
  Mag = Mag
  NoFile = NoFile
  Members = {x, x2, y, z}
  Size <- Blocks2
  Updaters = {u1, u2}
  Readers = {}
  Ops <- EditOps
  Bases <- WholeArchive
  Builds = {TRUE}
  Kills = FALSE
  Named = FALSE
  MaxRuns = 1
INVARIANT
  UpdateKept
