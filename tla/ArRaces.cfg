SPECIFICATION Spec
CONSTANTS
  x = x
  x2 = x2
  y = y
  z = z
  Mag = Mag
  NoFile = NoFile
  Members = {x, x2, y, z}
  Size <- Blocks2
  Updaters = {u1, u2}
  Readers = {r1}
  Ops <- AnyOps
  Bases <- AnyArchive
  Builds = {TRUE, FALSE}
  Kills = TRUE
  Named = TRUE
  MaxRuns = 1
INVARIANTS
  OneWriterPerVersion
PROPERTIES
  QuickKeeps RunsEnd
