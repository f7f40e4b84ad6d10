SPECIFICATION Spec
CONSTANTS
  Symdef <- SymdefName
  NoName = NoName
  Commands <- MoveCommands
  Archives <- MoveArchives
  DiskSize = 2
  Present = {{}}
INVARIANT
  MoveKeepsMembers
