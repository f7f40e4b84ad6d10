SPECIFICATION Spec
CONSTANTS
  Symdef <- SymdefName
  NoName = NoName
  Commands <- AllCommands
  Archives <- AllArchives
  DiskSize = 2
  Present <- EditPresent
INVARIANTS
  TypeOK OthersKept FilesPlaced MoveMiddle IndexRight
