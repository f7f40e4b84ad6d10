SPECIFICATION Spec
CONSTANTS
  main = main
  f = f
  g = g
  Names = {main, f, g}
  Main = main
  Start = g
  NoName = NoName
  Classes <- GraphClasses
  Descs <- GraphDescs
  Scripts <- NoScripts
  MaxMods = 3
  MaxSyms = 2
INVARIANTS
  OwnerIsADefinition WalkInv LinkClosed LinkMinimal
