SPECIFICATION Spec
CONSTANTS
  main = main
  f = f
  g = g
  Names = {main, f, g}
  Main = main
  Start = g
  NoName = NoName
  Classes <- TableClasses
  Descs <- TableDescs
  Scripts <- TableScripts
  MaxMods = 4
  MaxSyms = 1
INVARIANTS
  TypeOK LowestClassFirst HighestLoadedWins UniqueExternals LargestCommonWins
PROPERTIES
  DefinitionKept LinkTerminates
