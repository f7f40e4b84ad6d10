SPECIFICATION Spec
CONSTANTS
  Jobs <- SomeJobs
  Files <- ScriptFiles
  MaxIncludes = 2
  NSeg = 4
  Page = 8
  Space = 64
  MaxPasses = 10
INVARIANTS
  ImageHoldsAll PiecesApart OnePageTogether SettledIsFixpoint SectionSymbols RecordsHoldImage
PROPERTY
  LinkEnds
