SPECIFICATION Spec
CONSTANTS
  Jobs <- PageJobs
  Files <- ScriptFiles
  MaxIncludes = 2
  NSeg = 4
  Page = 8
  Space = 64
  MaxPasses = 10
INVARIANT
  OnePageHolds
