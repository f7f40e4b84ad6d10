SPECIFICATION Spec
CONSTANTS
  Jobs <- MCJobs
  Extern <- MCExtern
  NLoc = 8
  CharSpan = 8
  FcMax = 10
  FdMax = 3
  Span = 1073741824
  MaxGet = 2
  MaxIf = 3
  MaxMac = 2
  MaxBlock = 2
  Base = 4096
  Pad = 1
  Discarded = {2}
CHECK_DEADLOCK FALSE
INVARIANTS TypeOK AcceptedIsRight NestedOff HeaderIsFinal StablePasses
PROPERTY AssemblyEnds
