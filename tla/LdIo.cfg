SPECIFICATION Spec
CONSTANTS
  a = a
  b = b
  ERR = ERR
  Bytes = {a, b}
  Zero = b
  MaxOffset = 4
  InFiles <- Inputs
  OUTBUFSIZE = 2
  INBUFSIZE = 2
  MaxErrors = 1
INVARIANTS
  TypeOK InputInSync ExecutableIsComplete
PROPERTY
  ImplementsFiles
