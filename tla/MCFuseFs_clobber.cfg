\* The small disk of MCFuseFs_full.cfg, explored past a write that ran out
\* of space: does file data ever land in the root region?
CONSTANTS
  NBlocks = 5
  DataInBlock = 2
  MaxDirsInRoot = 2
  MaxFilesInDir = 2
  Names = {n1, n2, n3}
  Exts = {e1, e2}
  TooLong = {n3}
  Bytes = {b1}
  Zero = Zero
  RootByte = RootByte
  None = None
  MaxFileSize = 4
  MaxIO = 2
  MaxLeaked = 1
  Crashes = FALSE
  SizeT <- MCSizeT

SPECIFICATION Spec
INVARIANT RootIntact
