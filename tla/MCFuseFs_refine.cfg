\* The roomy disk of MCFuseFs_roomy.cfg: do the handlers implement FsAbstract?
CONSTANTS
  NBlocks = 7
  DataInBlock = 2
  MaxDirsInRoot = 1
  MaxFilesInDir = 2
  Names = {n1, n2}
  Exts = {e1}
  TooLong = {}
  Bytes = {b1, b2}
  Zero = Zero
  RootByte = RootByte
  None = None
  MaxFileSize = 3
  MaxIO = 2
  MaxLeaked = 1
  Crashes = FALSE
  SizeT <- MCSizeT

SPECIFICATION Spec
PROPERTY RefinesAbstract
