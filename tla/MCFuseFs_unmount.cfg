\* One directory of two files on a disk with one free data block per file:
\* the first write past a block boundary fails, while writes inside the
\* first block of the other file still succeed and save its size.
CONSTANTS
  NBlocks = 5
  DataInBlock = 2
  MaxDirsInRoot = 1
  MaxFilesInDir = 2
  Names = {n1, n2}
  Exts = {e1}
  TooLong = {}
  Bytes = {b1}
  Zero = Zero
  RootByte = RootByte
  None = None
  MaxFileSize = 3
  MaxIO = 2
  MaxLeaked = 1
  Crashes = FALSE
  SizeT <- MCSizeT

SPECIFICATION Spec
PROPERTY UnmountLosesNoData
SYMMETRY MCSymmetry
