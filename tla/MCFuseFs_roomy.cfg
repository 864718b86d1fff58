\* A disk with room for every block the bounded writes can ask for, so no
\* write runs out of space part-way: one directory block and a file of up
\* to 4 bytes, i.e. two full 2-byte blocks, so offsets 0..4 reach both block
\* boundaries (2 and 4) and writes that extend the chain by one block.
CONSTANTS
  NBlocks = 6
  DataInBlock = 2
  MaxDirsInRoot = 1
  MaxFilesInDir = 1
  Names = {n1, n2}
  Exts = {e1}
  TooLong = {}
  Bytes = {b1, b2}
  Zero = Zero
  RootByte = RootByte
  None = None
  MaxFileSize = 4
  MaxIO = 2
  MaxLeaked = 1
  Crashes = FALSE
  SizeT <- MCSizeT

SPECIFICATION Spec
INVARIANT TypeOK
INVARIANT ChainHoldsWrittenBytes
INVARIANT ReadReturnsWritten
SYMMETRY MCSymmetry
