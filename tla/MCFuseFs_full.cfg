\* A disk with three free blocks: mkdir, mknod and the chain growth of write
\* all meet a full disk.  Exploration stops at a state whose root region
\* has been overwritten by file data (run fs_root_clobbered shows how it
\* gets there): past it the root table of the model no longer is what the
\* code would read.
CONSTANTS
  NBlocks = 5
  DataInBlock = 2
  MaxDirsInRoot = 2
  MaxFilesInDir = 2
  Names = {n1, n2, n3}
  Exts = {e1}
  TooLong = {n3}
  Bytes = {b1}
  Zero = Zero
  RootByte = RootByte
  None = None
  MaxFileSize = 4
  MaxIO = 2
  MaxLeaked = 1
  Crashes = TRUE
  SizeT <- MCSizeT

SPECIFICATION Spec
CONSTRAINT RootIntact
INVARIANT DiskLayoutDisjoint
INVARIANT ListingMatchesLookup
SYMMETRY MCSymmetry
