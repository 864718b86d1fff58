\* Two worker threads, each serving one mkdir or mknod, on a disk with
\* room for every block they ask for, so the races, not a full disk,
\* decide what is on .disk.  The model stops when both requests returned.
CONSTANTS
  Threads = {t1, t2}
  Dirs = {d1, d2}
  Files = {f1, f2}
  Home = h
  NBlocks = 6
  MaxDirsInRoot = 3
  MaxFilesInDir = 2

SPECIFICATION Spec
INVARIANT CreatesPersist
CHECK_DEADLOCK FALSE
