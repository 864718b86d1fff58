------------------------------- MODULE FuseFs -------------------------------
(***************************************************************************)
(* The two-level filesystem of csc452fuse.c.  The .disk backing file is    *)
(* an array of NBlocks block-sized regions addressed by block number (the  *)
(* code's byte offsets divided by BLOCK_SIZE):                             *)
(*   - region 0 holds the root directory (root),                           *)
(*   - every region handed out for a directory holds a file table          *)
(*     (dirblk),                                                           *)
(*   - every region handed out for file data holds a csc452_disk_block,    *)
(*     i.e. DataInBlock data bytes and the nNextBlock link (blocks),       *)
(*   - the last region holds the free-space cursor (cursor).               *)
(* A region is one sequence of bytes; dirblk and blocks are its two        *)
(* readings.  The bump allocator never hands a region out twice, so each   *)
(* allocated region is read one way only, except when a chain walk follows *)
(* a 0 link into the root region: blocks[0] is the root region read as a  *)
(* data block, its bytes are RootByte and its link is the zero padding.    *)
(*                                                                         *)
(* Each FUSE handler runs to completion before the next one (one request   *)
(* at a time).  A handler that can change the disk is one action and its  *)
(* return value is ret; csc452_read changes nothing and is the operator    *)
(* Read.  written is a history variable: the byte each successful write    *)
(* put at each position of each file.                                      *)
(*                                                                         *)
(* csc452_write writes through a stdio FILE: its fwrite calls reach .disk  *)
(* at the next fseek or fclose.  The out-of-space return does not close    *)
(* the FILE, so a directory table it had not yet flushed stays in the      *)
(* stream's buffer (leaked) until exit() flushes every open stream when    *)
(* fuse_main returns at unmount.                                           *)
(***************************************************************************)
EXTENDS Integers, Sequences, SequencesExt, FiniteSets

CONSTANTS
  NBlocks,        \* BLOCK_SIZE regions in .disk: root at 0, cursor at NBlocks-1
  DataInBlock,    \* MAX_DATA_IN_BLOCK: data bytes of one csc452_disk_block
  MaxDirsInRoot,  \* MAX_DIRS_IN_ROOT
  MaxFilesInDir,  \* MAX_FILES_IN_DIR
  Names,          \* directory and file base names
  Exts,           \* file extensions
  TooLong,        \* the names and extensions longer than 8 (resp. 3) chars
  Bytes,          \* byte values a caller writes
  Zero,           \* the zero byte of a freshly formatted .disk
  RootByte,       \* a byte of the root directory read as file data
  None,           \* absent path component / no read result
  MaxFileSize,    \* bound: no write extends a file past this many bytes
  MaxIO,          \* bound: largest size passed to read or write
  MaxLeaked,      \* bound: most FILEs left open by failed writes
  Crashes,        \* whether the daemon may be killed
  SizeT           \* modulus of size_t arithmetic (2^64 in the build)

ASSUME /\ NBlocks \in Nat /\ NBlocks >= 3
       /\ DataInBlock \in Nat \ {0}
       /\ MaxDirsInRoot \in Nat \ {0} /\ MaxFilesInDir \in Nat \ {0}
       /\ TooLong \subseteq Names \cup Exts
       /\ {Zero, RootByte, None} \cap Bytes = {}
       /\ MaxFileSize \in Nat /\ MaxIO \in Nat /\ MaxLeaked \in Nat /\ Crashes \in BOOLEAN
       /\ SizeT \in Nat /\ SizeT > MaxFileSize + MaxIO

VARIABLES root, dirblk, blocks, cursor, ret, written,
          leaked   \* tables buffered in unclosed FILEs: [a |-> region, tbl |-> table],
                   \* in the order the streams were opened
vars == <<root, dirblk, blocks, cursor, ret, written, leaked>>

Addr == 0 .. NBlocks - 1
RootAddr == 0
CursorAddr == NBlocks - 1
ByteVal == Bytes \cup {Zero, RootByte}
Pos == 0 .. MaxFileSize - 1
FileIds == Names \X Names \X Exts
\* errno values of <errno.h>; a handler returns -errno on failure.
EPERM == 1
ENOENT == 2
EEXIST == 17
EISDIR == 21
EINVAL == 22
EFBIG == 27
ENOSPC == 28
ENAMETOOLONG == 36
EDQUOT == 122
\* Not a return value: the early-return checks of read and write passed.
Proceed == -1000

\* The result of sscanf(path, "/%[^/]/%[^.].%s", directory, filename,
\* extension): comp is how many of the three components were matched.
Paths ==
     {[comp |-> 1, dir |-> d, name |-> None, ext |-> None] : d \in Names}
  \cup {[comp |-> 2, dir |-> d, name |-> n, ext |-> None] : d, n \in Names}
  \cup {[comp |-> 3, dir |-> d, name |-> n, ext |-> e] :
          d \in Names, n \in Names, e \in Exts}

ZeroBlock == [data |-> [i \in 0 .. DataInBlock - 1 |-> Zero], next |-> 0]
RootAsData == [data |-> [i \in 0 .. DataInBlock - 1 |-> RootByte], next |-> 0]

-----------------------------------------------------------------------------
(* Lookups: dir_exists, get_dir and file_exist.                            *)

\* dir_exists: the first root slot named d, 0 when there is none.
DirIndex(d) ==
  IF \E i \in 1 .. Len(root) : root[i].dname = d
  THEN CHOOSE i \in 1 .. Len(root) :
         root[i].dname = d /\ \A j \in 1 .. i - 1 : root[j].dname # d
  ELSE 0

DirExists(d) == DirIndex(d) # 0
DirAddr(d) == root[DirIndex(d)].nStartBlock

\* file_exist's scan of the directory's table: the first entry named n
\* whose extension is e, or any extension when the path had no extension.
FileIndex(d, n, e, comp) ==
  LET tbl == dirblk[DirAddr(d)]
      Match(i) == tbl[i].fname = n /\ (comp = 3 => tbl[i].fext = e)
  IN IF DirExists(d) /\ \E i \in 1 .. Len(tbl) : Match(i)
     THEN CHOOSE i \in 1 .. Len(tbl) :
            Match(i) /\ \A j \in 1 .. i - 1 : ~Match(j)
     ELSE 0

FileExists(p) == FileIndex(p.dir, p.name, p.ext, p.comp) # 0
EntryOf(p) == dirblk[DirAddr(p.dir)][FileIndex(p.dir, p.name, p.ext, 3)]

-----------------------------------------------------------------------------
(* next_free_block: the block after the last allocated one, unless it      *)
(* reaches the cursor region.                                              *)

\* Slips in next_free_block kept for mutation analysis: no full-disk check
\* at all, and `>` for `>=` in the full-disk check.
CanAllocUnchecked(c) == TRUE
CanAllocUpToCursor(c) == c + 1 <= CursorAddr

CanAlloc(c) == c + 1 < CursorAddr
NextFree(c) == c + 1

-----------------------------------------------------------------------------
(* The chain walks shared by csc452_read and csc452_write.                 *)

\* Slip: `>=` for `>` in the skip loop.
RECURSIVE SkipAtBoundary(_, _, _)
SkipAtBoundary(a, blk, bi) ==
  IF bi >= DataInBlock
  THEN SkipAtBoundary(blk.next, blocks[blk.next], bi - DataInBlock)
  ELSE [a |-> a, blk |-> blk, bi |-> bi]

\* The loop `while (begin_index > MAX_DATA_IN_BLOCK)`: follow nNextBlock
\* from block a until the in-block index is at most DataInBlock.
RECURSIVE Skip(_, _, _)
Skip(a, blk, bi) ==
  IF bi > DataInBlock
  THEN Skip(blk.next, blocks[blk.next], bi - DataInBlock)
  ELSE [a |-> a, blk |-> blk, bi |-> bi]

\* Slip: the read loop refills from the same block instead of nNextBlock.
RECURSIVE ReadBytesSameBlock(_, _, _, _)
ReadBytesSameBlock(blk, bi, left, n) ==
  IF n = 0 THEN <<>>
  ELSE IF left = 0 THEN ReadBytesSameBlock(blk, 0, DataInBlock, n)
  ELSE <<blk.data[bi]>> \o ReadBytesSameBlock(blk, bi + 1, left - 1, n - 1)

\* The copy loop of csc452_read: n bytes from block blk starting at bi,
\* moving to blocks[blk.next] whenever the block has no bytes left.
RECURSIVE ReadBytes(_, _, _, _)
ReadBytes(blk, bi, left, n) ==
  IF n = 0 THEN <<>>
  ELSE IF left = 0 THEN ReadBytes(blocks[blk.next], 0, DataInBlock, n)
  ELSE <<blk.data[bi]>> \o ReadBytes(blk, bi + 1, left - 1, n - 1)

\* Slip: the current block, with its new link, is saved before
\* next_free_block saves the moved cursor.
AdvanceLinkFirst(w) ==
  IF w.blk.next = 0 /\ ~CanAlloc(w.cursor)
  THEN [w EXCEPT !.ok = FALSE]
  ELSE LET grow == w.blk.next = 0
           blk  == IF grow THEN [w.blk EXCEPT !.next = NextFree(w.cursor)]
                           ELSE w.blk
           cur  == IF grow THEN NextFree(w.cursor) ELSE w.cursor
           disk == [w.blocks EXCEPT ![w.a] = blk]
       IN [w EXCEPT !.blocks = disk, !.cursor = cur,
                    !.a = blk.next, !.blk = disk[blk.next],
                    !.bi = 0, !.left = DataInBlock, !.flushed = TRUE,
                    !.log = @ \o <<[blocks |-> disk, cursor |-> w.cursor, flushed |-> TRUE],
                                   [blocks |-> disk, cursor |-> cur, flushed |-> TRUE]>>]

\* One turn of csc452_write's `file_block_left == 0` branch on the walk
\* state w: allocate a next block if the chain ends here (or give up with
\* -EFBIG, leaving the current block unsaved), save the current block,
\* and load the next one.  w.log gets the disk after each step of it
\* that reaches .disk: next_free_block's fclose of the cursor, the fseek
\* at line 579 that flushes the FILE, and the fseek at 582 that flushes
\* the saved block.
Advance(w) ==
  IF w.blk.next = 0 /\ ~CanAlloc(w.cursor)
  THEN [w EXCEPT !.ok = FALSE]
  ELSE LET grow == w.blk.next = 0
           blk  == IF grow THEN [w.blk EXCEPT !.next = NextFree(w.cursor)]
                           ELSE w.blk
           cur  == IF grow THEN NextFree(w.cursor) ELSE w.cursor
           disk == [w.blocks EXCEPT ![w.a] = blk]
       IN [w EXCEPT !.blocks = disk, !.cursor = cur,
                    !.a = blk.next, !.blk = disk[blk.next],
                    !.bi = 0, !.left = DataInBlock, !.flushed = TRUE,
                    !.log = @ \o <<[blocks |-> w.blocks, cursor |-> cur, flushed |-> w.flushed],
                                   [blocks |-> w.blocks, cursor |-> cur, flushed |-> TRUE],
                                   [blocks |-> disk, cursor |-> cur, flushed |-> TRUE]>>]

\* csc452_write's copy loop `while (left_to_write > 0)` over the bytes of
\* buf, stopping at the first failed allocation.
RECURSIVE WriteBytes(_, _)
WriteBytes(w, buf) ==
  IF buf = <<>> \/ ~w.ok THEN w
  ELSE LET v == IF w.left = 0 THEN Advance(w) ELSE w
       IN IF ~v.ok THEN v
          ELSE WriteBytes([v EXCEPT !.blk.data[v.bi] = Head(buf),
                                    !.bi = @ + 1, !.left = @ - 1], Tail(buf))

-----------------------------------------------------------------------------
(* State and handlers.                                                     *)

\* The fixed arrays directories[MAX_DIRS_IN_ROOT] and
\* files[MAX_FILES_IN_DIR] bound the tables.
TypeOK ==
  /\ root \in Seq([dname : Names, nStartBlock : Addr])
  /\ Len(root) <= MaxDirsInRoot
  /\ dirblk \in [Addr -> Seq([fname : Names, fext : Exts,
                                fsize : 0 .. SizeT - 1, nStartBlock : Addr])]
  /\ \A a \in Addr : Len(dirblk[a]) <= MaxFilesInDir
  /\ blocks \in [Addr -> [data : [0 .. DataInBlock - 1 -> ByteVal],
                          next : Addr]]
  /\ cursor \in Addr
  /\ ret \in Int
  /\ written \in [FileIds -> [Pos -> ByteVal]]
  /\ leaked \in Seq([a : Addr, tbl : Seq([fname : Names, fext : Exts,
                                          fsize : 0 .. SizeT - 1, nStartBlock : Addr])])

\* A freshly formatted .disk: all zero bytes.
Init ==
  /\ root = <<>>
  /\ dirblk = [a \in Addr |-> <<>>]
  /\ blocks = [a \in Addr |-> IF a = RootAddr THEN RootAsData ELSE ZeroBlock]
  /\ cursor = 0
  /\ ret = 0
  /\ written = [f \in FileIds |-> [k \in Pos |-> Zero]]
  /\ leaked = <<>>

\* Slip: `>` for `>=` in the root-table-full check.
MkdirErrorSlotOffByOne(p) ==
  CASE p.comp # 1                     -> -EPERM
    [] p.dir \in TooLong              -> -ENAMETOOLONG
    [] DirExists(p.dir)               -> -EEXIST
    [] Len(root) > MaxDirsInRoot      -> -ENOSPC
    [] ~CanAlloc(cursor)              -> -EDQUOT
    [] OTHER                          -> 0

MkdirError(p) ==
  CASE p.comp # 1                     -> -EPERM
    [] p.dir \in TooLong              -> -ENAMETOOLONG
    [] DirExists(p.dir)               -> -EEXIST
    [] Len(root) >= MaxDirsInRoot     -> -ENOSPC
    [] ~CanAlloc(cursor)              -> -EDQUOT
    [] OTHER                          -> 0

\* csc452_mkdir: append a root slot for a newly allocated block and save
\* the root.  The new block is not cleared: its table is whatever the
\* region holds.
Mkdir(p) ==
  LET r == MkdirError(p) IN
  /\ ret' = r
  /\ IF r = 0
     THEN /\ root' = Append(root, [dname |-> p.dir,
                                   nStartBlock |-> NextFree(cursor)])
          /\ cursor' = NextFree(cursor)
     ELSE UNCHANGED <<root, cursor>>
  /\ UNCHANGED <<dirblk, blocks, written, leaked>>

MknodError(p) ==
  CASE p.comp # 3                                  -> -EPERM
    [] p.name \in TooLong \/ p.ext \in TooLong     -> -ENAMETOOLONG
    [] FileExists(p)                               -> -EEXIST
    [] Len(dirblk[DirAddr(p.dir)]) >= MaxFilesInDir -> -ENOSPC
    [] ~CanAlloc(cursor)                           -> -EDQUOT
    [] OTHER                                       -> 0

\* csc452_mknod: append a file entry of size 0 whose first data block is
\* newly allocated, and save the table at the directory's block.  FUSE
\* looks the parent up before it calls mknod, so the directory of a
\* three-component path exists.
Mknod(p) ==
  LET r == MknodError(p)
      a == DirAddr(p.dir)
  IN
  /\ p.comp = 3 => DirExists(p.dir)
  /\ ret' = r
  /\ IF r = 0
     THEN /\ dirblk' = [dirblk EXCEPT ![a] =
                 Append(@, [fname |-> p.name, fext |-> p.ext, fsize |-> 0,
                            nStartBlock |-> NextFree(cursor)])]
          /\ cursor' = NextFree(cursor)
     ELSE UNCHANGED <<dirblk, cursor>>
  /\ UNCHANGED <<root, blocks, written, leaked>>

\* The early returns shared by csc452_read and csc452_write; tooFar is the
\* error for an offset past the end of the file.
IOError(p, off, size, tooFar) ==
  CASE p.comp = 1 /\ DirExists(p.dir)  -> -EISDIR
    [] p.comp # 3                      -> -ENOENT
    [] ~FileExists(p)                  -> -ENOENT
    [] size = 0                        -> 0
    [] off > EntryOf(p).fsize          -> tooFar
    [] OTHER                           -> Proceed

\* csc452_read, which changes nothing on disk: its return value and the
\* bytes it copies, min(size, fsize) of them starting at off.
Read(p, off, size) ==
  LET r == IOError(p, off, size, -EINVAL)
      e == EntryOf(p)
      s == Skip(e.nStartBlock, blocks[e.nStartBlock], off)
      n == IF size > e.fsize THEN e.fsize ELSE size
  IN IF r = Proceed
     THEN [ret |-> n, bytes |-> ReadBytes(s.blk, s.bi, DataInBlock - s.bi, n)]
     ELSE [ret |-> r, bytes |-> <<>>]

\* csc452_write on an existing file (past its early returns): the entry
\* table with the new size, saved first when the size_t difference
\* offset - fsize + size is not zero, ...
WriteDir(p, off, buf) ==
  LET a == DirAddr(p.dir)
      i == FileIndex(p.dir, p.name, p.ext, 3)
      inc == (off - dirblk[a][i].fsize + Len(buf)) % SizeT
  IN IF inc > 0 THEN [dirblk EXCEPT ![a][i].fsize = (@ + inc) % SizeT]
     ELSE dirblk

\* ... and the walk: to the block of off, then copying buf byte by byte,
\* growing the chain from the allocator.  The skip loop's fseek (line
\* 559) flushes the saved entry when off > DataInBlock.
WriteWalk(p, off, buf) ==
  LET e  == EntryOf(p)
      s  == Skip(e.nStartBlock, blocks[e.nStartBlock], off)
      fl == off > DataInBlock
  IN WriteBytes([blocks |-> blocks, cursor |-> cursor, a |-> s.a,
                 blk |-> s.blk, bi |-> s.bi, left |-> DataInBlock - s.bi,
                 ok |-> TRUE, flushed |-> fl,
                 log |-> IF fl THEN <<[blocks |-> blocks, cursor |-> cursor,
                                        flushed |-> TRUE]>> ELSE <<>>], buf)

\* csc452_write: save the last block and return size.  Running out of
\* space returns -EFBIG with the current block unsaved and the FILE open:
\* the new size is on disk if an fseek has flushed it, and otherwise
\* stays in the leaked stream.
Write(p, off, buf) ==
  LET r == IOError(p, off, Len(buf), -EFBIG) IN
  /\ off + Len(buf) <= MaxFileSize
  /\ IF r = Proceed
     THEN LET a == DirAddr(p.dir)
              d == WriteDir(p, off, buf)
              w == WriteWalk(p, off, buf)
              f == <<p.dir, p.name, p.ext>>
              buffered == d # dirblk /\ ~w.ok /\ ~w.flushed
          IN /\ buffered => Len(leaked) < MaxLeaked
             /\ dirblk' = IF buffered THEN dirblk ELSE d
             /\ leaked' = IF buffered THEN Append(leaked, [a |-> a, tbl |-> d[a]])
                                     ELSE leaked
             /\ blocks' = IF w.ok THEN [w.blocks EXCEPT ![w.a] = w.blk]
                                  ELSE w.blocks
             /\ cursor' = w.cursor
             /\ ret' = IF w.ok THEN Len(buf) ELSE -EFBIG
             /\ written' =
                  IF w.ok
                  THEN [written EXCEPT ![f] = [k \in Pos |->
                          IF off <= k /\ k < off + Len(buf)
                          THEN buf[k - off + 1] ELSE @[k]]]
                  ELSE written
     ELSE /\ ret' = r
          /\ UNCHANGED <<dirblk, blocks, cursor, written, leaked>>
  /\ UNCHANGED root

\* csc452_getattr, which changes nothing: directory or regular file and,
\* for a file, the size file_exist returns (the first entry of that name,
\* of any extension when the path has none).
Getattr(p) ==
  CASE p.comp = 1 /\ DirExists(p.dir)
         -> [ret |-> 0, kind |-> "dir", size |-> 0]
    [] p.comp \in {2, 3} /\ FileExists(p)
         -> [ret |-> 0, kind |-> "reg",
             size |-> dirblk[DirAddr(p.dir)][FileIndex(p.dir, p.name, p.ext, p.comp)].fsize]
    [] OTHER -> [ret |-> -ENOENT, kind |-> None, size |-> 0]

\* Slip: the listing loop of the root starts at the second slot.
ReaddirRootFromTwo ==
  <<".", "..">> \o [i \in 1 .. Len(root) - 1 |-> root[i + 1].dname]

\* csc452_readdir of "/": ".", ".." and the name of every root slot.
ReaddirRoot == <<".", "..">> \o [i \in 1 .. Len(root) |-> root[i].dname]

\* csc452_readdir of any other path: for a directory, the name (without
\* extension) of every entry of its table, and no "." or "..".
Readdir(p) ==
  IF p.comp = 1 /\ DirExists(p.dir)
  THEN [ret |-> 0, names |-> LET tbl == dirblk[DirAddr(p.dir)]
                             IN [i \in 1 .. Len(tbl) |-> tbl[i].fname]]
  ELSE [ret |-> -ENOENT, names |-> <<>>]

\* csc452_rmdir, csc452_unlink, csc452_truncate, csc452_open and
\* csc452_flush: accepted, return 0, change nothing.
NoEffectHandler ==
  /\ ret' = 0
  /\ UNCHANGED <<root, dirblk, blocks, cursor, written, leaked>>

\* exit() after fuse_main returns flushes the open streams, the most
\* recently opened first (glibc's list of streams), so where two leaked
\* tables are for one region the older one is written last.
RECURSIVE FlushLeaked(_, _)
FlushLeaked(d, s) ==
  IF s = <<>> THEN d
  ELSE FlushLeaked([d EXCEPT ![Last(s).a] = Last(s).tbl], Front(s))

\* The filesystem is unmounted (and mounted again): main returns from
\* fuse_main and exit() writes the leaked tables.  With nothing leaked
\* unmounting changes nothing on disk.
Unmount ==
  /\ leaked # <<>>
  /\ dirblk' = FlushLeaked(dirblk, leaked)
  /\ leaked' = <<>>
  /\ UNCHANGED <<root, blocks, cursor, ret, written>>

\* Write returns before looking at offset, size or buffer unless
\* the path has three components and names an existing file; for other paths one input stands for
\* all.  Every offset past fsize fails alike with -EFBIG (line 538), so
\* fsize + 1 stands for them.
Offsets(p) == IF p.comp = 3 /\ FileExists(p)
              THEN 0 .. IF EntryOf(p).fsize < MaxFileSize THEN EntryOf(p).fsize + 1
                                                          ELSE MaxFileSize
              ELSE {0}
Buffers(p) == IF p.comp = 3 /\ FileExists(p) THEN SeqOf(Bytes, MaxIO) ELSE {<<>>}

\* The daemon is killed and the filesystem mounted again.  What an fseek
\* or fclose handed to the kernel stays on .disk; what sits in a stdio
\* buffer is lost, the leaked tables included.  The kill comes between
\* two handlers, between next_free_block's save of the cursor and the
\* table save of csc452_mkdir or csc452_mknod, or at any point of
\* csc452_write's copy loop recorded in its walk's log.
Crash ==
  /\ Crashes
  /\ leaked' = <<>>
  /\ UNCHANGED <<root, ret, written>>
  /\ \/ /\ leaked # <<>>
        /\ UNCHANGED <<dirblk, blocks, cursor>>
     \/ /\ \E p \in Paths :
             \/ MkdirError(p) = 0
             \/ p.comp = 3 /\ DirExists(p.dir) /\ MknodError(p) = 0
        /\ cursor' = NextFree(cursor)
        /\ UNCHANGED <<dirblk, blocks>>
     \/ \E p \in Paths : \E off \in Offsets(p), buf \in Buffers(p) :
          /\ IOError(p, off, Len(buf), -EFBIG) = Proceed
          /\ off + Len(buf) <= MaxFileSize
          /\ \E l \in ToSet(WriteWalk(p, off, buf).log) :
               /\ dirblk' = IF l.flushed THEN WriteDir(p, off, buf) ELSE dirblk
               /\ blocks' = l.blocks
               /\ cursor' = l.cursor

Next ==
  \/ \E p \in Paths : Mkdir(p)
  \/ \E p \in Paths : Mknod(p)
  \/ \E p \in Paths : \E off \in Offsets(p), buf \in Buffers(p) :
       Write(p, off, buf)
  \/ NoEffectHandler
  \/ Unmount
  \/ Crash

Spec == Init /\ [][Next]_vars

-----------------------------------------------------------------------------
(* Properties.                                                             *)

\* The data blocks of the chain that starts at a, in link order.
RECURSIVE ChainFrom(_, _)
ChainFrom(a, k) ==
  IF a = 0 \/ k = 0 THEN <<>> ELSE <<a>> \o ChainFrom(blocks[a].next, k - 1)
Chain(a) == ChainFrom(a, NBlocks)

\* Every file entry of every directory, with the directory's name.
FilesOfSlot(i) ==
  LET tbl == dirblk[root[i].nStartBlock]
  IN {[dname |-> root[i].dname, e |-> tbl[j]] : j \in 1 .. Len(tbl)}
Files == UNION {FilesOfSlot(i) : i \in 1 .. Len(root)}

DirBlocks == {root[i].nStartBlock : i \in 1 .. Len(root)}

\* Layout: mkdir, mknod and the chain growth of write each take a region
\* from next_free_block.  No region is ever used for two things: the
\* directory tables, and the chains of all files, are pairwise disjoint,
\* no chain loops, and every one of these regions lies between the root
\* region and the cursor region and has been handed out (is at most the
\* cursor).
DiskLayoutDisjoint ==
  /\ cursor < CursorAddr
  /\ Cardinality(DirBlocks) = Len(root)
  /\ DirBlocks \subseteq 1 .. cursor
  /\ \A f \in Files :
       LET c == Chain(f.e.nStartBlock) IN
       /\ f.e.nStartBlock # 0
       /\ Len(c) = Cardinality(ToSet(c))
       /\ ToSet(c) \subseteq (1 .. cursor) \ DirBlocks
  /\ \A f, g \in Files :
       f # g => ToSet(Chain(f.e.nStartBlock)) \cap ToSet(Chain(g.e.nStartBlock)) = {}

\* Contents: for every file, byte k of the file (k below the size the
\* directory entry records) is stored at index k % DataInBlock of the
\* (k \div DataInBlock)-th block of its chain, and it is the byte the last
\* successful csc452_write put at position k.  This is the layout both
\* chain walks of csc452_read and csc452_write must agree on, across
\* block boundaries and appends.
ChainHoldsWrittenBytes ==
  \A f \in Files :
    LET c == Chain(f.e.nStartBlock)
        id == <<f.dname, f.e.fname, f.e.fext>>
    IN \A k \in 0 .. f.e.fsize - 1 :
         /\ k \in Pos
         /\ k \div DataInBlock < Len(c)
         /\ blocks[c[k \div DataInBlock + 1]].data[k % DataInBlock]
              = written[id][k]

\* The three-component path of an existing file, and its entry.
FilePaths == {p \in Paths : p.comp = 3 /\ FileExists(p)}

\* Reads: whatever offset and size a caller passes, the bytes csc452_read
\* returns, as far as they lie inside the file, are the bytes last
\* written at those positions.
ReadReturnsWritten ==
  \A p \in FilePaths, off \in 0 .. MaxFileSize, size \in 1 .. MaxIO :
    LET r == Read(p, off, size)
    IN \A j \in 1 .. Len(r.bytes) :
         off + j - 1 < EntryOf(p).fsize =>
           r.bytes[j] = written[<<p.dir, p.name, p.ext>>][off + j - 1]

\* The path of directory d, and of the bare name n in it.
DirPath(d) == [comp |-> 1, dir |-> d, name |-> None, ext |-> None]
NamePath(d, n) == [comp |-> 2, dir |-> d, name |-> n, ext |-> None]

\* Listing and lookup agree, as ls relies on: csc452_readdir of "/" names
\* every directory csc452_getattr reports, each exactly once, and nothing
\* else; csc452_readdir of a directory names exactly the bare names
\* getattr finds in it; and getattr of a file's full path reports the
\* size its directory entry records.
ListingMatchesLookup ==
  /\ \A d \in Names :
       Cardinality({i \in 3 .. Len(ReaddirRoot) : ReaddirRoot[i] = d})
         = IF Getattr(DirPath(d)).kind = "dir" THEN 1 ELSE 0
  /\ \A d \in Names : DirExists(d) =>
       \A n \in Names :
         n \in ToSet(Readdir(DirPath(d)).names) <=> Getattr(NamePath(d, n)).ret = 0
  /\ \A f \in Files :
       Getattr([comp |-> 3, dir |-> f.dname, name |-> f.e.fname, ext |-> f.e.fext]).size
         = f.e.fsize

\* The same file of two entries: same directory, name and extension.
SameFile(f, g) ==
  f.dname = g.dname /\ f.e.fname = g.e.fname /\ f.e.fext = g.e.fext

\* Unmount loses nothing: when exit() flushes the FILEs that failed writes
\* left open, every file keeps its entry and at least the size the disk
\* gave it, so nothing a later handler saved in that directory is undone.
UnmountLosesNoData ==
  [][Unmount => \A f \in Files : \E g \in Files' : SameFile(f, g) /\ g.e.fsize >= f.e.fsize]_vars

\* Root: no chain walk of csc452_write ever stores file data into the
\* root directory's region.
RootIntact ==
  blocks[RootAddr] = RootAsData


-----------------------------------------------------------------------------
(* Refinement of FsAbstract: the directories are the names in the root     *)
(* table, a file's bytes are the first fsize bytes of its chain.           *)

\* Byte k (from 0) of the chain starting at a, RootByte past its end.
ChainByte(a, k) ==
  LET c == Chain(a) IN
  IF k \div DataInBlock < Len(c)
  THEN blocks[c[k \div DataInBlock + 1]].data[k % DataInBlock]
  ELSE RootByte

FileBytes(f) == [k \in 1 .. f.e.fsize |-> ChainByte(f.e.nStartBlock, k - 1)]

Abs == INSTANCE FsAbstract WITH
         dirs <- {root[i].dname : i \in 1 .. Len(root)},
         files <- [id \in {<<f.dname, f.e.fname, f.e.fext>> : f \in Files} |->
                     FileBytes(CHOOSE f \in Files :
                                 <<f.dname, f.e.fname, f.e.fext>> = id)]

\* The handlers implement the promised filesystem: every step of the disk
\* is a step of FsAbstract (or leaves its state alone).
RefinesAbstract == Abs!ASpec

=============================================================================
