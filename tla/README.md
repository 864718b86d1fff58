# TLA+ models of Operating-System-Implementation

This directory holds TLA+ specifications of the programs under `src/` and the TLC
configurations that check them. Each module is translated from the C source; the
`map` of `PROJECT.json` names the lines every definition stands for.

## The system

| Part | Source | What it is |
|---|---|---|
| FUSE filesystem | `src/File Systems Implementation/csc452fuse.c` | A two-level filesystem stored in a flat `.disk` file. Block 0 holds the root directory. Each directory is one block holding a table of file entries. A file is a linked chain of data blocks. The last block of the disk holds the allocator cursor. |
| prodcons | `src/Semaphore and Synchronization/prodcons.c` | Two producers (north and south cars) and a consumer (the flagperson), as three forked processes. They share two circular queues in an mmap'd page, guarded by kernel semaphores (`down`/`up` = syscalls 443/444). |
| trafficsim | `src/Semaphore and Synchronization/trafficsim.c` | The same road-work scenario with index-counter buffers. Its consumer decides which side to serve by reading semaphore values. |
| graphics library | `src/Graphic Library/library.c`, `graphics.h`, `driver.c` | A framebuffer library: `draw_pixel` with a bounds check, Bresenham `draw_line`, `clear_screen`, and `blit` from an off-screen buffer. |
| osmsg | `src/Syscall Implementation/osmsg.c` | A command-line client for two message-passing syscalls. |

The parts do not interact with each other, except that `driver.c` is a client of the graphics library. Inside each part, the actors interact as follows:

- **Filesystem.** FUSE calls the handlers (`csc452_mkdir`, `csc452_mknod`, `csc452_write`, `csc452_read`, ...). Each handler opens `.disk`, reads blocks, rewrites them and closes the file. All handlers share `next_free_block`, a bump allocator whose cursor is kept in the last block.
- **prodcons and trafficsim.** The producers and the consumer meet only through the shared page and the kernel semaphores.

### State, operations and what makes each correct

**FUSE filesystem.**

- **State:**
  - the root table: up to `MAX_DIRS_IN_ROOT` entries of name and start block;
  - a table of file entries in each directory block: name, extension, `fsize`, start block;
  - data blocks: `MAX_DATA_IN_BLOCK` bytes and `nNextBlock`;
  - the cursor.
- **Operations:** `getattr`, `readdir`, `mkdir`, `mknod`, `read`, `write`, and the no-ops `rmdir`, `unlink`, `truncate`, `open` and `flush`.
- **Correctness:**
  - the allocator never hands out a block twice, nor the cursor block;
  - the chains of distinct files are disjoint, and are disjoint from the directory blocks;
  - every byte of a file below `fsize` is in its chain at the position written last;
  - `read` returns exactly the file's bytes;
  - no handler touches the root block except through the root table;
  - the tables never overflow.
- **Hard behaviours:**
  - the `size_t` arithmetic of `write`;
  - the strict `>` at block boundaries;
  - an allocation failure in the middle of a write, after the new size was saved;
  - FUSE's multi-threaded dispatch, which runs handlers of different parent directories concurrently with no lock;
  - a crash between the several `fwrite`s of one handler.

**prodcons.**

- **State:**
  - two queues (`front`, `rear`, `size`, 10 slots);
  - the semaphores `mutex`, `north_empty`/`north_full` and `south_empty`/`south_full`;
  - the shared car counter;
  - each process's copy of `is_sleep`.
- **Correctness:**
  - `size` equals the number of cars in the queue;
  - queue size and semaphore counts agree;
  - cars leave in arrival order per side;
  - car ids are unique (they are not: see the defects noticed below);
  - every car eventually leaves, unless both queues reach the limit;
  - no process blocks forever.

**trafficsim.**

- **State:** the two buffers; the index counters `n_prod`, `n_con`, `s_prod` and `s_con`; the five semaphores.
- **Correctness:** `n_prod - n_con` stays within 0..10 on each side; the consumer only takes produced cars; every produced car is eventually consumed; no deadlock, even though the consumer sleeps while holding `mutex`.

**graphics library.**

- **Correctness:** `draw_pixel` writes only inside the framebuffer; `draw_line` terminates for every pair of endpoints and draws a Bresenham line from the first endpoint to the second; after each `n` key, `driver.c`'s screen, read back as pixels, is that line in its colour and nothing else.

## Modules

| Module | Models |
|---|---|
| `FuseFs` | The filesystem handlers that change the disk, as atomic actions, and `read` as the operator `Read`. Also: the stdio buffering of `csc452_write`, the exit flush at unmount (`Unmount`) and the daemon being killed (`Crash`). |
| `FuseThreads` | `csc452_mkdir` and `csc452_mknod` run concurrently by FUSE worker threads, each step one `fopen`..`fclose` of `.disk`: the lookup, the read of the table into a local, `next_free_block`'s `fread` and `fwrite` of the cursor, and the save of the local table. The kernel's parent-directory lock keeps two creates of one parent apart. |
| `FsAbstract` | What the filesystem promises: a set of directories and a map from (dir, name, ext) to a byte sequence, where a write at `off <= len` overwrites and extends. |
| `MCFuseFs` | Instantiates `FuseFs` for TLC (`SizeT` = 2^16, symmetry). |
| `CarQueue` | The circular `car_queue` of prodcons.c (`is_full`, `is_empty`, `enqueue`, `dequeue`) as operators on a record, plus a standalone spec with a FIFO history variable. |
| `ProdCons` | prodcons.c: two producers and the flagperson as program counters over their loop statements, the five semaphores, and the two queues (through `CarQueue`). |
| `TrafficSim` | trafficsim.c: the same three processes over index counters and `BUFF_SIZE`-slot buffers, the consumer testing semaphore values. |
| `BoundedQueues` | What trafficsim's buffers promise: one FIFO queue of at most `BUFF_SIZE` cars per side. `TrafficSim` is checked to implement it. |
| `DrawLine` | `draw_line` of library.c, one iteration of its Bresenham loop per step, with `draw_pixel`'s bounds check and store address. |
| `Driver` | `driver.c`'s `main` over the library: `init_graphics`, `create_buffer` and the first `blit`; the key loop (`KeyN`: `n++`, `clear_screen`, `draw_line` in its `RGB` colour, `blit`; `KeyQ`; `Finish` at `n == 3`); `exit_graphics`. Images are functions from cells to `color_t`. The cells of a line come from `DrawLine`'s loop through the parameterised instance `DL(e) == INSTANCE DrawLine WITH ends <- e, ...`. |
| `MCDrawLine` | Instantiates `DrawLine` with endpoints that include points just off the screen (`-1`). Beside it, on the same screen and with no shared variable, it instantiates `Driver` with `driver.c`'s three lines scaled to the screen. |

### FuseFs: correspondence with the code

Disk regions are addressed by block index: the root is block 0, and the cursor is block `NBlocks-1`.

**Variables.**

| Variable | Code |
|---|---|
| `root` | `csc452_root_directory.directories[0..nDirectories-1]` |
| `dirblk[a]` | `csc452_directory_entry.files` of the directory block at `a`, as on `.disk` |
| `blocks[a]` | `data` and `nNextBlock` of the data block at `a`; `blocks[0]` is the root block read as a data block (`RootAsData`), which is what the code reads when it follows a 0 link |
| `cursor` | the `long` in the last block |
| `ret` | the value the last handler returned (negative errno) |
| `written` | a history variable, not on disk: what the handlers were asked to write at each position of each file, used to state what the chain must hold |
| `leaked` | the directory tables still in the stdio buffers of FILEs that failed writes left open, in the order they were opened |

**Actions.**

| Action | Code | Notes |
|---|---|---|
| `Mkdir(p)` | `csc452_mkdir` | `MkdirError` keeps the code's order of checks. |
| `Mknod(p)` | `csc452_mknod` | `MknodError` keeps the code's order of checks. |
| `Write(p, off, buf)` | `csc452_write` | The new table (`WriteDir`), the walk (`WriteWalk`: skip loop `Skip`, copy loop `WriteBytes`, `Advance`), the early `-EFBIG` return that leaves the current block unsaved, and the final save. See below for buffering. |
| `NoEffectHandler` | `rmdir`, `unlink`, `truncate`, `open`, `flush` | These return 0 and write nothing. |
| `Unmount` | `main`: `fuse_main` returns, then `exit()` | It flushes the leaked tables over their blocks, the most recently opened stream first (`FlushLeaked`). |
| `Crash` | a kill of the daemon | Only in `fs_full` (`Crashes = TRUE`). See below. |
| (operator) `Read` | `csc452_read` | It changes nothing on disk, so it is an operator that the properties quantify over. |
| (operators) `Getattr`, `Readdir` | `csc452_getattr`, `csc452_readdir` | Read-only, like `Read`. `Getattr` returns the kind and size found by the same lookups; `Readdir` lists the root's `dname`s after `.` and `..`, or a directory's `fname`s. |

Paths are the four shapes `sscanf` produces: 0, 1, 2 or 3 components. Names in `TooLong` model components of more than 8 (or 3) characters.

**Buffering.** `csc452_write` writes the directory table with `fwrite` at line 553. That write reaches `.disk` at the next `fseek` or `fclose` on the same FILE:

- the skip loop's `fseek` (line 559), which runs when `offset > MAX_DATA_IN_BLOCK`;
- the `fseek` at line 579 of the first block advance;
- the `fclose` at line 597.

The `-EFBIG` return at line 574 skips the `fclose`. If none of the `fseek`s ran before it, the new size stays in the leaked buffer (`leaked`), and `dirblk` keeps the old one. Every other write of the code goes through an `fclose`, or is followed by an `fseek` before anything else happens, so it is on `.disk` when the handler returns. `MaxLeaked` bounds how many streams are left open.

**Crashes.** A kill keeps what an `fseek` or `fclose` handed to the kernel and loses the stdio buffers, including the leaked ones. The power-loss case, where the kernel may also lose or reorder writes, is not modelled. `Advance` records the disk after each step of the copy loop that reaches `.disk`, in the field `log`. `Crash` picks one of these points:

- between two handlers;
- between `next_free_block`'s `fclose` of the moved cursor and the table save of `mkdir` or `mknod`;
- any entry of a write's `log`.

### FuseThreads: correspondence with the code

- `root`, `dirblk`, `cursor` are `.disk` as in `FuseFs`; directory `Home` exists at the start, at block 1.
- `req[t]` is the request thread `t` serves; `pc[t]` its next step. `lroot[t]`, `ltbl[t]` and `tmp[t]` are the handler's locals `root`, `entry` and `next_free_block`'s `tmp`.
- `MkdirLookup`/`MknodLookup` are `dir_exists`/`file_exist` (`-EEXIST`); `MkdirGetRoot`/`MknodGetDir` the `get_root`/`get_dir` copies and the full-table test (`-ENOSPC`); `AllocRead`/`AllocWrite` the two halves of `next_free_block` (`-EDQUOT` when full); `MkdirSave`/`MknodSave` the `fwrite` of the local table with the new entry.
- `ParentLocked(t)`: the kernel holds the parent directory's inode lock across a FUSE `mkdir` or `mknod` (`vfs_mkdir`, `vfs_mknod`), so a thread starts its request only while no request of the same parent (`Parent`: `/` for `mkdir`, `Home` for `mknod`) is in flight. A `mkdir` and a `mknod` overlap.
- The path checks, which read no disk, and the data blocks are left out.

### CarQueue, ProdCons, TrafficSim, BoundedQueues: correspondence with the code

- **Processes.** `pc[p]` is the statement process `p` is about to run. A producer's labels are `down_empty`, `down_mutex`, `enqueue`/`produce`, `up_mutex`, `up_full`. The flagperson's `pc` is `<<side, label>>`.
- **Semaphores.** `sem` maps the five semaphore names to their values. `down(p, s, from, to)` is enabled only when `sem[s] > 0` (syscall 443 blocks); `up` increments (syscall 444). The kernel side is not in the repository; this is the semaphore the wrappers and comments rely on.
- **Loop conditions.** Each operand of the flagperson's `while` conditions is its own step (`FlagTest...`), since each reads shared memory separately and short-circuits.
- **Queues.** `queues[s]` is the `car_queue` record; `ProducerEnqueue` and `FlagDequeue` apply `CarQueue`'s `enqueue`/`dequeue`, including the `size` recomputation.
- **TrafficSim counters.** `prod[s]`, `con[s]` are `*n_prod`/`*n_con` (and the south ones) modulo `M`, a multiple of `BUFF_SIZE`, so `% BUFF_SIZE` is what the code computes. `buf[s]` is the side's buffer. `car` is the consumer's local `car` (uninitialised, so any value at the start).
- **Refinement.** `TrafficSim` maps onto `BoundedQueues`:
  - the queue of side `s` is the slots from `con[s]` to `prod[s]` (`Queued(s)`);
  - the abstract `next` is `prod`;
  - the abstract `last` is `car`.

  A producer's store and `prod` increment is `Arrive`. The consumer's read of `buf[con % BUFF_SIZE]` and `con` increment is `Leave`. Every other step leaves the mapped state unchanged.
- Printing, `time()`, `rand()`/sleep and `is_sleep`/`con_sleep` (which decide only what is printed) are left out. So is the car numbering of prodcons.c: its `total_car` page is abstracted to one car value.

### DrawLine: correspondence with the code

- `ends` holds the arguments `x1, y1, x2, y2`. `x`, `y` and `err` are the locals the loop advances.
- `dx`, `dy`, `sx` and `sy` are the constants `draw_line` computes once (`Direction` is `x1<x2 ? 1 : -1`).
- `Iterate` is one turn of `for(;;)`: the `draw_pixel` call, the end test and the two steps (`StepX`, `StepY`).
- `draw_pixel` is the set of cells the call stores into, computed by its early returns and by `y*(bitDepth/2) + x`.
- `drawn` is a history of the points passed to `draw_pixel`; `stored` is the set of cells written.
- In `Driver`, `LoopState(e)` is the same loop as a recursive function from the iteration count to `(x, y, err)`, and `DrawLineCells(e)` the cells its `draw_pixel` calls store into. `RGB` is the macro, with the `color_t` cast applied to `r << 11` only and the result truncated to 16 bits at the call; `|` is the community module `Bitwise`'s.

## Runs

| Run | Bounds | Checks | Result |
|---|---|---|---|
| `fs_roomy` (`MCFuseFs_roomy.cfg`) | 6 blocks of 2 bytes; 1 directory with 1 file; files up to 4 bytes; writes of up to 2 bytes of 2 values | `TypeOK`, `ChainHoldsWrittenBytes`, `ReadReturnsWritten` | pass, 835 states |
| `fs_full` (`MCFuseFs_full.cfg`) | 5 blocks, so the disk fills after 2-3 allocations; 2 directories of 2 files; 3 names, one too long; crashes on | `DiskLayoutDisjoint`, `ListingMatchesLookup` | pass, 11483 states. Also `ListingMatchesLookup`: `readdir` lists a name exactly when `getattr` finds it, and `getattr` gives every file's `fsize`. The constraint `RootIntact` keeps the search out of the states after the root is overwritten, which `fs_root_clobbered` reports. |
| `fs_root_clobbered` (`MCFuseFs_clobber.cfg`) | as `fs_full`, 2 extensions, no crashes | `RootIntact` | violation (finding 1) |
| `fs_unmount_reverts` (`MCFuseFs_unmount.cfg`) | 5 blocks; 1 directory of 2 files | `UnmountLosesNoData` (action property) | violation (finding 2) |
| `fs_write_truncates` (`MCFuseFs_refine.cfg`) | small disk | `RefinesAbstract` (`FsAbstract` under a refinement mapping) | violation (finding 3) |
| `fs_threads_lost_create` (`MCFuseThreads.cfg`) | 2 threads; 2 directory and 2 file names; 6 blocks; 3 root slots, 2 file slots | `CreatesPersist` | violation (finding 6) |
| `cq_fifo` (`MCCarQueue.cfg`) | 4 slots, 2 car values | `TypeOK`, `IsFifo` | pass, 349 states |
| `pc_safety` (`MCProdCons.cfg`) | N = 2, Limit = 2, 3 slots | `MutualExclusion`, `BufferAccounting`, `CarsLeaveUnlessBothAtLimit` (liveness) | pass, 17875 states |
| `pc_flag_waits` (`MCProdCons_wait.cfg`) | as `pc_safety` | `FlagWaitsOnlyForQueuedCar` | violation (finding 4) |
| `pc_livelock` (`MCProdCons_live.cfg`) | as `pc_safety` | `CarsLeave` | violation (finding 5) |
| `ts_safety` (`MCTrafficSim.cfg`) | BUFF_SIZE 2, Limit 2, counters mod 4 | `FlagNeverWaitsOnFull` (the consumer's unlocked reads of the full semaphores never lead it into a blocking `down`), `MutualExclusion`, `BufferAccounting`, `QueuesRefined` (`BoundedQueues` under the refinement mapping), `CarsServedUnlessBothFull` (liveness) | pass, 32406 states |
| `line_safety` (`MCDrawLine.cfg`) | screen 3 x 2; endpoints in -1..3; at most 8 iterations; the driver's three lines on the same screen (a diagonal, a steep and a shallow line, as in `driver.c`, each leaving a pixel of the one before unlit), the framebuffer starting with any of 2 pixel values per cell | `TypeOK`, `LineIsBresenham`, `LineTerminates` (liveness), `DriverScreenShowsLine` (the screen read back through `draw_pixel`'s store address is the last line and nothing else) | pass, 202616 states |

Every property of a passing run has a mutant (one is `DrawPixelByteStride`, a row stride of `bitDepth` bytes instead of `bitDepth/2` pixels, which only `DriverScreenShowsLine` catches) in `PROJECT.json`: a plausible slip in one mapped definition that TLC catches. One example is `AdvanceLinkFirst`, which saves the new link before the cursor. It breaks `DiskLayoutDisjoint` in `fs_full` only through a crash: the block is linked, then handed out again.

**Filesystem bounds.** A file of up to 4 bytes with 2-byte blocks fills 2 blocks. Offsets 0..4 with writes of 1 or 2 bytes therefore reach these cases:

- both exact block boundaries (offsets 2 and 4), where the code's `>` matters;
- a write that grows the chain;
- a write inside the file;
- a write at end of file;
- a write whose size update is flushed by the skip loop, and one whose update is not.

Chains of several files interleaving on a disk that runs out are covered by `fs_full`. Its one extension is enough, because extensions are compared only for equality, and `fs_root_clobbered` keeps two. `MaxLeaked = 1`: one leaked table is enough to reach the exit flush and its lost update. `SizeT` is 2^16, not 2^64. The only wrap that matters is the subtraction in `file_size_increase`, and it behaves the same for any width larger than the file sizes.

**Process bounds.** `N`, `Limit` and `MAX_QUEUE_SIZE` (10, 10 and 30 in the code) become 2, 2 and 3. The properties depend only on their order: `Limit` = `N` keeps the case of both sides full, and `QCap > N` keeps the spare slots the code has, which the semaphores never let an enqueue reach. In TrafficSim, counters modulo 4 with `BUFF_SIZE` 2 wrap the buffer twice per counter cycle.

**Line bounds.** Endpoints from -1 to 3 on a 3 x 2 screen give these cases:

- every octant;
- horizontal, vertical, diagonal and single-point lines;
- lines that start or end off each edge of the screen.

`MaxPixels = 8` exceeds the longest line of the window (5 points), so the bound never cuts a line short.

### Findings

1. **An out-of-space write leads to the root block being overwritten (lines 553, 574, 558).** The write's larger size reaches `.disk`, either at once (through an `fseek`) or at unmount (through the exit flush), although the chain was not extended. A later write then walks the too-short chain through `nNextBlock = 0` into block 0.
2. **Unmounting undoes saved updates (lines 574, 701).** The FILE that the failed write leaves open holds a copy of the directory table taken before later handlers changed it. `exit()` writes that copy back. In TLC's trace, a later write to another file of the directory has saved its size 1, and the flush restores size 0.
3. **A write inside a file truncates it (line 546).** The `size_t` subtraction wraps, and the new size becomes `offset + size`. The implementation therefore does not refine `FsAbstract`.
4. **An emptied `car_queue` reports `size` 1 (prodcons.c line 87).** `dequeue` sets `front = rear = -1` and then computes `rear - front + 1`. The flagperson tests `size > 0` and then blocks in `down(full)` with no car queued; it is woken only by the next arrival on that side.
5. **prodcons livelocks when both queues are full (line 203).** Both loop conditions need the other side below 10, so the flagperson spins and never dequeues, while both producers wait in `down(empty)`. trafficsim's flagperson loop (line 182) has the same shape; a run of it would repeat this one.
6. **Concurrent creates share a block (lines 701, 201-214).** `main` hands `argv` to `fuse_main` unchanged, so FUSE runs requests on several threads, and no handler takes a lock. The kernel's parent-directory lock orders creates in one directory, but a `mkdir` in `/` and a `mknod` in a directory run together. In TLC's trace both `next_free_block`s `fread` the cursor before either `fwrite` reaches `.disk`, so `d1`'s directory table and `f1`'s first data block are the same block 2; a later write to `f1` saves data over `d1`'s table. spec.md 5 asks for a lock or documentation; there is neither.

Further defects were noticed while modelling but are not runs (the run list is kept to one run per question):

- `draw_pixel`'s bounds test is `x > bitDepth/2` and `y > yLength` (library.c line 107), one too lax each way: `x == bitDepth/2` stores into the next row, and `y == yLength` past the end of the mapping. `DrawLine` models the test as written.
- `readdir` adds `.` and `..` only for the root, and lists a directory's files by `fname` alone, so two files that differ only in extension list as one name twice (line 290).

- `csc452_read` clamps its size to `fsize` rather than `fsize - offset` (line 467), and spec.md 4.5 describes the same clamp. `ReadReturnsWritten` constrains only the bytes below `fsize`, so it does not catch the copy past end of file.
- prodcons.c's `*total_car++` (lines 149, 171-172) advances the south producer's copy of the pointer, so every car is numbered 1; after about 1024 south cars the pointer leaves the mmap'd page and the store at line 172 faults.

## Fairness

The filesystem runs only check safety: FUSE issues handlers only when a client asks, so the code guarantees no fairness. `MCFuseThreads.cfg` sets `CHECK_DEADLOCK FALSE`: every thread ends when its request returns.

`Driver` has no fairness, since keys come only when the user presses them; its run sets `CHECK_DEADLOCK FALSE` along with `DrawLine`'s, since `main` returns.

ProdCons and TrafficSim assume strong fairness of each process (`SF_vars(Step(p))`). Each is a separate forked process, and the scheduler runs every runnable process. A process waiting in `down` sleeps on the kernel wait queue, and `up` hands the unit to a waiter. So a process whose step is enabled infinitely often eventually runs, even if other processes take the unit in between. Weak fairness would not do: a waiter's `down` is disabled every time another process holds the unit.

`ProdCons`'s `CarsLeaveUnlessBothAtLimit` uses it: a car waiting on a side eventually leaves unless both queue sizes reach `Limit`, the livelock of finding 5. So the emptied-queue size of finding 4 only delays the flagperson until the next arrival on that side, which the fair producer supplies; it starves no car. `TrafficSim`'s `CarsServedUnlessBothFull` uses the same strong fairness: a side with waiting cars is eventually served unless both sides are full, which is the one state where the code's loop conditions serve neither.

`DrawLine` assumes weak fairness of `Iterate`: `draw_line` runs in the calling thread from call to return, and nothing else can disable its loop. Its runs set `CHECK_DEADLOCK FALSE`, because `draw_line` returns. The passing process runs do check deadlock: none of those programs ever stops on purpose.

## Plan

1. **FuseFs.** Done: the handlers, the stdio buffering of `write`, the exit flush and crashes.
2. **`CarQueue`, `ProdCons`.** Done.
3. **`TrafficSim`.** Done, with the refinement to `BoundedQueues`.
4. **`DrawLine`.** Done.
5. **Concurrent FUSE dispatch.** Done for `mkdir` and `mknod` (`FuseThreads`). Concurrent `write` and `read` remain: their walk of a chain, split at every `fread`/`fwrite`, is beyond what TLC explores with two threads and the data blocks.
6. **`driver.c`.** Done, composed with `DrawLine`.

## Not modelled

- **Concurrent `write` and `read`.** See the plan; `FuseThreads` covers the creates.
- **The real byte layout, and string parsing beyond what `sscanf` yields.** Names are model values.
- **`fopen` returning NULL when descriptors run out.** This needs about a thousand leaked streams.
- **`osmsg`.** Its argument handling and syscall wrappers are I/O, and the message store is in the kernel.
- **The device plumbing of the graphics library.** The `open`/`ioctl`/`mmap` calls of `init_graphics`, the terminal modes, `munmap` and `close`, `getkey`'s `select`/`read` (a key is a nondeterministic choice) and `sleep_ms`. Keys other than `n` and `q` change no state.
