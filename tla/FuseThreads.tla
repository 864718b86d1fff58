----------------------------- MODULE FuseThreads -----------------------------
(***************************************************************************)
(* csc452_mkdir and csc452_mknod of csc452fuse.c run by FUSE's default     *)
(* multi-threaded loop: main hands argv to fuse_main unchanged, and        *)
(* without -s every request gets a worker thread.  No handler takes a      *)
(* lock.  Each step of a thread here is one fopen..fclose of .disk, the    *)
(* unit in which a handler reads or writes it:                             *)
(*   lookup      dir_exists / file_exist            (fails with -EEXIST)   *)
(*   get         get_root / get_dir into a local    (fails with -ENOSPC)   *)
(*   allocread   next_free_block's fread of the cursor  (fails, -EDQUOT)   *)
(*   allocwrite  its fwrite of cursor+1, on .disk at the fclose            *)
(*   save        the fwrite of the local table with the new entry          *)
(* The path checks before the lookup read no disk and are left out: every  *)
(* request is a valid path.  A new file goes into the directory Home,      *)
(* which exists from the start; file_exist's several opens are one step,   *)
(* since only Home's table and root entry are read and neither moves.      *)
(* Data blocks play no part in these handlers and are left out.            *)
(*                                                                         *)
(* The kernel holds the parent directory's inode lock across a FUSE mkdir  *)
(* or mknod (vfs_mkdir, vfs_mknod), so two creates in one parent never     *)
(* overlap: a thread starts its request only while no other request of     *)
(* the same parent is in flight.  A mkdir (parent /) and a mknod (parent   *)
(* Home) do overlap.                                                       *)
(***************************************************************************)
EXTENDS Integers, Sequences

CONSTANTS
  Threads,        \* FUSE worker threads, one request each
  Dirs,           \* names of directories a request may create
  Files,          \* names of files a request may create in Home
  Home,           \* the directory that exists at the start
  NBlocks,        \* blocks of .disk: root at 0, cursor at NBlocks-1
  MaxDirsInRoot,  \* MAX_DIRS_IN_ROOT
  MaxFilesInDir   \* MAX_FILES_IN_DIR

ASSUME Home \notin Dirs /\ NBlocks >= 3
       /\ MaxDirsInRoot \in Nat \ {0} /\ MaxFilesInDir \in Nat \ {0}

Requests == [op : {"mkdir"}, dir : Dirs] \cup [op : {"mknod"}, name : Files]

\* errno.h values the handlers return negated.
EEXIST == 17
ENOSPC == 28
EDQUOT == 122

CursorAddr == NBlocks - 1
HomeAddr == 1

VARIABLES
  root,     \* the root table on .disk: <<[dname, nStartBlock]>>
  dirblk,   \* dirblk[a]: the file table on .disk at block a
  cursor,   \* the allocator cursor on .disk
  req,      \* req[t]: the request thread t serves
  pc,       \* pc[t]: the step thread t takes next, or "done"
  lroot,    \* lroot[t]: thread t's copy of the root (get_root)
  ltbl,     \* ltbl[t]: thread t's copy of Home's table (get_dir)
  tmp,      \* tmp[t]: the cursor value next_free_block read
  ret       \* ret[t]: what the handler returned

vars == <<root, dirblk, cursor, req, pc, lroot, ltbl, tmp, ret>>

\* .disk after mkdir Home: Home's block 1 is allocated and its table empty.
Init ==
  /\ root = <<[dname |-> Home, nStartBlock |-> HomeAddr]>>
  /\ dirblk = [a \in 0 .. NBlocks - 1 |-> <<>>]
  /\ cursor = HomeAddr
  /\ req \in [Threads -> Requests]
  /\ pc = [t \in Threads |-> "lookup"]
  /\ lroot = [t \in Threads |-> <<>>]
  /\ ltbl = [t \in Threads |-> <<>>]
  /\ tmp = [t \in Threads |-> 0]
  /\ ret = [t \in Threads |-> 0]

\* The directory whose inode the kernel locks for request r.
Parent(r) == IF r.op = "mkdir" THEN "/" ELSE Home

\* Another thread's request of the same parent is in flight.
ParentLocked(t) ==
  \E u \in Threads \ {t} :
    Parent(req[u]) = Parent(req[t]) /\ pc[u] \notin {"lookup", "done"}

Return(t, r) ==
  /\ pc' = [pc EXCEPT ![t] = "done"]
  /\ ret' = [ret EXCEPT ![t] = r]

Goto(t, l) == pc' = [pc EXCEPT ![t] = l] /\ UNCHANGED ret

\* csc452_mkdir: dir_exists reads the root; an existing name is -EEXIST.
MkdirLookup(t) ==
  /\ pc[t] = "lookup" /\ req[t].op = "mkdir" /\ ~ParentLocked(t)
  /\ IF \E i \in 1 .. Len(root) : root[i].dname = req[t].dir
     THEN Return(t, -EEXIST) ELSE Goto(t, "get")
  /\ UNCHANGED <<root, dirblk, cursor, req, lroot, ltbl, tmp>>

\* get_root(&root) into the local; a full root table is -ENOSPC.
MkdirGetRoot(t) ==
  /\ pc[t] = "get" /\ req[t].op = "mkdir"
  /\ lroot' = [lroot EXCEPT ![t] = root]
  /\ IF Len(root) >= MaxDirsInRoot THEN Return(t, -ENOSPC) ELSE Goto(t, "allocread")
  /\ UNCHANGED <<root, dirblk, cursor, req, ltbl, tmp>>

\* csc452_mknod: file_exist reads the root and Home's table.
MknodLookup(t) ==
  /\ pc[t] = "lookup" /\ req[t].op = "mknod" /\ ~ParentLocked(t)
  /\ IF \E j \in 1 .. Len(dirblk[HomeAddr]) : dirblk[HomeAddr][j].fname = req[t].name
     THEN Return(t, -EEXIST) ELSE Goto(t, "get")
  /\ UNCHANGED <<root, dirblk, cursor, req, lroot, ltbl, tmp>>

\* get_dir(&entry) and get_root(&root) into the locals; a full table is
\* -ENOSPC.
MknodGetDir(t) ==
  /\ pc[t] = "get" /\ req[t].op = "mknod"
  /\ ltbl' = [ltbl EXCEPT ![t] = dirblk[HomeAddr]]
  /\ lroot' = [lroot EXCEPT ![t] = root]
  /\ IF Len(dirblk[HomeAddr]) >= MaxFilesInDir THEN Return(t, -ENOSPC)
     ELSE Goto(t, "allocread")
  /\ UNCHANGED <<root, dirblk, cursor, req, tmp>>

\* next_free_block: fread of the cursor; no block before the cursor
\* block left means fclose and -1, which the handler returns as -EDQUOT.
AllocRead(t) ==
  /\ pc[t] = "allocread"
  /\ tmp' = [tmp EXCEPT ![t] = cursor]
  /\ IF cursor + 1 >= CursorAddr THEN Return(t, -EDQUOT) ELSE Goto(t, "allocwrite")
  /\ UNCHANGED <<root, dirblk, cursor, req, lroot, ltbl>>

\* next_free_block: fwrite of next_free = tmp + 1, on .disk at fclose.
AllocWrite(t) ==
  /\ pc[t] = "allocwrite"
  /\ cursor' = tmp[t] + 1
  /\ Goto(t, "save")
  /\ UNCHANGED <<root, dirblk, req, lroot, ltbl, tmp>>

\* csc452_mkdir: append the new slot to the local root and write it back.
MkdirSave(t) ==
  /\ pc[t] = "save" /\ req[t].op = "mkdir"
  /\ root' = Append(lroot[t], [dname |-> req[t].dir, nStartBlock |-> tmp[t] + 1])
  /\ Return(t, 0)
  /\ UNCHANGED <<dirblk, cursor, req, lroot, ltbl, tmp>>

\* csc452_mknod: append the new entry to the local table and write it at
\* the directory's block as the local root gives it.
MknodSave(t) ==
  /\ pc[t] = "save" /\ req[t].op = "mknod"
  /\ dirblk' = [dirblk EXCEPT ![lroot[t][1].nStartBlock] =
                  Append(ltbl[t], [fname |-> req[t].name, fsize |-> 0,
                                   nStartBlock |-> tmp[t] + 1])]
  /\ Return(t, 0)
  /\ UNCHANGED <<root, cursor, req, lroot, ltbl, tmp>>

Next ==
  \E t \in Threads :
    \/ MkdirLookup(t) \/ MkdirGetRoot(t) \/ MkdirSave(t)
    \/ MknodLookup(t) \/ MknodGetDir(t) \/ MknodSave(t)
    \/ AllocRead(t) \/ AllocWrite(t)

Spec == Init /\ [][Next]_vars

-----------------------------------------------------------------------------
\* The block a finished create was given, and whether .disk records it.
Got(t) == tmp[t] + 1
OnDisk(t) ==
  IF req[t].op = "mkdir"
  THEN \E i \in 1 .. Len(root) :
         root[i] = [dname |-> req[t].dir, nStartBlock |-> Got(t)]
  ELSE \E j \in 1 .. Len(dirblk[HomeAddr]) :
         dirblk[HomeAddr][j] = [fname |-> req[t].name, fsize |-> 0,
                                nStartBlock |-> Got(t)]
Created == {t \in Threads : pc[t] = "done" /\ ret[t] = 0}

\* Every mkdir or mknod that returned 0 is on .disk, at a block no other
\* successful create was given: what a caller of csc452_mkdir and
\* csc452_mknod relies on once they return, whatever else runs meanwhile.
CreatesPersist ==
  \A t \in Created :
    /\ OnDisk(t)
    /\ \A u \in Created \ {t} : Got(u) # Got(t)
=============================================================================
