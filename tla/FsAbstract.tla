------------------------------ MODULE FsAbstract ------------------------------
(***************************************************************************)
(* What the two-level filesystem promises its FUSE caller (spec.md 4.5):   *)
(* a set of directories under the root, in each a set of files named by   *)
(* (name, extension), each file a sequence of bytes.  mkdir and mknod add  *)
(* an empty directory or file; write(buf, offset) with offset at most the  *)
(* file's length overwrites the bytes at offset and extends the file when  *)
(* the write runs past its end.  A failing call changes nothing (a         *)
(* stuttering step).                                                       *)
(***************************************************************************)
EXTENDS Integers, Sequences, SequencesExt

CONSTANTS Names, Exts, Bytes,
          MaxIO    \* bound: largest size of one write

VARIABLES dirs,   \* the directory names
          files   \* <<dir, name, ext>> -> the file's bytes

avars == <<dirs, files>>

FileIds == Names \X Names \X Exts

\* The bytes of s after buf is written at offset off.
Overwrite(s, off, buf) ==
  LET len == IF off + Len(buf) > Len(s) THEN off + Len(buf) ELSE Len(s)
  IN [k \in 1 .. len |-> IF off < k /\ k <= off + Len(buf)
                         THEN buf[k - off] ELSE s[k]]

AInit ==
  /\ dirs = {}
  /\ files = [f \in {} |-> <<>>]

MakeDirectory(d) ==
  /\ d \notin dirs
  /\ dirs' = dirs \cup {d}
  /\ UNCHANGED files

MakeFile(f) ==
  /\ f[1] \in dirs
  /\ f \notin DOMAIN files
  /\ files' = [g \in DOMAIN files \cup {f} |->
                 IF g = f THEN <<>> ELSE files[g]]
  /\ UNCHANGED dirs

WriteFile(f, off, buf) ==
  /\ f \in DOMAIN files
  /\ off <= Len(files[f])
  /\ files' = [files EXCEPT ![f] = Overwrite(@, off, buf)]
  /\ UNCHANGED dirs

ANext ==
  \/ \E d \in Names : MakeDirectory(d)
  \/ \E f \in FileIds : MakeFile(f)
  \/ \E f \in DOMAIN files : \E off \in 0 .. Len(files[f]),
                                buf \in SeqOf(Bytes, MaxIO) :
       WriteFile(f, off, buf)

ASpec == AInit /\ [][ANext]_avars

===============================================================================
