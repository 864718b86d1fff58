------------------------------ MODULE MCFuseFs ------------------------------
(***************************************************************************)
(* Instances of FuseFs for TLC.  Sizes are scaled down: a block holds      *)
(* DataInBlock data bytes instead of 504, a directory MaxFilesInDir        *)
(* entries instead of 17, the root MaxDirsInRoot slots instead of 29.      *)
(***************************************************************************)
EXTENDS FuseFs, TLC

\* size_t arithmetic wraps at 2^64; every value the model computes is far
\* below 2^16, so wrapping at 2^16 gives the same results.
MCSizeT == 65536

\* The handlers compare names and bytes only for equality, so permuting
\* them maps behaviours to behaviours as long as the too-long names stay put.
MCSymmetry == Permutations(Names \ TooLong) \cup Permutations(Bytes)

=============================================================================
