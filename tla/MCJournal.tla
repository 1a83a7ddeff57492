------------------------------ MODULE MCJournal ------------------------------
(* The journal with the constants of the configurations.  Nothing orders the *)
(* inode numbers, so they are symmetric; no property is a liveness property. *)
EXTENDS Journal, TLC

InodeSymmetry == Permutations(Inodes)
=============================================================================
