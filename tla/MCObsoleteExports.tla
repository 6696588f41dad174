-------------------------- MODULE MCObsoleteExports --------------------------
(* Small instances of ObsoleteExports for TLC.                             *)
EXTENDS ObsoleteExports, TLC

MCSymmetry == Permutations(Codes)
=============================================================================
