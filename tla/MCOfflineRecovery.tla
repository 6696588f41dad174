-------------------------- MODULE MCOfflineRecovery --------------------------
(* Small instances of OfflineRecovery for TLC.                             *)
EXTENDS OfflineRecovery, TLC

MCSymmetry == Permutations(Hashes) \cup Permutations(Clients)
=============================================================================
