---------------------------- MODULE MCPanSession -----------------------------
(* Small instances of PanSession for TLC.                                  *)
EXTENDS PanSession, TLC

MCSymmetry == Permutations(Accounts)
=============================================================================
