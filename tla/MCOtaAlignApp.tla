--------------------------- MODULE MCOtaAlignApp ---------------------------
(* Instance for TLC: two OTA files beside the state file.                  *)
EXTENDS OtaAlignAppInv, TLC
CONSTANTS f1, f2
MCFiles == {f1, f2}
Symmetry == Permutations(MCFiles)
=============================================================================
