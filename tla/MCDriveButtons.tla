--------------------------- MODULE MCDriveButtons ---------------------------
(***************************************************************************)
(* Two drives, a disk image and a folder.  No drive is treated differently *)
(* from another, and the properties are invariants: the drives are         *)
(* symmetric.                                                              *)
(***************************************************************************)
EXTENDS DriveButtons, TLC
CONSTANTS d1, d2
MCSlots == {d1, d2}
Symmetry == Permutations(MCSlots)
=============================================================================
