----------------------------- MODULE MCDiskImage -----------------------------
(***************************************************************************)
(* The files a user may open: single density, double density without      *)
(* padding and with a wrong header, padded after each boot sector, padded  *)
(* after the boot area, and an XFD file.  The user creates, and the Atari  *)
(* asks for, a disk that is none of the standard ones.                     *)
(***************************************************************************)
EXTENDS DiskImage
MCPercoms == {DD, [bps |-> 1, n |-> 5]}
MCNewDisks == {[bps |-> 1, n |-> 5]}
Atr(size, bps, blocks) == [head |-> [size |-> size, bps |-> bps], blocks |-> blocks]
MCHostFiles ==
  { Atr(4, 1, <<1, 0, 0, 1>>),
    Atr(4, 2, <<1, 0, 1, 0, 0>>),
    Atr(8, 2, <<1, 0, 0, 0, 1, 0, 1, 1>>),
    Atr(8, 2, <<1, 0, 1, 0, 0, 0, 1, 1>>),
    [head |-> NoHeader, blocks |-> <<1, 1, 0, 0, 1, 0, 1, 1>>] }
=============================================================================
