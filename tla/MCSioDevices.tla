---------------------------- MODULE MCSioDevices ----------------------------
(***************************************************************************)
(* Two drives, one plain image and one folder image: enough for a mount,   *)
(* an eject, a swap, a folder link and an editor on different drives.      *)
(***************************************************************************)
EXTENDS SioDevices
CONSTANTS d1, d2, atr, folder
MCSlots == {d1, d2}
MCImages == {atr, folder}
MCFolders == {folder}
=============================================================================
