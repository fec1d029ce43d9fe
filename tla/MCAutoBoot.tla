----------------------------- MODULE MCAutoBoot -----------------------------
(***************************************************************************)
(* Two drives, two images, two loaders: a boot inside the dialog of        *)
(* another.                                                                *)
(***************************************************************************)
EXTENDS AutoBoot
CONSTANTS d2, x, y, loader1, loader2
MCSlots == {D1, d2}
MCImages == {x, y}
MCLoaders == {loader1, loader2}
=============================================================================
