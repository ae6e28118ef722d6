----------------------------- MODULE MCImportBanner -----------------------------
(***************************************************************************)
(* Instance of ImportBanner for TLC: two accounts, two days.               *)
(***************************************************************************)
EXTENDS ImportBanner, TLC

CONSTANTS alice, bob

MCUsers == {alice, bob}
MCSymmetry == Permutations(MCUsers)
=============================================================================
