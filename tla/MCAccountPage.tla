------------------------------ MODULE MCAccountPage ------------------------------
(***************************************************************************)
(* Instance of AccountPage for TLC: one passkey that can derive a key and  *)
(* one that cannot.                                                        *)
(***************************************************************************)
EXTENDS AccountPage

CONSTANTS laptop, fob

MCCreds == {laptop, fob}
MCCapable == {laptop}
=============================================================================
