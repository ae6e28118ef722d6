---------------------------- MODULE MCDayEditor ----------------------------
(* DayEditor on small instances.                                           *)
EXTENDS DayEditor

=============================================================================
