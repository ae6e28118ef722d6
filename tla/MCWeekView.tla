----------------------------- MODULE MCWeekView -----------------------------
(* WeekView on small instances.                                            *)
EXTENDS WeekView, Sequences

\* No rows; a row that never opens before one that does; an emptied day; a row
\* that does not parse.
Weeks == {<<"none", "none">>, <<"damaged", "work">>, <<"work", "idle">>, <<"garbled", "work">>}

=============================================================================
