------------------------------ MODULE MCKeyWraps ------------------------------
(* KeyWraps on small instances.                                            *)
EXTENDS KeyWraps, TLC

Symmetry == Permutations(Tabs)

=============================================================================
