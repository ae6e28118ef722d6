--------------------------- MODULE MCEncryptionCtx ---------------------------
(* EncryptionCtx for TLC: the tabs of a browser are interchangeable.       *)
EXTENDS EncryptionCtx, TLC

PageSymmetry == Permutations(Pages)

=============================================================================
