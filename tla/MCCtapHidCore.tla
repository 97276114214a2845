--------------------------- MODULE MCCtapHidCore ---------------------------
(* A small instance of CtapHidCore for TLC. *)
EXTENDS CtapHidCore, TLC

\* CIDs are only compared, so they may be permuted.
CidSymmetry == Permutations(Cid)

\* No step reads action or fed, so states that differ only in them are one.
CoreView == <<core, now, silence>>
=============================================================================
