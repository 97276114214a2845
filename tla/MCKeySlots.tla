----------------------------- MODULE MCKeySlots -----------------------------
(* Three slots: p256_make needs two, and with one or two left behind by    *)
(* calls before it the store is too small for it.                          *)
EXTENDS KeySlots
=============================================================================
