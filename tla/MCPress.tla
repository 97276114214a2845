------------------------------ MODULE MCPress ------------------------------
(* press_wait with three samples of debounce out of nine: long enough for  *)
(* a release and a press that only just fit, and for a bounce before,      *)
(* between and after them.                                                 *)
EXTENDS Press
============================================================================
