------------------------------ MODULE MCCtap ------------------------------
(* Two credentials of this device and lists of up to three descriptors: a  *)
(* match may come first, last, twice or between others.                    *)
EXTENDS Ctap
============================================================================
