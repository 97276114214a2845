------------------------------ MODULE MCCred ------------------------------
(* Two roots, so that a second one could replace the first; two relying    *)
(* parties and two scalars, so that a credential may be asked for under    *)
(* the wrong name and two may differ in what they hold.                    *)
EXTENDS Cred
============================================================================
