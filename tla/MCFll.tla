------------------------------- MODULE MCFll -------------------------------
(* Small instances of Fll for TLC; the bounds are in the configurations.   *)
EXTENDS FllInvariant
============================================================================
