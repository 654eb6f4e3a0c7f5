--------------------------- MODULE MCRequestLife ---------------------------
(***************************************************************************)
(* Model checking of RequestLife on a small instance.                      *)
(***************************************************************************)
EXTENDS RequestLife, TLC

\* Requests differ only in their order; sound for the safety run.
Symmetry == Permutations(Request)
=============================================================================
