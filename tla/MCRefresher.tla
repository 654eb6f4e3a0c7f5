---------------------------- MODULE MCRefresher ----------------------------
(***************************************************************************)
(* Model checking of Refresher on small instances.  A day has four units:  *)
(* the window is the second and third of them, and the second is the first *)
(* of the quota day, as in the defaults (12:00 to 14:00).                  *)
(***************************************************************************)
EXTENDS Refresher

CONSTANTS k1, k2

MCOffset == [k \in Key |-> IF k = k2 THEN 1 ELSE 0]
=============================================================================
