---------------------------- MODULE MCQuotaLease ----------------------------
(***************************************************************************)
(* Model checking of QuotaLease on small instances.                        *)
(***************************************************************************)
EXTENDS QuotaLease, TLC

\* Attempts are interchangeable; sound for the safety runs only.
Symmetry == Permutations(Lease)
=============================================================================
