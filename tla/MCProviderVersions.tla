------------------------- MODULE MCProviderVersions -------------------------
(***************************************************************************)
(* Model checking of ProviderVersions on small instances.                  *)
(***************************************************************************)
EXTENDS ProviderVersions, TLC

\* Request slots are interchangeable.
Symmetry == Permutations(Admin)
=============================================================================
