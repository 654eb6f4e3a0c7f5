-------------------------- MODULE MCEgressBinding --------------------------
(***************************************************************************)
(* Model checking of EgressBinding on small instances.                     *)
(***************************************************************************)
EXTENDS EgressBinding, TLC

CONSTANTS a1, a2

\* a1 serves hot keys and has room for two, a2 serves every tier and has
\* room for one.
MCTierOf == [a \in Addr |-> IF a = a1 THEN CHOOSE t \in Tier : TRUE ELSE AnyTier]
MCMaxKeys == [a \in Addr |-> IF a = a1 THEN 2 ELSE 1]

\* Every hash at once.
AnyHash(k, C) == C

\* Keys and workers are interchangeable; for the safety runs only.
Symmetry == Permutations(Key) \cup Permutations(Worker)
=============================================================================
