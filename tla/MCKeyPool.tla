----------------------------- MODULE MCKeyPool -----------------------------
(***************************************************************************)
(* Model checking of KeyPool on small instances.  The scores are those of  *)
(* health.go, scaled down: one failure of each kind, a run of two 429      *)
(* answers for the cooldown, and a floor that a few failures reach.        *)
(***************************************************************************)
EXTENDS KeyPool, TLC

MCPenalty == [kind \in FailureKind |-> IF kind = "quota" THEN 2 ELSE 1]

\* Every key is missing, active or banned, in the tier with a share.
MCRowAtStart == {r \in RowType : r = NoRow \/ (r.tier \in Shares /\ r.mine)}
=============================================================================
