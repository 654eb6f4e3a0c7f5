---------------------------- MODULE QuotaLedger -----------------------------
(***************************************************************************)
(* What the quota authority promises a caller, whatever happens to its     *)
(* leases: per quota, how much has been consumed, how much is still held   *)
(* for requests under way, and by how much the two may exceed the hard     *)
(* watermark.  There are no leases, days, clocks or messages here; the     *)
(* detailed module QuotaLease implements this one.                         *)
(***************************************************************************)
EXTENDS Integers

CONSTANTS
  Quota,      \* the quotas of all buckets and days
  Hard        \* their hard watermark

VARIABLES
  used,       \* consumption booked since the last confirmed refresh
  held,       \* reserved for the outstanding requests
  slack       \* how far used + held may exceed Hard

vars == <<used, held, slack>>

Init ==
  /\ used = [q \in Quota |-> 0]
  /\ held = [q \in Quota |-> 0]
  /\ slack = [q \in Quota |-> 0]

\* A reservation is granted only within the watermark.
Grant(q) ==
  /\ held'[q] > held[q]
  /\ used[q] + held'[q] <= Hard + slack[q]
  /\ held' = [held EXCEPT ![q] = held'[q]]
  /\ UNCHANGED <<used, slack>>

\* A request ends and gives back what it held.  Its consumption is booked in
\* full; only what it consumed beyond its reservation adds to the slack.
Settle(q) ==
  LET consumed == used'[q] - used[q]
      returned == held[q] - held'[q]
  IN /\ consumed >= 0 /\ returned >= 0 /\ held'[q] >= 0
     /\ used' = [used EXCEPT ![q] = used'[q]]
     /\ held' = [held EXCEPT ![q] = held'[q]]
     /\ slack' = [slack EXCEPT ![q] =
                    @ + IF consumed > returned THEN consumed - returned ELSE 0]

\* Requests end without consumption, or are given up.
Drop ==
  /\ held' \in [Quota -> Nat]
  /\ \A q \in Quota : held'[q] <= held[q]
  /\ UNCHANGED <<used, slack>>

\* Repairs and resets may forget what is held, but no more than that.
MayForget(q) == slack'[q] >= slack[q] /\ slack'[q] <= slack[q] + held[q]

Repair ==
  /\ slack' \in [Quota -> Nat]
  /\ \A q \in Quota : MayForget(q)
  /\ UNCHANGED <<used, held>>

\* A confirmed refresh of the upstream is the one thing that lowers used.
Refresh(q) ==
  /\ used' = [used EXCEPT ![q] = 0]
  /\ slack' \in [Quota -> Nat]
  /\ \A r \in Quota : MayForget(r)
  /\ UNCHANGED held

Next ==
  \/ \E q \in Quota : Grant(q) \/ Settle(q) \/ Refresh(q)
  \/ Drop
  \/ Repair

Spec == Init /\ [][Next]_vars
=============================================================================
