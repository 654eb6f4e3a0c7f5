----------------------------- MODULE QuotaLease -----------------------------
(***************************************************************************)
(* The quota authority of the gateway: internal/quota/{scripts,manager,    *)
(* quotaday}.go, called by the deferred settlement of one request attempt  *)
(* (gateway/proxy.go) and by the background tasks lease_reap, reconcile    *)
(* and refresh_probe (cmd/gateway/background.go).                          *)
(*                                                                         *)
(* Redis runs every Lua script atomically, so one script execution is one  *)
(* step.  What is NOT atomic, and is interleaved here, is everything       *)
(* around the scripts: the arguments are computed in Go (clock, quota day, *)
(* expiry) before the script runs; a call may be executed and its reply    *)
(* lost, after which the client library sends it again (go-redis with the  *)
(* default MaxRetries, see main.go) or the caller gives up; Commit books   *)
(* late usage with a second, separate command; the process may die with    *)
(* leases outstanding; reaping walks two day sets with two scripts.        *)
(*                                                                         *)
(* A quota hash is addressed by (provider, kind, key, day).  Here a Bucket *)
(* stands for (provider, kind, key) and a quota for a bucket and a day.    *)
(* One lease id belongs to one attempt, so Lease also names the attempts.  *)
(* The TTL of the Redis keys (end of the quota day + 24 h) is far beyond   *)
(* every lease and is left out.                                            *)
(***************************************************************************)
EXTENDS Integers, FiniteSets

CONSTANTS
  Bucket,      \* (provider, kind, key) triples
  Lease,       \* lease ids, one per request attempt
  Hard,        \* hard watermark of every bucket
  MaxAmount,   \* bound: largest estimate an attempt pre-deducts
  MaxActual,   \* bound: largest consumption an attempt reports
  TTL,         \* life of a lease, in clock ticks
  DayLen,      \* length of a quota day, in clock ticks
  Batch,       \* ReapBatch: leases reaped per script call
  Horizon,     \* bound: last instant of the clock
  LastStart,   \* bound: last instant at which an attempt starts
  MaxSend,     \* bound: executions of one command (1 + client retries)
  MaxRefresh   \* bound: refresh resets in a behaviour

ASSUME ConstantsAssumption ==
  /\ Bucket # {} /\ IsFiniteSet(Lease)
  /\ Hard \in Nat /\ MaxAmount \in Nat /\ MaxActual \in Nat
  /\ TTL \in Nat /\ DayLen \in Nat \ {0} /\ Batch \in Nat \ {0}
  /\ Horizon \in Nat /\ LastStart \in 0 .. Horizon
  /\ MaxSend \in Nat \ {0} /\ MaxRefresh \in Nat

VARIABLES
  now,         \* wall clock, shared by the instances and Redis callers
  used,        \* used[q]: field "used" of the quota hash
  prededuct,   \* prededuct[q]: field "prededuct" of the quota hash
  live,        \* leases whose data hash and ZSET entry exist in Redis
  req,         \* req[l]: arguments attempt l computed for Acquire
  att,         \* att[l]: where attempt l is
  actual,      \* actual[l]: consumption attempt l commits
  sends,       \* sends[l]: executions so far of the command in flight
  reapAt,      \* instant the running Reap read, or NotReaping
  refreshes,   \* refresh resets so far (bounded by MaxRefresh)
  \* History variables, read by no action:
  booked,      \* booked[l]: how often the consumption of l was added to used
  phantom,     \* phantom[q]: pre-deducted twice for one lease, not yet healed
  uncovered,   \* uncovered[q]: most reservations a reset ever left uncounted
  excess       \* excess[q]: consumption booked beyond what was reserved for it

redis == <<used, prededuct, live>>
history == <<booked, phantom, uncovered, excess>>
vars == <<now, used, prededuct, live, req, att, actual, sends, reapAt,
          refreshes, booked, phantom, uncovered, excess>>

NotReaping == -1

\* Ticks are counted from a noon, so the 12:00 switch is a division.
QuotaDay(t) == t \div DayLen

Day   == {QuotaDay(t) : t \in 0 .. Horizon}
Quota == Bucket \X Day

AttState == {"idle", "acquiring", "granted", "denied", "running",
             "committing", "committed", "orphan", "orphaned",
             "settled", "released", "refused", "abandoned"}

TypeOK ==
  /\ now \in 0 .. Horizon
  /\ used \in [Quota -> Nat]
  /\ prededuct \in [Quota -> Nat]
  /\ live \subseteq Lease
  /\ req \in [Lease -> [q : Quota, amount : 0 .. MaxAmount, expire : Nat]]
  /\ att \in [Lease -> AttState]
  /\ actual \in [Lease -> 0 .. MaxActual]
  /\ sends \in [Lease -> 0 .. MaxSend]
  /\ reapAt \in 0 .. Horizon \cup {NotReaping}
  /\ refreshes \in 0 .. MaxRefresh
  /\ booked \in [Lease -> Nat]
  /\ phantom \in [Quota -> Nat]
  /\ uncovered \in [Quota -> Nat]
  /\ excess \in [Quota -> Nat]

(***************************************************************************)
(* Sums of lease amounts.  The reserved units of a set of leases on a      *)
(* quota are counted one by one, so that the sum is a cardinality.         *)
(***************************************************************************)
Units(S, q) == {u \in S \X (1 .. MaxAmount) :
                   req[u[1]].q = q /\ u[2] <= req[u[1]].amount}

Reserved(S, q) == Cardinality(Units(S, q))

\* x - y, clamped at zero as every script clamps prededuct.
Minus(x, y) == IF x > y THEN x - y ELSE 0

Larger(x, y) == IF x > y THEN x ELSE y

Unexpired(t) == {l \in live : req[l].expire >= t}

NoRequest == [q |-> CHOOSE q \in Quota : TRUE, amount |-> 0, expire |-> 0]

Init ==
  /\ now = 0
  /\ used = [q \in Quota |-> 0]
  /\ prededuct = [q \in Quota |-> 0]
  /\ live = {}
  /\ req = [l \in Lease |-> NoRequest]
  /\ att = [l \in Lease |-> "idle"]
  /\ actual = [l \in Lease |-> 0]
  /\ sends = [l \in Lease |-> 0]
  /\ reapAt = NotReaping
  /\ refreshes = 0
  /\ booked = [l \in Lease |-> 0]
  /\ phantom = [q \in Quota |-> 0]
  /\ uncovered = [q \in Quota |-> 0]
  /\ excess = [q \in Quota |-> 0]

-----------------------------------------------------------------------------
(***************************************************************************)
(* Scripts.                                                                *)
(***************************************************************************)

\* Mutants of EndLeases: the reservation is not given back (the wrong data
\* prefix that scripts.go warns of); the clamp at zero is forgotten.
EndLeasesNoRefund(S) == live' = live \ S /\ UNCHANGED prededuct

EndLeasesUnclamped(S) ==
  /\ live' = live \ S
  /\ prededuct' = [q \in Quota |-> prededuct[q] - Reserved(S, q)]

\* The leases of S leave Redis and their reservations are given back; common
\* to luaCommit, luaRelease and luaReap.
EndLeases(S) ==
  /\ live' = live \ S
  /\ prededuct' = [q \in Quota |-> Minus(prededuct[q], Reserved(S, q))]

\* Mutant of ScriptAcquire: what is pre-deducted already is not counted.
ScriptAcquireIgnoringHeld(l) ==
  LET q == req[l].q
      a == req[l].amount
  IN /\ used[q] + a <= Hard
     /\ att' = [att EXCEPT ![l] = "granted"]
     /\ prededuct' = [prededuct EXCEPT ![q] = @ + a]
     /\ live' = live \cup {l}
     /\ phantom' = [phantom EXCEPT ![q] = IF l \in live THEN @ + a ELSE @]

\* luaAcquire: refuse above the hard watermark, else reserve and register.
\* A second execution for the same lease id reserves again, while the lease
\* data and the ZSET member are only overwritten.
ScriptAcquire(l) ==
  LET q == req[l].q
      a == req[l].amount
  IN \/ /\ used[q] + prededuct[q] + a > Hard
        /\ att' = [att EXCEPT ![l] = "denied"]
        /\ UNCHANGED <<prededuct, live, phantom>>
     \/ /\ used[q] + prededuct[q] + a <= Hard
        /\ att' = [att EXCEPT ![l] = "granted"]
        /\ prededuct' = [prededuct EXCEPT ![q] = @ + a]
        /\ live' = live \cup {l}
        /\ phantom' = [phantom EXCEPT ![q] = IF l \in live THEN @ + a ELSE @]

\* Mutants of ScriptCommit: the Go code takes code 0 for success; the script
\* books the late consumption itself, and the Go code does so again.
ScriptCommitLateIgnored(l) ==
  LET q == req[l].q
  IN /\ att' = [att EXCEPT ![l] = "committed"]
     /\ sends' = [sends EXCEPT ![l] = @ + 1]
     /\ IF l \in live
          THEN /\ used' = [used EXCEPT ![q] = @ + actual[l]]
               /\ EndLeases({l})
               /\ booked' = [booked EXCEPT ![l] = @ + 1]
               /\ excess' = [excess EXCEPT ![q] = @ + Minus(actual[l], req[l].amount)]
          ELSE UNCHANGED <<used, prededuct, live, booked, excess>>

ScriptCommitBooksLate(l) ==
  LET q == req[l].q
  IN /\ att' = [att EXCEPT ![l] = IF l \in live THEN "committed" ELSE "orphan"]
     /\ sends' = [sends EXCEPT ![l] = IF l \in live THEN @ + 1 ELSE 0]
     /\ used' = [used EXCEPT ![q] = @ + actual[l]]
     /\ EndLeases({l} \cap live)
     /\ booked' = [booked EXCEPT ![l] = @ + 1]
     /\ excess' = [excess EXCEPT ![q] = @ + Minus(actual[l], req[l].amount)]

\* luaCommit: book the consumption and end the lease; code 0 if a reaper took
\* the lease, in which case the Go code goes on to book it on its own.
ScriptCommit(l) ==
  LET q == req[l].q
  IN \/ /\ l \in live
        /\ used' = [used EXCEPT ![q] = @ + actual[l]]
        /\ EndLeases({l})
        /\ att' = [att EXCEPT ![l] = "committed"]
        /\ sends' = [sends EXCEPT ![l] = @ + 1]
        /\ booked' = [booked EXCEPT ![l] = @ + 1]
        /\ excess' = [excess EXCEPT ![q] = @ + Minus(actual[l], req[l].amount)]
     \/ /\ l \notin live
        /\ att' = [att EXCEPT ![l] = IF actual[l] > 0 THEN "orphan" ELSE "settled"]
        /\ sends' = [sends EXCEPT ![l] = 0]
        /\ UNCHANGED <<used, prededuct, live, booked, excess>>

-----------------------------------------------------------------------------
(***************************************************************************)
(* One request attempt.                                                    *)
(***************************************************************************)

\* Manager.Acquire up to the script call: amount checked, clock read once for
\* the quota day and the expiry.
BeginAcquire(l, b, a) ==
  /\ att[l] = "idle"
  /\ now <= LastStart
  /\ req' = [req EXCEPT ![l] =
               [q |-> <<b, QuotaDay(now)>>, amount |-> a, expire |-> now + TTL]]
  /\ att' = [att EXCEPT ![l] = "acquiring"]
  /\ UNCHANGED <<now, used, prededuct, live, actual, sends, reapAt, refreshes,
                 history>>

\* The script runs; its reply is on the way.
ExecAcquire(l) ==
  /\ att[l] = "acquiring"
  /\ sends[l] < MaxSend
  /\ sends' = [sends EXCEPT ![l] = @ + 1]
  /\ ScriptAcquire(l)
  /\ UNCHANGED <<now, used, req, actual, reapAt, refreshes, booked, uncovered,
                 excess>>

\* The connection breaks after the script ran: the client library sends the
\* same command, with the same arguments, again.
Resend(l) ==
  /\ sends[l] < MaxSend
  /\ \/ /\ att[l] \in {"granted", "denied"}
        /\ att' = [att EXCEPT ![l] = "acquiring"]
     \/ /\ att[l] = "committed"
        /\ att' = [att EXCEPT ![l] = "committing"]
     \/ /\ att[l] = "orphaned"
        /\ att' = [att EXCEPT ![l] = "orphan"]
  /\ UNCHANGED <<now, redis, req, actual, sends, reapAt, refreshes, history>>

\* The reply of Acquire arrives: the attempt goes on with the lease, or ends
\* with ErrInsufficient.
AcquireReply(l) ==
  /\ \/ /\ att[l] = "granted"
        /\ att' = [att EXCEPT ![l] = "running"]
     \/ /\ att[l] = "denied"
        /\ att' = [att EXCEPT ![l] = "refused"]
  /\ sends' = [sends EXCEPT ![l] = 0]
  /\ UNCHANGED <<now, redis, req, actual, reapAt, refreshes, history>>

\* The upstream answered and consumed x: the deferred settlement of the
\* attempt calls Manager.Commit.
BeginCommit(l, x) ==
  /\ att[l] = "running"
  /\ actual' = [actual EXCEPT ![l] = x]
  /\ att' = [att EXCEPT ![l] = "committing"]
  /\ UNCHANGED <<now, redis, req, sends, reapAt, refreshes, history>>

ExecCommit(l) ==
  /\ att[l] = "committing"
  /\ sends[l] < MaxSend
  /\ ScriptCommit(l)
  /\ UNCHANGED <<now, req, actual, reapAt, refreshes, phantom, uncovered>>

\* Commit found no lease: the consumption is booked by a command of its own,
\* with its own retries.
ExecOrphan(l) ==
  /\ att[l] = "orphan"
  /\ sends[l] < MaxSend
  /\ used' = [used EXCEPT ![req[l].q] = @ + actual[l]]
  /\ excess' = [excess EXCEPT ![req[l].q] = @ + actual[l]]
  /\ booked' = [booked EXCEPT ![l] = @ + 1]
  /\ att' = [att EXCEPT ![l] = "orphaned"]
  /\ sends' = [sends EXCEPT ![l] = @ + 1]
  /\ UNCHANGED <<now, prededuct, live, req, actual, reapAt, refreshes, phantom,
                 uncovered>>

CommitReply(l) ==
  /\ att[l] \in {"committed", "orphaned"}
  /\ att' = [att EXCEPT ![l] = "settled"]
  /\ UNCHANGED <<now, redis, req, actual, sends, reapAt, refreshes, history>>

\* Mutant of Release: the script gives the amount back without looking whether
\* the lease is still there.
ReleaseUnchecked(l) ==
  /\ att[l] = "running"
  /\ EndLeases({l})
  /\ att' = [att EXCEPT ![l] = "released"]
  /\ UNCHANGED <<now, used, req, actual, sends, reapAt, refreshes, history>>

\* The attempt failed: Manager.Release.  The script does nothing when the
\* lease is gone, so its retries need no steps of their own.
Release(l) ==
  /\ att[l] = "running"
  /\ EndLeases({l} \cap live)
  /\ att' = [att EXCEPT ![l] = "released"]
  /\ UNCHANGED <<now, used, req, actual, sends, reapAt, refreshes, history>>

\* The process dies, or the deadline of the call passes, wherever the attempt
\* is; what Redis executed stays.
Abandon(l) ==
  /\ att[l] \in {"acquiring", "granted", "running", "committing", "committed",
                 "orphan", "orphaned"}
  /\ att' = [att EXCEPT ![l] = "abandoned"]
  /\ UNCHANGED <<now, redis, req, actual, sends, reapAt, refreshes, history>>

-----------------------------------------------------------------------------
(***************************************************************************)
(* Background tasks.                                                       *)
(***************************************************************************)

\* Mutants of Expired: the score is taken for the instant of creation; only
\* leases of the day the clock is in are looked at.
ExpiredByCreation(d, t) ==
  {l \in live : req[l].q[2] = d /\ req[l].expire - TTL <= t}

ExpiredTodayOnly(d, t) ==
  {l \in live : req[l].q[2] = d /\ d = QuotaDay(now) /\ req[l].expire <= t}

Expired(d, t) == {l \in live : req[l].q[2] = d /\ req[l].expire <= t}

\* ZRANGEBYSCORE -inf now LIMIT 0 batch: the earliest expiries first.
ReapBatches(d, t) ==
  {S \in SUBSET Expired(d, t) :
     /\ \/ S = Expired(d, t)
        \/ Cardinality(S) = Batch
     /\ Cardinality(S) <= Batch
     /\ \A l \in S, m \in Expired(d, t) \ S : req[l].expire <= req[m].expire}

\* First script of Manager.Reap: the day the clock is in.
ReapToday ==
  /\ reapAt = NotReaping
  /\ \E S \in ReapBatches(QuotaDay(now), now) : EndLeases(S)
  /\ reapAt' = now
  /\ UNCHANGED <<now, used, req, att, actual, sends, refreshes, history>>

\* Second script, with the instant read before the first: the day before.
ReapYesterday ==
  /\ reapAt # NotReaping
  /\ \E S \in ReapBatches(QuotaDay(reapAt) - 1, reapAt) : EndLeases(S)
  /\ reapAt' = NotReaping
  /\ UNCHANGED <<now, used, req, att, actual, sends, refreshes, history>>

\* The second script fails (Redis error, task deadline): the round ends.
ReapError ==
  /\ reapAt # NotReaping
  /\ reapAt' = NotReaping
  /\ UNCHANGED <<now, redis, req, att, actual, sends, refreshes, history>>

\* Mutants of Reconcile: only leaks are found, by looking at the quotas that
\* some unexpired lease names (the design scripts.go rejects); the sum is taken
\* first and written over whatever was acquired since, here one lease more.
ReconcileLeasedOnly ==
  LET leased == {req[l].q : l \in Unexpired(now)}
                   \cap (Bucket \X {QuotaDay(now)})
      expected(q) == Reserved(Unexpired(now), q)
  IN /\ prededuct' = [q \in Quota |->
                        IF q \in leased THEN expected(q) ELSE prededuct[q]]
     /\ phantom' = [q \in Quota |-> IF q \in leased THEN 0 ELSE phantom[q]]
     /\ uncovered' = [q \in Quota |->
          IF q \in leased
            THEN Larger(uncovered[q], Minus(Reserved(live, q), expected(q)))
            ELSE uncovered[q]]
     /\ UNCHANGED <<now, used, live, req, att, actual, sends, reapAt,
                    refreshes, booked, excess>>

ReconcileStaleSum ==
  \E missed \in SUBSET Unexpired(now) :
    /\ prededuct' = [q \in Quota |->
         IF q \in Bucket \X {QuotaDay(now)}
           THEN Reserved(Unexpired(now) \ missed, q) ELSE prededuct[q]]
    /\ uncovered' = [q \in Quota |-> Larger(uncovered[q],
         Minus(Reserved(live, q), Reserved(Unexpired(now), q)))]
    /\ UNCHANGED <<now, used, live, req, att, actual, sends, reapAt,
                   refreshes, booked, phantom, excess>>

\* luaReconcile over every bucket of the provider: today's prededuct becomes
\* the sum of today's unexpired leases.
Reconcile ==
  LET today == Bucket \X {QuotaDay(now)}
      expected(q) == Reserved(Unexpired(now), q)
  IN /\ prededuct' = [q \in Quota |->
                        IF q \in today THEN expected(q) ELSE prededuct[q]]
     /\ phantom' = [q \in Quota |-> IF q \in today THEN 0 ELSE phantom[q]]
     /\ uncovered' = [q \in Quota |->
          IF q \in today
            THEN Larger(uncovered[q], Minus(Reserved(live, q), expected(q)))
            ELSE uncovered[q]]
     /\ UNCHANGED <<now, used, live, req, att, actual, sends, reapAt,
                    refreshes, booked, excess>>

\* luaRefreshReset, called once a probe confirmed that the upstream refilled
\* the bucket: today's counters are zeroed whatever leases are outstanding.
MarkRefreshed(b) ==
  LET q == <<b, QuotaDay(now)>>
  IN /\ refreshes < MaxRefresh
     /\ refreshes' = refreshes + 1
     /\ used' = [used EXCEPT ![q] = 0]
     /\ prededuct' = [prededuct EXCEPT ![q] = 0]
     /\ phantom' = [phantom EXCEPT ![q] = 0]
     /\ uncovered' = [uncovered EXCEPT ![q] = Larger(@, Reserved(live, q))]
     /\ UNCHANGED <<now, live, req, att, actual, sends, reapAt, booked, excess>>

Tick ==
  /\ now < Horizon
  /\ now' = now + 1
  /\ UNCHANGED <<redis, req, att, actual, sends, reapAt, refreshes, history>>

Attempt(l) ==
  \/ \E b \in Bucket, a \in 1 .. MaxAmount : BeginAcquire(l, b, a)
  \/ ExecAcquire(l)
  \/ Resend(l)
  \/ AcquireReply(l)
  \/ \E x \in 0 .. MaxActual : BeginCommit(l, x)
  \/ ExecCommit(l)
  \/ ExecOrphan(l)
  \/ CommitReply(l)
  \/ Release(l)
  \/ Abandon(l)

Next ==
  \/ \E l \in Lease : Attempt(l)
  \/ ReapToday
  \/ ReapYesterday
  \/ ReapError
  \/ Reconcile
  \/ \E b \in Bucket : MarkRefreshed(b)
  \/ Tick

Spec == Init /\ [][Next]_vars

(***************************************************************************)
(* The background tasks run periodically and each round is retried by the  *)
(* next one (background.go, every): a script that can run again and again  *)
(* will run.  Nothing is assumed of the attempts, which may stop anywhere. *)
(***************************************************************************)
Fairness ==
  /\ WF_vars(Tick)
  /\ WF_vars(ReapToday)
  /\ SF_vars(ReapYesterday)
  /\ WF_vars(Reconcile)

LiveSpec == Spec /\ Fairness

-----------------------------------------------------------------------------
(***************************************************************************)
(* Safety.                                                                 *)
(***************************************************************************)

(***************************************************************************)
(* No reservation outlives its lease: the pre-deducted amount of a quota   *)
(* is at most what its live leases reserve, plus what the client library   *)
(* pre-deducted twice and Reconcile has not healed yet.  Were it larger,   *)
(* the key would look exhausted for ever ("false exhaustion", the failure  *)
(* leases were introduced against, scripts.go P0-2).                       *)
(***************************************************************************)
NoPhantomReservation ==
  \A q \in Quota : prededuct[q] <= Reserved(live, q) + phantom[q]

(***************************************************************************)
(* Every live lease is paid for by prededuct, except for the reservations  *)
(* that a refresh reset, or a Reconcile that met expired but not yet       *)
(* reaped leases, left uncounted.                                          *)
(***************************************************************************)
ReservationsCovered ==
  \A q \in Quota : prededuct[q] + uncovered[q] >= Reserved(live, q)

(***************************************************************************)
(* The overspend bound, the purpose of the component: what was consumed    *)
(* plus what outstanding leases may still consume never exceeds the hard   *)
(* watermark by more than the consumption nobody reserved (answers larger  *)
(* than their estimate, late and duplicated bookings) and the reservations *)
(* a reset left uncounted.                                                 *)
(***************************************************************************)
OverspendBounded ==
  \A q \in Quota :
     used[q] + Reserved(live, q) <= Hard + excess[q] + uncovered[q]

(***************************************************************************)
(* A Commit that returned without error booked the consumption, also when  *)
(* the reaper took the lease first (manager.go: late usage must be booked, *)
(* or the key is overspent later).                                         *)
(***************************************************************************)
SettledIsBooked ==
  \A l \in Lease : att[l] = "settled" /\ actual[l] > 0 => booked[l] >= 1

(***************************************************************************)
(* Without resent commands, consumption is booked at most once, whoever of *)
(* the reaper and the settlement comes first.                              *)
(***************************************************************************)
BookedOnce ==
  MaxSend = 1 => \A l \in Lease : booked[l] <= 1

(***************************************************************************)
(* Only its own attempt ends a lease before it expires: while the attempt  *)
(* is running, no reaper, reconciliation or refresh takes its lease.       *)
(***************************************************************************)
LeaseKeptUntilExpiry ==
  [][\A l \in live \ live' : att[l] = "running" /\ att'[l] = "running"
                                 => req[l].expire <= now]_vars

-----------------------------------------------------------------------------
(***************************************************************************)
(* The detailed authority implements the ledger: a live lease holds its    *)
(* amount, and the slack is what the ghosts account for.                   *)
(***************************************************************************)
Ledger == INSTANCE QuotaLedger WITH
            held <- [q \in Quota |-> Reserved(live, q)],
            slack <- [q \in Quota |-> excess[q] + uncovered[q]]

(***************************************************************************)
(* Every step of attempts, reapers, reconciliations and refreshes is a     *)
(* step the ledger allows: reservations only within the watermark, nothing *)
(* refunded but by a refresh, no slack but the accounted one.              *)
(***************************************************************************)
ImplementsLedger == Ledger!Spec

-----------------------------------------------------------------------------
(***************************************************************************)
(* Liveness.                                                               *)
(***************************************************************************)

(***************************************************************************)
(* Every lease ends, also when the process that held it died: it is        *)
(* committed, released or reaped, unless its day is so far back that Reap  *)
(* no longer looks at it (and the Redis TTL removes it).                   *)
(***************************************************************************)
LeasesEnd ==
  \A l \in Lease :
    l \in live ~> (l \notin live \/ req[l].q[2] < QuotaDay(now) - 1)

(***************************************************************************)
(* A counter of the current day that disagrees with the live leases, for   *)
(* a leak (pre-deducted twice) or a reset, agrees again some time later,   *)
(* unless the day is over.                                                 *)
(***************************************************************************)
CounterHeals ==
  \A q \in Quota :
    prededuct[q] # Reserved(live, q)
      ~> (prededuct[q] = Reserved(live, q) \/ q[2] # QuotaDay(now))

-----------------------------------------------------------------------------
(***************************************************************************)
(* What the documentation and the comments promise, and the code does not  *)
(* keep (see README, findings).                                            *)
(***************************************************************************)

(***************************************************************************)
(* The hard watermark always bounds used + prededuct (docs/overview.md).   *)
(***************************************************************************)
WatermarkAlwaysHolds == \A q \in Quota : used[q] + prededuct[q] <= Hard

(***************************************************************************)
(* Without a refresh, prededuct covers every unexpired lease: the deviation *)
(* towards overspending that scripts.go says the single Reconcile script   *)
(* rules out.                                                              *)
(***************************************************************************)
UnexpiredLeaseCovered ==
  \A q \in Quota : prededuct[q] >= Reserved(Unexpired(now), q)
=============================================================================
