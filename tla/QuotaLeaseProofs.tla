-------------------------- MODULE QuotaLeaseProofs --------------------------
(***************************************************************************)
(* Proofs about QuotaLease, for every value of its constants.              *)
(*                                                                         *)
(* The inductive invariant IInv is the conjunction of the type invariant,  *)
(* the three counter invariants, which support one another, the fact that  *)
(* only started attempts have leases, and the bookkeeping of settlements.  *)
(***************************************************************************)
EXTENDS QuotaLease, FiniteSetTheorems, TLAPS

\* The arguments of a lease are fixed before it exists.
LiveStarted == \A l \in live : att[l] # "idle"

Counters ==
  /\ NoPhantomReservation
  /\ ReservationsCovered
  /\ OverspendBounded
  /\ LiveStarted

\* The consumption of an attempt is booked before its command is answered.
AnsweredIsBooked ==
  \A l \in Lease :
    att[l] \in {"committed", "orphaned", "settled"} /\ actual[l] > 0
      => booked[l] >= 1

-----------------------------------------------------------------------------
(***************************************************************************)
(* Sums of lease amounts.                                                  *)
(***************************************************************************)

(***************************************************************************)
(* The units reserved by a set of leases are finitely many.                *)
(***************************************************************************)
LEMMA UnitsFinite ==
  ASSUME NEW S \in SUBSET Lease, NEW q
  PROVE  IsFiniteSet(Units(S, q)) /\ Reserved(S, q) \in Nat
<1>1. IsFiniteSet(S)
  BY ConstantsAssumption, FS_Subset
<1>2. IsFiniteSet(1 .. MaxAmount)
  BY ConstantsAssumption, FS_Interval
<1>3. IsFiniteSet(S \X (1 .. MaxAmount))
  BY <1>1, <1>2, FS_Product
<1>4. Units(S, q) \in SUBSET (S \X (1 .. MaxAmount))
  BY DEF Units
<1>5. IsFiniteSet(Units(S, q))
  BY <1>3, <1>4, FS_Subset
<1>6. QED
  BY <1>5, FS_CardinalityType DEF Reserved

(***************************************************************************)
(* Ending some of the leases takes away exactly what they reserved.        *)
(***************************************************************************)
LEMMA ReservedMinus ==
  ASSUME NEW S \in SUBSET Lease, NEW T \in SUBSET S, NEW q
  PROVE  /\ Reserved(S \ T, q) = Reserved(S, q) - Reserved(T, q)
         /\ Reserved(T, q) <= Reserved(S, q)
<1>1. IsFiniteSet(Units(S, q))
  BY UnitsFinite
<1>2. Units(T, q) \in SUBSET Units(S, q)
  BY DEF Units
<1>3. Units(S \ T, q) = Units(S, q) \ Units(T, q)
  BY DEF Units
<1>4. Units(S, q) \cap Units(T, q) = Units(T, q)
  BY <1>2
<1>5. Cardinality(Units(S, q) \ Units(T, q))
        = Cardinality(Units(S, q)) - Cardinality(Units(S, q) \cap Units(T, q))
  BY <1>1, FS_Difference
<1>6. Cardinality(Units(T, q)) <= Cardinality(Units(S, q))
  BY <1>1, <1>2, FS_Subset
<1>7. QED
  BY <1>3, <1>4, <1>5, <1>6 DEF Reserved

(***************************************************************************)
(* A new lease adds exactly what it reserves.                              *)
(***************************************************************************)
LEMMA ReservedPlus ==
  ASSUME NEW S \in SUBSET Lease, NEW l \in Lease \ S, NEW q
  PROVE  Reserved(S \cup {l}, q) = Reserved(S, q) + Reserved({l}, q)
<1>1. Reserved((S \cup {l}) \ {l}, q) = Reserved(S \cup {l}, q) - Reserved({l}, q)
  <2>1. S \cup {l} \in SUBSET Lease /\ {l} \in SUBSET (S \cup {l})
    OBVIOUS
  <2>2. QED
    BY <2>1, ReservedMinus
<1>2. (S \cup {l}) \ {l} = S
  OBVIOUS
<1>3. /\ Reserved(S \cup {l}, q) \in Nat
      /\ Reserved(S, q) \in Nat
      /\ Reserved({l}, q) \in Nat
  BY UnitsFinite
<1>4. QED
  BY <1>1, <1>2, <1>3

(***************************************************************************)
(* One lease reserves its amount on its own quota and nothing elsewhere.   *)
(***************************************************************************)
LEMMA ReservedOne ==
  ASSUME NEW l \in Lease, NEW q, NEW a \in Nat,
         req[l].amount = a, a <= MaxAmount
  PROVE  Reserved({l}, q) = IF req[l].q = q THEN a ELSE 0
<1>1. CASE req[l].q # q
  <2>1. Units({l}, q) = {}
    BY <1>1 DEF Units
  <2>2. QED
    BY <1>1, <2>1, FS_EmptySet DEF Reserved
<1>2. CASE req[l].q = q
  <2>1. Units({l}, q) = {l} \X (1 .. a)
    BY <1>2, ConstantsAssumption DEF Units
  <2>2. IsFiniteSet(1 .. a) /\ Cardinality(1 .. a) = a
    <3>1. IsFiniteSet(1 .. a) /\ Cardinality(1 .. a) = IF 1 > a THEN 0 ELSE a - 1 + 1
      BY FS_Interval
    <3>2. QED
      BY <3>1
  <2>3. IsFiniteSet({l}) /\ Cardinality({l}) = 1
    BY FS_Singleton
  <2>4. Cardinality({l} \X (1 .. a)) = Cardinality({l}) * Cardinality(1 .. a)
    BY <2>2, <2>3, FS_Product
  <2>5. Cardinality({l} \X (1 .. a)) = a
    BY <2>2, <2>3, <2>4
  <2>6. QED
    BY <1>2, <2>1, <2>5 DEF Reserved
<1>3. QED
  BY <1>1, <1>2

-----------------------------------------------------------------------------
(***************************************************************************)
(* The type invariant.                                                     *)
(***************************************************************************)
(***************************************************************************)
(* The quota day of an instant of the clock names a quota of every bucket. *)
(***************************************************************************)
LEMMA QuotaOfInstant ==
  ASSUME NEW b \in Bucket, NEW t \in 0 .. Horizon
  PROVE  <<b, QuotaDay(t)>> \in Quota
BY DEF Quota, Day

(***************************************************************************)
(* The clamp of the scripts yields a natural number, and is a subtraction  *)
(* wherever it does not clamp.                                             *)
(***************************************************************************)
LEMMA MinusType ==
  ASSUME NEW x \in Nat, NEW y \in Nat
  PROVE  /\ Minus(x, y) \in Nat /\ Minus(x, y) <= x /\ Minus(x, y) >= x - y
         /\ Minus(x, y) = x - y \/ (Minus(x, y) = 0 /\ x <= y)
BY DEF Minus

(***************************************************************************)
(* Ending leases keeps the types of what it changes.                       *)
(***************************************************************************)
LEMMA EndLeasesType ==
  ASSUME TypeOK, NEW S \in SUBSET live, EndLeases(S)
  PROVE  live' \subseteq Lease /\ prededuct' \in [Quota -> Nat]
<1>1. S \in SUBSET Lease
  BY DEF TypeOK
<1>2. ASSUME NEW q \in Quota PROVE Minus(prededuct[q], Reserved(S, q)) \in Nat
  BY <1>1, UnitsFinite, MinusType DEF TypeOK
<1>3. QED
  BY <1>2 DEF TypeOK, EndLeases

(***************************************************************************)
(* Initially every variable has its type.                                  *)
(***************************************************************************)
LEMMA TypeInit == Init => TypeOK
<1>1. SUFFICES ASSUME Init PROVE TypeOK
  OBVIOUS
<1>2. 0 \in 0 .. Horizon /\ 0 \in 0 .. MaxAmount /\ 0 \in 0 .. MaxActual
      /\ 0 \in 0 .. MaxSend /\ 0 \in 0 .. MaxRefresh
  BY ConstantsAssumption
<1>3. \E q \in Quota : TRUE
  BY <1>2, ConstantsAssumption, QuotaOfInstant
<1>4. NoRequest \in [q : Quota, amount : 0 .. MaxAmount, expire : Nat]
  BY <1>2, <1>3 DEF NoRequest
<1>5. /\ req \in [Lease -> [q : Quota, amount : 0 .. MaxAmount, expire : Nat]]
      /\ att \in [Lease -> AttState]
  BY <1>1, <1>4 DEF Init, AttState
<1>6. /\ used \in [Quota -> Nat] /\ prededuct \in [Quota -> Nat]
      /\ phantom \in [Quota -> Nat] /\ uncovered \in [Quota -> Nat]
      /\ excess \in [Quota -> Nat] /\ booked \in [Lease -> Nat]
      /\ actual \in [Lease -> 0 .. MaxActual] /\ sends \in [Lease -> 0 .. MaxSend]
  BY <1>1, <1>2 DEF Init
<1>7. QED
  BY <1>1, <1>2, <1>5, <1>6 DEF Init, TypeOK

(***************************************************************************)
(* Every step keeps every variable in its type.                            *)
(***************************************************************************)
LEMMA TypeNext == TypeOK /\ [Next]_vars => TypeOK'
<1>1. SUFFICES ASSUME TypeOK, [Next]_vars PROVE TypeOK'
  OBVIOUS
<1> USE ConstantsAssumption
<1>2. ASSUME NEW l \in Lease, NEW b \in Bucket, NEW a \in 1 .. MaxAmount,
             BeginAcquire(l, b, a)
      PROVE  TypeOK'
  <2>1. <<b, QuotaDay(now)>> \in Quota
    BY <1>1, QuotaOfInstant DEF TypeOK
  <2>2. a \in 0 .. MaxAmount /\ now + TTL \in Nat
    BY <1>1 DEF TypeOK
  <2>3. QED
    BY <1>1, <1>2, <2>1, <2>2 DEF TypeOK, BeginAcquire, history, AttState
<1>3. ASSUME NEW l \in Lease, ExecAcquire(l) PROVE TypeOK'
  <2>1. sends' \in [Lease -> 0 .. MaxSend]
    <3>1. sends[l] + 1 \in 0 .. MaxSend
      BY <1>1, <1>3 DEF TypeOK, ExecAcquire
    <3>2. QED
      BY <1>1, <1>3, <3>1 DEF TypeOK, ExecAcquire
  <2>2. req[l].q \in Quota /\ req[l].amount \in Nat
    BY <1>1 DEF TypeOK
  <2>3. att' \in [Lease -> AttState] /\ live' \subseteq Lease
    BY <1>1, <1>3 DEF TypeOK, ExecAcquire, ScriptAcquire, AttState
  <2>4. prededuct' \in [Quota -> Nat]
    BY <1>1, <1>3, <2>2 DEF TypeOK, ExecAcquire, ScriptAcquire
  <2>5. phantom' \in [Quota -> Nat]
    BY <1>1, <1>3, <2>2 DEF TypeOK, ExecAcquire, ScriptAcquire
  <2>6. QED
    BY <1>1, <1>3, <2>1, <2>3, <2>4, <2>5 DEF TypeOK, ExecAcquire
<1>4. ASSUME NEW l \in Lease, Resend(l) PROVE TypeOK'
  BY <1>1, <1>4 DEF TypeOK, Resend, redis, history, AttState
<1>5. ASSUME NEW l \in Lease, AcquireReply(l) PROVE TypeOK'
  BY <1>1, <1>5 DEF TypeOK, AcquireReply, redis, history, AttState
<1>6. ASSUME NEW l \in Lease, NEW x \in 0 .. MaxActual, BeginCommit(l, x)
      PROVE  TypeOK'
  BY <1>1, <1>6 DEF TypeOK, BeginCommit, redis, history, AttState
<1>7. ASSUME NEW l \in Lease, ExecCommit(l) PROVE TypeOK'
  <2>1. req[l].q \in Quota /\ req[l].amount \in Nat /\ actual[l] \in Nat
    BY <1>1 DEF TypeOK
  <2>2. CASE l \in live
    <3>1. live' \subseteq Lease /\ prededuct' \in [Quota -> Nat]
      <4>1. {l} \in SUBSET live /\ EndLeases({l})
        BY <1>7, <2>2 DEF ExecCommit, ScriptCommit
      <4>2. QED
        BY <1>1, <4>1, EndLeasesType
    <3>2. used' \in [Quota -> Nat]
      BY <1>1, <1>7, <2>1, <2>2 DEF TypeOK, ExecCommit, ScriptCommit
    <3>3. excess' \in [Quota -> Nat]
      <4>1. Minus(actual[l], req[l].amount) \in Nat
        BY <2>1, MinusType
      <4>2. QED
        BY <1>1, <1>7, <2>1, <2>2, <4>1 DEF TypeOK, ExecCommit, ScriptCommit
    <3>4. att' \in [Lease -> AttState] /\ sends' \in [Lease -> 0 .. MaxSend]
      <4>1. sends[l] + 1 \in 0 .. MaxSend
        BY <1>1, <1>7 DEF TypeOK, ExecCommit
      <4>2. QED
        BY <1>1, <1>7, <2>2, <4>1 DEF TypeOK, ExecCommit, ScriptCommit, AttState
    <3>5. booked' \in [Lease -> Nat]
      BY <1>1, <1>7, <2>2 DEF TypeOK, ExecCommit, ScriptCommit
    <3>6. QED
      BY <1>1, <1>7, <3>1, <3>2, <3>3, <3>4, <3>5 DEF TypeOK, ExecCommit
  <2>3. CASE l \notin live
    <3>1. att' \in [Lease -> AttState] /\ sends' \in [Lease -> 0 .. MaxSend]
      <4>1. /\ att' = [att EXCEPT ![l] = IF actual[l] > 0 THEN "orphan" ELSE "settled"]
            /\ sends' = [sends EXCEPT ![l] = 0]
        BY <1>7, <2>3 DEF ExecCommit, ScriptCommit
      <4>2. 0 \in 0 .. MaxSend
        OBVIOUS
      <4>3. QED
        BY <1>1, <4>1, <4>2 DEF TypeOK, AttState
    <3>2. UNCHANGED <<used, prededuct, live, booked, excess>>
      BY <1>7, <2>3 DEF ExecCommit, ScriptCommit
    <3>3. QED
      BY <1>1, <1>7, <3>1, <3>2 DEF TypeOK, ExecCommit
  <2>4. QED
    BY <2>2, <2>3
<1>8. ASSUME NEW l \in Lease, ExecOrphan(l) PROVE TypeOK'
  <2>1. req[l].q \in Quota /\ actual[l] \in Nat
    BY <1>1 DEF TypeOK
  <2>2. used' \in [Quota -> Nat] /\ excess' \in [Quota -> Nat]
    BY <1>1, <1>8, <2>1 DEF TypeOK, ExecOrphan
  <2>3. QED
    BY <1>1, <1>8, <2>2 DEF TypeOK, ExecOrphan, AttState
<1>9. ASSUME NEW l \in Lease, CommitReply(l) PROVE TypeOK'
  BY <1>1, <1>9 DEF TypeOK, CommitReply, redis, history, AttState
<1>10. ASSUME NEW l \in Lease, Release(l) PROVE TypeOK'
  <2>1. live' \subseteq Lease /\ prededuct' \in [Quota -> Nat]
    BY <1>1, <1>10, EndLeasesType DEF Release
  <2>2. QED
    BY <1>1, <1>10, <2>1 DEF TypeOK, Release, history, AttState
<1>11. ASSUME NEW l \in Lease, Abandon(l) PROVE TypeOK'
  BY <1>1, <1>11 DEF TypeOK, Abandon, redis, history, AttState
<1>12. CASE ReapToday
  <2>1. PICK S \in ReapBatches(QuotaDay(now), now) : EndLeases(S)
    BY <1>12 DEF ReapToday
  <2>2. S \in SUBSET live
    BY DEF ReapBatches, Expired
  <2>3. live' \subseteq Lease /\ prededuct' \in [Quota -> Nat]
    BY <1>1, <2>1, <2>2, EndLeasesType
  <2>4. QED
    BY <1>1, <1>12, <2>3 DEF TypeOK, ReapToday, history
<1>13. CASE ReapYesterday
  <2>1. PICK S \in ReapBatches(QuotaDay(reapAt) - 1, reapAt) : EndLeases(S)
    BY <1>13 DEF ReapYesterday
  <2>2. S \in SUBSET live
    BY DEF ReapBatches, Expired
  <2>3. live' \subseteq Lease /\ prededuct' \in [Quota -> Nat]
    BY <1>1, <2>1, <2>2, EndLeasesType
  <2>4. QED
    BY <1>1, <1>13, <2>3 DEF TypeOK, ReapYesterday, history
<1>14. CASE ReapError
  BY <1>1, <1>14 DEF TypeOK, ReapError, redis, history
<1>15. CASE Reconcile
  <2>1. Unexpired(now) \in SUBSET Lease /\ live \in SUBSET Lease
    BY <1>1 DEF TypeOK, Unexpired
  <2>2. ASSUME NEW q \in Quota
        PROVE  /\ Reserved(Unexpired(now), q) \in Nat
               /\ Larger(uncovered[q], Minus(Reserved(live, q),
                         Reserved(Unexpired(now), q))) \in Nat
    <3>1. Reserved(Unexpired(now), q) \in Nat /\ Reserved(live, q) \in Nat
      BY <2>1, UnitsFinite
    <3>2. Minus(Reserved(live, q), Reserved(Unexpired(now), q)) \in Nat
      BY <3>1, MinusType
    <3>3. QED
      BY <1>1, <3>1, <3>2 DEF TypeOK, Larger
  <2>3. prededuct' \in [Quota -> Nat] /\ uncovered' \in [Quota -> Nat]
    BY <1>1, <1>15, <2>2 DEF TypeOK, Reconcile
  <2>4. phantom' \in [Quota -> Nat]
    BY <1>1, <1>15 DEF TypeOK, Reconcile
  <2>5. QED
    BY <1>1, <1>15, <2>3, <2>4 DEF TypeOK, Reconcile
<1>16. ASSUME NEW b \in Bucket, MarkRefreshed(b) PROVE TypeOK'
  <2> DEFINE q == <<b, QuotaDay(now)>>
  <2>1. q \in Quota
    BY <1>1, QuotaOfInstant DEF TypeOK
  <2>2. Larger(uncovered[q], Reserved(live, q)) \in Nat
    BY <1>1, <2>1, UnitsFinite DEF TypeOK, Larger
  <2>3. uncovered' \in [Quota -> Nat]
    BY <1>1, <1>16, <2>1, <2>2 DEF TypeOK, MarkRefreshed
  <2>4. /\ used' \in [Quota -> Nat] /\ prededuct' \in [Quota -> Nat]
        /\ phantom' \in [Quota -> Nat]
    BY <1>1, <1>16, <2>1 DEF TypeOK, MarkRefreshed
  <2>5. QED
    BY <1>1, <1>16, <2>3, <2>4 DEF TypeOK, MarkRefreshed
<1>17. CASE Tick
  BY <1>1, <1>17 DEF TypeOK, Tick, redis, history
<1>18. CASE UNCHANGED vars
  BY <1>1, <1>18 DEF TypeOK, vars
<1>19. QED
  BY <1>1, <1>2, <1>3, <1>4, <1>5, <1>6, <1>7, <1>8, <1>9, <1>10, <1>11,
     <1>12, <1>13, <1>14, <1>15, <1>16, <1>17, <1>18 DEF Next, Attempt

(***************************************************************************)
(* Type correctness: in particular used and prededuct never get negative,  *)
(* which the clamps of the scripts are there for.                          *)
(***************************************************************************)
THEOREM TypeCorrect == Spec => []TypeOK
BY TypeInit, TypeNext, PTL DEF Spec
-----------------------------------------------------------------------------
(***************************************************************************)
(* The counters and the live leases.                                       *)
(***************************************************************************)

(***************************************************************************)
(* The reservations of the next state, in terms of the present requests.   *)
(***************************************************************************)
LEMMA ReservedAfter ==
  ASSUME NEW T, NEW q, live' = T, \A l \in T : req'[l] = req[l]
  PROVE  Reserved(live, q)' = Reserved(T, q)
<1>1. Units(live, q)' = Units(T, q)
  BY DEF Units
<1>2. QED
  BY <1>1 DEF Reserved

(***************************************************************************)
(* The numbers of one quota that the counter invariants relate.            *)
(***************************************************************************)
LEMMA CounterTypes ==
  ASSUME TypeOK, NEW q \in Quota
  PROVE  /\ used[q] \in Nat /\ prededuct[q] \in Nat /\ phantom[q] \in Nat
         /\ uncovered[q] \in Nat /\ excess[q] \in Nat
         /\ Reserved(live, q) \in Nat
BY UnitsFinite DEF TypeOK

(***************************************************************************)
(* A step that touches neither a counter nor the request of a live lease.  *)
(***************************************************************************)
LEMMA CountersFrame ==
  ASSUME Counters,
         UNCHANGED <<used, prededuct, live, phantom, uncovered, excess>>,
         \A l \in live : req'[l] = req[l] /\ att'[l] # "idle"
  PROVE  Counters'
<1>1. \A q \in Quota : Reserved(live, q)' = Reserved(live, q)
  BY ReservedAfter
<1>2. QED
  BY <1>1 DEF Counters, NoPhantomReservation, ReservationsCovered,
              OverspendBounded, LiveStarted

(***************************************************************************)
(* What the end of some leases does to the numbers of one quota.           *)
(***************************************************************************)
LEMMA EndLeasesEffect ==
  ASSUME TypeOK, NEW S \in SUBSET live, EndLeases(S), req' = req,
         NEW q \in Quota
  PROVE  /\ Reserved(S, q) \in Nat
         /\ Reserved(S, q) <= Reserved(live, q)
         /\ Reserved(live, q)' = Reserved(live, q) - Reserved(S, q)
         /\ prededuct'[q] \in Nat
         /\ prededuct'[q] >= prededuct[q] - Reserved(S, q)
         /\ \/ prededuct'[q] = prededuct[q] - Reserved(S, q)
            \/ prededuct'[q] = 0
<1>1. live \in SUBSET Lease /\ S \in SUBSET Lease
  BY DEF TypeOK
<1>2. Reserved(S, q) \in Nat
  BY <1>1, UnitsFinite
<1>3. /\ Reserved(live \ S, q) = Reserved(live, q) - Reserved(S, q)
      /\ Reserved(S, q) <= Reserved(live, q)
  BY <1>1, ReservedMinus
<1>4. live' = live \ S
  BY DEF EndLeases
<1>5. Reserved(live, q)' = Reserved(live \ S, q)
  BY <1>4, ReservedAfter
<1>6. prededuct[q] \in Nat
  BY DEF TypeOK
<1>7. prededuct'[q] = Minus(prededuct[q], Reserved(S, q))
  BY DEF EndLeases
<1>8. QED
  BY <1>2, <1>3, <1>5, <1>6, <1>7, MinusType

(***************************************************************************)
(* Ending leases without booking anything keeps the counters right.        *)
(***************************************************************************)
LEMMA CountersEndLeases ==
  ASSUME TypeOK, Counters, NEW S \in SUBSET live, EndLeases(S),
         UNCHANGED <<used, req, phantom, uncovered, excess>>,
         \A l \in live : att'[l] # "idle"
  PROVE  Counters'
<1>1. ASSUME NEW q \in Quota
      PROVE  /\ prededuct'[q] <= Reserved(live, q)' + phantom'[q]
             /\ prededuct'[q] + uncovered'[q] >= Reserved(live, q)'
             /\ used'[q] + Reserved(live, q)' <= Hard + excess'[q] + uncovered'[q]
  <2>1. /\ prededuct[q] <= Reserved(live, q) + phantom[q]
        /\ prededuct[q] + uncovered[q] >= Reserved(live, q)
        /\ used[q] + Reserved(live, q) <= Hard + excess[q] + uncovered[q]
    BY DEF Counters, NoPhantomReservation, ReservationsCovered, OverspendBounded
  <2>2. QED
    BY <2>1, EndLeasesEffect, CounterTypes, ConstantsAssumption
<1>2. LiveStarted'
  BY DEF EndLeases, LiveStarted
<1>3. QED
  BY <1>1, <1>2 DEF Counters, NoPhantomReservation, ReservationsCovered,
                    OverspendBounded

(***************************************************************************)
(* luaAcquire: the watermark check makes room for the new reservation.     *)
(***************************************************************************)
LEMMA CountersExecAcquire ==
  ASSUME TypeOK, Counters, NEW l \in Lease, ExecAcquire(l)
  PROVE  Counters'
<1> DEFINE p == req[l].q
           a == req[l].amount
<1>1. p \in Quota /\ a \in Nat /\ a <= MaxAmount
  BY ConstantsAssumption DEF TypeOK
<1>2. req' = req /\ att'[l] # "idle" /\ (\A m \in Lease \ {l} : att'[m] = att[m])
  BY DEF ExecAcquire, ScriptAcquire, TypeOK
<1>3. CASE UNCHANGED <<prededuct, live, phantom>>
  <2>1. UNCHANGED <<used, prededuct, live, phantom, uncovered, excess>>
    BY <1>3 DEF ExecAcquire
  <2>2. \A m \in live : req'[m] = req[m] /\ att'[m] # "idle"
    BY <1>2 DEF Counters, LiveStarted, TypeOK
  <2>3. QED
    BY <2>1, <2>2, CountersFrame
<1>4. CASE /\ used[p] + prededuct[p] + a <= Hard
           /\ prededuct' = [prededuct EXCEPT ![p] = @ + a]
           /\ live' = live \cup {l}
           /\ phantom' = [phantom EXCEPT ![p] = IF l \in live THEN @ + a ELSE @]
  <2>1. UNCHANGED <<used, uncovered, excess>>
    BY DEF ExecAcquire
  <2>2. ASSUME NEW q \in Quota
        PROVE  Reserved(live, q)' = Reserved(live, q)
                 + IF q = p /\ l \notin live THEN a ELSE 0
    <3>1. Reserved(live, q)' = Reserved(live \cup {l}, q)
      BY <1>2, <1>4, ReservedAfter
    <3>2. CASE l \in live
      <4>1. live' = live
        BY <1>4, <3>2
      <4>2. Reserved(live, q)' = Reserved(live, q)
        BY <1>2, <4>1, ReservedAfter
      <4>3. Reserved(live, q) \in Nat
        BY CounterTypes
      <4>4. QED
        BY <3>2, <4>2, <4>3
    <3>3. CASE l \notin live
      <4>1. Reserved(live \cup {l}, q) = Reserved(live, q) + Reserved({l}, q)
        BY <3>3, ReservedPlus DEF TypeOK
      <4>2. Reserved({l}, q) = IF p = q THEN a ELSE 0
        BY <1>1, ReservedOne
      <4>3. QED
        BY <3>1, <3>3, <4>1, <4>2
    <3>4. QED
      BY <3>2, <3>3
  <2>3. ASSUME NEW q \in Quota
        PROVE  /\ prededuct'[q] <= Reserved(live, q)' + phantom'[q]
               /\ prededuct'[q] + uncovered'[q] >= Reserved(live, q)'
               /\ used'[q] + Reserved(live, q)' <= Hard + excess'[q] + uncovered'[q]
    <3>1. /\ prededuct[q] <= Reserved(live, q) + phantom[q]
          /\ prededuct[q] + uncovered[q] >= Reserved(live, q)
          /\ used[q] + Reserved(live, q) <= Hard + excess[q] + uncovered[q]
      BY DEF Counters, NoPhantomReservation, ReservationsCovered, OverspendBounded
    <3>2. /\ prededuct'[q] = prededuct[q] + IF q = p THEN a ELSE 0
          /\ phantom'[q] = phantom[q] + IF q = p /\ l \in live THEN a ELSE 0
      BY <1>1, <1>4, CounterTypes DEF TypeOK
    <3>3. CASE q # p
      BY <2>1, <2>2, <3>1, <3>2, <3>3, CounterTypes, ConstantsAssumption
    <3>4. CASE q = p
      BY <1>1, <1>4, <2>1, <2>2, <3>1, <3>2, <3>4, CounterTypes, ConstantsAssumption
    <3>5. QED
      BY <3>3, <3>4
  <2>4. LiveStarted'
    BY <1>2, <1>4 DEF Counters, LiveStarted, TypeOK
  <2>5. QED
    BY <2>3, <2>4 DEF Counters, NoPhantomReservation, ReservationsCovered,
                      OverspendBounded
<1>5. QED
  BY <1>3, <1>4 DEF ExecAcquire, ScriptAcquire
(***************************************************************************)
(* luaCommit: what is booked was reserved, or is counted as excess.        *)
(***************************************************************************)
LEMMA CountersExecCommit ==
  ASSUME TypeOK, Counters, NEW l \in Lease, ExecCommit(l)
  PROVE  Counters'
<1> DEFINE p == req[l].q
           a == req[l].amount
           x == actual[l]
<1>1. p \in Quota /\ a \in Nat /\ a <= MaxAmount /\ x \in Nat
  BY ConstantsAssumption DEF TypeOK
<1>2. UNCHANGED <<req, phantom, uncovered>>
  BY DEF ExecCommit
<1>3. CASE l \in live
  <2>1. {l} \in SUBSET live /\ EndLeases({l})
    BY <1>3 DEF ExecCommit, ScriptCommit
  <2>2. ASSUME NEW q \in Quota
        PROVE  /\ prededuct'[q] <= Reserved(live, q)' + phantom'[q]
               /\ prededuct'[q] + uncovered'[q] >= Reserved(live, q)'
               /\ used'[q] + Reserved(live, q)' <= Hard + excess'[q] + uncovered'[q]
    <3>1. /\ prededuct[q] <= Reserved(live, q) + phantom[q]
          /\ prededuct[q] + uncovered[q] >= Reserved(live, q)
          /\ used[q] + Reserved(live, q) <= Hard + excess[q] + uncovered[q]
      BY DEF Counters, NoPhantomReservation, ReservationsCovered, OverspendBounded
    <3>2. Reserved({l}, q) = IF p = q THEN a ELSE 0
      BY <1>1, ReservedOne
    <3>3. /\ used'[q] = used[q] + IF q = p THEN x ELSE 0
          /\ excess'[q] = excess[q] + IF q = p THEN Minus(x, a) ELSE 0
      <4>1. /\ used' = [used EXCEPT ![p] = @ + x]
            /\ excess' = [excess EXCEPT ![p] = @ + Minus(x, a)]
        BY <1>3 DEF ExecCommit, ScriptCommit
      <4>2. used[q] \in Nat /\ excess[q] \in Nat
        BY CounterTypes
      <4>3. QED
        BY <1>1, <4>1, <4>2 DEF TypeOK
    <3>4. Minus(x, a) \in Nat /\ Minus(x, a) >= x - a
      BY <1>1, MinusType
    <3>5. /\ Reserved({l}, q) \in Nat
          /\ Reserved({l}, q) <= Reserved(live, q)
          /\ Reserved(live, q)' = Reserved(live, q) - Reserved({l}, q)
          /\ prededuct'[q] \in Nat
          /\ prededuct'[q] >= prededuct[q] - Reserved({l}, q)
          /\ \/ prededuct'[q] = prededuct[q] - Reserved({l}, q)
             \/ prededuct'[q] = 0
      BY <1>2, <2>1, EndLeasesEffect
    <3>6. phantom'[q] = phantom[q] /\ uncovered'[q] = uncovered[q]
      BY <1>2
    <3>7. CASE q = p
      BY <1>1, <3>1, <3>2, <3>3, <3>4, <3>5, <3>6, <3>7, CounterTypes,
         ConstantsAssumption
    <3>8. CASE q # p
      BY <3>1, <3>2, <3>3, <3>5, <3>6, <3>8, CounterTypes, ConstantsAssumption
    <3>9. QED
      BY <3>7, <3>8
  <2>3. LiveStarted'
    BY <1>3 DEF Counters, LiveStarted, ExecCommit, ScriptCommit, EndLeases, TypeOK
  <2>4. QED
    BY <2>2, <2>3 DEF Counters, NoPhantomReservation, ReservationsCovered,
                      OverspendBounded
<1>4. CASE l \notin live
  <2>1. UNCHANGED <<used, prededuct, live, phantom, uncovered, excess>>
    BY <1>2, <1>4 DEF ExecCommit, ScriptCommit
  <2>2. \A m \in live : req'[m] = req[m] /\ att'[m] # "idle"
    BY <1>2, <1>4 DEF Counters, LiveStarted, ExecCommit, ScriptCommit, TypeOK
  <2>3. QED
    BY <2>1, <2>2, CountersFrame
<1>5. QED
  BY <1>3, <1>4

(***************************************************************************)
(* Late consumption is booked without a reservation: all of it is excess.  *)
(***************************************************************************)
LEMMA CountersExecOrphan ==
  ASSUME TypeOK, Counters, NEW l \in Lease, ExecOrphan(l)
  PROVE  Counters'
<1>1. ASSUME NEW q \in Quota
      PROVE  /\ Reserved(live, q)' = Reserved(live, q)
             /\ excess'[q] - excess[q] = used'[q] - used[q]
             /\ used'[q] \in Nat /\ excess'[q] \in Nat
  <2>1. Reserved(live, q)' = Reserved(live, q)
    BY ReservedAfter DEF ExecOrphan
  <2>2. req[l].q \in Quota /\ actual[l] \in Nat
    BY DEF TypeOK
  <2>3. QED
    BY <2>1, <2>2 DEF ExecOrphan, TypeOK
<1>2. UNCHANGED <<prededuct, live, phantom, uncovered>>
  BY DEF ExecOrphan
<1>3. NoPhantomReservation' /\ ReservationsCovered'
  BY <1>1, <1>2 DEF Counters, NoPhantomReservation, ReservationsCovered
<1>4. OverspendBounded'
  BY <1>1, <1>2, CounterTypes, ConstantsAssumption DEF Counters, OverspendBounded
<1>5. LiveStarted'
  BY DEF Counters, LiveStarted, ExecOrphan, TypeOK
<1>6. QED
  BY <1>3, <1>4, <1>5 DEF Counters

(***************************************************************************)
(* luaReconcile: whatever it leaves uncounted is accounted as uncovered.   *)
(***************************************************************************)
LEMMA CountersReconcile ==
  ASSUME TypeOK, Counters, Reconcile
  PROVE  Counters'
<1>1. UNCHANGED <<used, live, req, att, excess>>
  BY DEF Reconcile
<1>2. ASSUME NEW q \in Quota
      PROVE  /\ prededuct'[q] <= Reserved(live, q)' + phantom'[q]
             /\ prededuct'[q] + uncovered'[q] >= Reserved(live, q)'
             /\ used'[q] + Reserved(live, q)' <= Hard + excess'[q] + uncovered'[q]
  <2> DEFINE e == Reserved(Unexpired(now), q)
  <2>1. /\ prededuct[q] <= Reserved(live, q) + phantom[q]
        /\ prededuct[q] + uncovered[q] >= Reserved(live, q)
        /\ used[q] + Reserved(live, q) <= Hard + excess[q] + uncovered[q]
    BY DEF Counters, NoPhantomReservation, ReservationsCovered, OverspendBounded
  <2>2. Reserved(live, q)' = Reserved(live, q)
    BY <1>1, ReservedAfter
  <2>3. e \in Nat /\ e <= Reserved(live, q)
    <3>1. live \in SUBSET Lease /\ Unexpired(now) \in SUBSET live
      BY DEF TypeOK, Unexpired
    <3>2. Unexpired(now) \in SUBSET Lease
      BY <3>1
    <3>3. QED
      BY <3>1, <3>2, ReservedMinus, UnitsFinite
  <2>4. \/ /\ prededuct'[q] = e /\ phantom'[q] = 0
           /\ uncovered'[q] = Larger(uncovered[q], Minus(Reserved(live, q), e))
        \/ UNCHANGED <<prededuct[q], phantom[q], uncovered[q]>>
    BY DEF Reconcile
  <2>5. QED
    BY <1>1, <2>1, <2>2, <2>3, <2>4, CounterTypes, ConstantsAssumption
       DEF Larger, Minus
<1>3. LiveStarted'
  BY <1>1 DEF Counters, LiveStarted
<1>4. QED
  BY <1>2, <1>3 DEF Counters, NoPhantomReservation, ReservationsCovered,
                    OverspendBounded

(***************************************************************************)
(* luaRefreshReset: the outstanding leases become uncovered as a whole.    *)
(***************************************************************************)
LEMMA CountersMarkRefreshed ==
  ASSUME TypeOK, Counters, NEW b \in Bucket, MarkRefreshed(b)
  PROVE  Counters'
<1> DEFINE p == <<b, QuotaDay(now)>>
<1>1. UNCHANGED <<live, req, att, excess>>
  BY DEF MarkRefreshed
<1>2. ASSUME NEW q \in Quota
      PROVE  /\ prededuct'[q] <= Reserved(live, q)' + phantom'[q]
             /\ prededuct'[q] + uncovered'[q] >= Reserved(live, q)'
             /\ used'[q] + Reserved(live, q)' <= Hard + excess'[q] + uncovered'[q]
  <2>1. /\ prededuct[q] <= Reserved(live, q) + phantom[q]
        /\ prededuct[q] + uncovered[q] >= Reserved(live, q)
        /\ used[q] + Reserved(live, q) <= Hard + excess[q] + uncovered[q]
    BY DEF Counters, NoPhantomReservation, ReservationsCovered, OverspendBounded
  <2>2. Reserved(live, q)' = Reserved(live, q)
    BY <1>1, ReservedAfter
  <2>3. \/ /\ used'[q] = 0 /\ prededuct'[q] = 0 /\ phantom'[q] = 0
           /\ uncovered'[q] = Larger(uncovered[q], Reserved(live, q))
        \/ UNCHANGED <<used[q], prededuct[q], phantom[q], uncovered[q]>>
    <3>1. CASE q = p
      BY <3>1 DEF MarkRefreshed, TypeOK
    <3>2. CASE q # p
      BY <3>2 DEF MarkRefreshed, TypeOK
    <3>3. QED
      BY <3>1, <3>2
  <2>4. QED
    BY <1>1, <2>1, <2>2, <2>3, CounterTypes, ConstantsAssumption DEF Larger
<1>3. LiveStarted'
  BY <1>1 DEF Counters, LiveStarted
<1>4. QED
  BY <1>2, <1>3 DEF Counters, NoPhantomReservation, ReservationsCovered,
                    OverspendBounded
(***************************************************************************)
(* Every step keeps the counters right.                                    *)
(***************************************************************************)
LEMMA CountersNext ==
  ASSUME TypeOK, Counters, [Next]_vars
  PROVE  Counters'
<1>1. ASSUME NEW l \in Lease, Attempt(l) PROVE Counters'
  <2>1. ASSUME NEW b \in Bucket, NEW a \in 1 .. MaxAmount, BeginAcquire(l, b, a)
        PROVE  Counters'
    <3>1. l \notin live
      BY <2>1 DEF Counters, LiveStarted, BeginAcquire
    <3>2. \A m \in live : req'[m] = req[m] /\ att'[m] # "idle"
      BY <2>1, <3>1 DEF Counters, LiveStarted, BeginAcquire, TypeOK
    <3>3. QED
      BY <2>1, <3>2, CountersFrame DEF BeginAcquire, history
  <2>2. CASE \/ Resend(l) \/ AcquireReply(l) \/ CommitReply(l) \/ Abandon(l)
             \/ \E x \in 0 .. MaxActual : BeginCommit(l, x)
    <3>1. UNCHANGED <<redis, req, history>>
      BY <2>2 DEF Resend, AcquireReply, CommitReply, Abandon, BeginCommit
    <3>2. \A m \in live : att'[m] # "idle"
      BY <2>2 DEF Counters, LiveStarted, TypeOK, Resend, AcquireReply,
                  CommitReply, Abandon, BeginCommit
    <3>3. QED
      BY <3>1, <3>2, CountersFrame DEF redis, history
  <2>3. CASE Release(l)
    <3>1. \A m \in live : att'[m] # "idle"
      BY <2>3 DEF Counters, LiveStarted, TypeOK, Release
    <3>2. QED
      BY <2>3, <3>1, CountersEndLeases DEF Release, history
  <2>4. QED
    BY <1>1, <2>1, <2>2, <2>3, CountersExecAcquire, CountersExecCommit,
       CountersExecOrphan DEF Attempt
<1>2. CASE ReapToday
  <2>1. PICK S \in ReapBatches(QuotaDay(now), now) : EndLeases(S)
    BY <1>2 DEF ReapToday
  <2>2. S \in SUBSET live
    BY DEF ReapBatches, Expired
  <2>3. QED
    BY <1>2, <2>1, <2>2, CountersEndLeases
       DEF ReapToday, history, Counters, LiveStarted
<1>3. CASE ReapYesterday
  <2>1. PICK S \in ReapBatches(QuotaDay(reapAt) - 1, reapAt) : EndLeases(S)
    BY <1>3 DEF ReapYesterday
  <2>2. S \in SUBSET live
    BY DEF ReapBatches, Expired
  <2>3. QED
    BY <1>3, <2>1, <2>2, CountersEndLeases
       DEF ReapYesterday, history, Counters, LiveStarted
<1>4. CASE ReapError \/ Tick \/ UNCHANGED vars
  <2>1. UNCHANGED <<used, prededuct, live, req, att, phantom, uncovered, excess>>
    BY <1>4 DEF ReapError, Tick, vars, redis, history
  <2>2. QED
    BY <2>1, CountersFrame DEF Counters, LiveStarted
<1>5. QED
  BY <1>1, <1>2, <1>3, <1>4, CountersReconcile, CountersMarkRefreshed DEF Next

(***************************************************************************)
(* Initially nothing is reserved and all counters are zero.                *)
(***************************************************************************)
LEMMA CountersInit == Init => Counters
<1>1. SUFFICES ASSUME Init PROVE Counters
  OBVIOUS
<1>2. \A q \in Quota : Reserved(live, q) = 0
  BY <1>1, FS_EmptySet DEF Init, Reserved, Units
<1>3. QED
  BY <1>1, <1>2, ConstantsAssumption DEF Init, Counters, NoPhantomReservation,
     ReservationsCovered, OverspendBounded, LiveStarted

(***************************************************************************)
(* The inductive invariant holds in every state: the three counter         *)
(* invariants, and that a lease in Redis belongs to a started attempt.     *)
(***************************************************************************)
THEOREM CountersCorrect == Spec => [](TypeOK /\ Counters)
<1>1. Init => TypeOK /\ Counters
  BY TypeInit, CountersInit
<1>2. TypeOK /\ Counters /\ [Next]_vars => (TypeOK /\ Counters)'
  BY TypeNext, CountersNext
<1>3. QED
  BY <1>1, <1>2, PTL DEF Spec

(***************************************************************************)
(* No reservation outlives its lease, for any number of attempts, resent   *)
(* commands, refreshes and reconciliations.                                *)
(***************************************************************************)
THEOREM PhantomFree == Spec => []NoPhantomReservation
<1>1. TypeOK /\ Counters => NoPhantomReservation
  BY DEF Counters
<1>2. QED
  BY <1>1, CountersCorrect, PTL

(***************************************************************************)
(* Every live lease is paid for, but for the accounted resets.             *)
(***************************************************************************)
THEOREM LeasesCovered == Spec => []ReservationsCovered
<1>1. TypeOK /\ Counters => ReservationsCovered
  BY DEF Counters
<1>2. QED
  BY <1>1, CountersCorrect, PTL

(***************************************************************************)
(* Consumption plus outstanding reservations stay within the hard          *)
(* watermark, up to the accounted excess.                                  *)
(***************************************************************************)
THEOREM SpendingBounded == Spec => []OverspendBounded
<1>1. TypeOK /\ Counters => OverspendBounded
  BY DEF Counters
<1>2. QED
  BY <1>1, CountersCorrect, PTL

-----------------------------------------------------------------------------
(***************************************************************************)
(* Settlement.                                                             *)
(***************************************************************************)

(***************************************************************************)
(* What one step does to the bookkeeping of one attempt: it touches only   *)
(* its own attempt, and an answered state is entered by booking.           *)
(***************************************************************************)
LEMMA AnsweredNext ==
  ASSUME TypeOK, AnsweredIsBooked, [Next]_vars
  PROVE  AnsweredIsBooked'
<1>1. ASSUME NEW l \in Lease, Attempt(l) PROVE AnsweredIsBooked'
  <2>1. \A m \in Lease \ {l} : /\ att'[m] = att[m] /\ actual'[m] = actual[m]
                               /\ booked'[m] = booked[m]
    BY <1>1 DEF TypeOK, Attempt, BeginAcquire, ExecAcquire, ScriptAcquire, Resend,
       AcquireReply, BeginCommit, ExecCommit, ScriptCommit, ExecOrphan,
       CommitReply, Release, Abandon, history
  <2>2. att'[l] \in {"committed", "orphaned", "settled"} /\ actual'[l] > 0
          => booked'[l] >= 1
    <3>1. CASE ExecCommit(l)
      BY <3>1 DEF TypeOK, ExecCommit, ScriptCommit
    <3>2. CASE ExecOrphan(l)
      BY <3>2 DEF TypeOK, ExecOrphan
    <3>3. CASE CommitReply(l)
      BY <3>3 DEF AnsweredIsBooked, CommitReply, history
    <3>4. CASE Resend(l)
      BY <3>4 DEF TypeOK, Resend
    <3>5. CASE ~(ExecCommit(l) \/ ExecOrphan(l) \/ CommitReply(l) \/ Resend(l))
      BY <1>1, <3>5 DEF TypeOK, Attempt, BeginAcquire, ExecAcquire, ScriptAcquire,
         AcquireReply, BeginCommit, Release, Abandon
    <3>6. QED
      BY <3>1, <3>2, <3>3, <3>4, <3>5
  <2>3. QED
    BY <2>1, <2>2 DEF AnsweredIsBooked
<1>2. CASE UNCHANGED <<att, actual, booked>>
  BY <1>2 DEF AnsweredIsBooked
<1>3. QED
  BY <1>1, <1>2 DEF Next, ReapToday, ReapYesterday, ReapError, Reconcile,
     MarkRefreshed, Tick, vars, history

(***************************************************************************)
(* A Commit that returned without error booked the consumption.            *)
(***************************************************************************)
THEOREM SettlementBooked == Spec => []SettledIsBooked
<1>1. Init => AnsweredIsBooked
  BY DEF Init, AnsweredIsBooked
<1>2. TypeOK /\ AnsweredIsBooked /\ [Next]_vars => AnsweredIsBooked'
  BY AnsweredNext
<1>3. AnsweredIsBooked => SettledIsBooked
  BY DEF AnsweredIsBooked, SettledIsBooked
<1>4. QED
  BY <1>1, <1>2, <1>3, TypeCorrect, PTL DEF Spec

-----------------------------------------------------------------------------
(***************************************************************************)
(* The reaper.                                                             *)
(***************************************************************************)

\* A running round of Reap works with an instant that has passed.
ReapClock == reapAt <= now

(***************************************************************************)
(* The clock and the instant of a reap round are integers.                 *)
(***************************************************************************)
LEMMA ReapInstant == TypeOK => now \in Nat /\ reapAt \in Int
<1>1. -1 \in Int
  OBVIOUS
<1>2. QED
  BY <1>1, ConstantsAssumption DEF TypeOK, NotReaping

(***************************************************************************)
(* The instant a reap round works with has always passed.                  *)
(***************************************************************************)
LEMMA ReapClockAlways == Spec => []ReapClock
<1>1. Init => ReapClock
  BY DEF Init, ReapClock, NotReaping
<1>2. ASSUME TypeOK, ReapClock, [Next]_vars PROVE ReapClock'
  <2>1. now' = now \/ now' = now + 1
    BY <1>2 DEF Next, Attempt, vars, BeginAcquire,
       ExecAcquire, Resend, AcquireReply, BeginCommit, ExecCommit, ExecOrphan,
       CommitReply, Release, Abandon, ReapToday, ReapYesterday, ReapError,
       Reconcile, MarkRefreshed, Tick
  <2>2. reapAt' = reapAt \/ reapAt' = NotReaping \/ reapAt' = now
    BY <1>2 DEF Next, Attempt, vars, BeginAcquire,
       ExecAcquire, Resend, AcquireReply, BeginCommit, ExecCommit, ExecOrphan,
       CommitReply, Release, Abandon, ReapToday, ReapYesterday, ReapError,
       Reconcile, MarkRefreshed, Tick
  <2>3. now \in Nat /\ reapAt \in Int
    BY <1>2, ReapInstant
  <2>4. QED
    BY <1>2, <2>1, <2>2, <2>3 DEF ReapClock, NotReaping
<1>3. QED
  BY <1>1, <1>2, TypeCorrect, PTL DEF Spec

(***************************************************************************)
(* No lease of a running attempt is taken before it expires.               *)
(***************************************************************************)
THEOREM LeaseKept == Spec => LeaseKeptUntilExpiry
<1>1. ASSUME TypeOK, ReapClock, Next,
             NEW l \in live \ live', att[l] = "running", att'[l] = "running"
      PROVE  req[l].expire <= now
  <2>1. l \in Lease
    BY <1>1 DEF TypeOK
  <2>2. \A m \in Lease : ~Attempt(m)
    <3>1. SUFFICES ASSUME NEW m \in Lease, Attempt(m) PROVE FALSE
      OBVIOUS
    <3>2. live \ live' \in SUBSET {m}
      BY <3>1 DEF Attempt, BeginAcquire, ExecAcquire, ScriptAcquire, Resend,
         AcquireReply, BeginCommit, ExecCommit, ScriptCommit, EndLeases,
         ExecOrphan, CommitReply, Release, Abandon, redis
    <3>3. m = l
      BY <1>1, <3>2
    <3>4. l \notin live' /\ l \in live
      BY <1>1
    <3>5. QED
      BY <1>1, <2>1, <3>1, <3>3, <3>4
         DEF TypeOK, Attempt, BeginAcquire, ExecAcquire, ScriptAcquire, Resend,
         AcquireReply, BeginCommit, ExecCommit, ScriptCommit,
         ExecOrphan, CommitReply, Release, Abandon, redis
  <2>3. CASE ReapToday
    BY <1>1, <2>3 DEF ReapToday, ReapBatches, Expired, EndLeases
  <2>4. CASE ReapYesterday
    <3>1. req[l].expire <= reapAt
      BY <1>1, <2>4 DEF ReapYesterday, ReapBatches, Expired, EndLeases
    <3>2. req[l].expire \in Nat /\ reapAt \in Int /\ now \in Int
      BY <1>1, <2>1, ReapInstant DEF TypeOK
    <3>3. QED
      BY <1>1, <3>1, <3>2 DEF ReapClock
  <2>5. QED
    BY <1>1, <2>2, <2>3, <2>4 DEF Next, ReapError, Reconcile, MarkRefreshed,
       Tick, redis
<1>2. TypeOK /\ ReapClock /\ [Next]_vars
        => [\A l \in live \ live' : att[l] = "running" /\ att'[l] = "running"
                                        => req[l].expire <= now]_vars
  BY <1>1
<1>3. QED
  BY <1>2, TypeCorrect, ReapClockAlways, PTL DEF Spec, LeaseKeptUntilExpiry
-----------------------------------------------------------------------------
(***************************************************************************)
(* Exactly one booking, when no command is executed twice.                 *)
(***************************************************************************)

\* Until its booking an attempt is in one of the first states, and a command
\* that was executed is not executed again.
FirstBooking ==
  \A l \in Lease :
    /\ booked[l] <= 1
    /\ att[l] \in {"idle", "acquiring", "granted", "denied", "running",
                   "committing", "orphan"} => booked[l] = 0
    /\ att[l] \in {"granted", "denied", "committed", "orphaned"} => sends[l] >= 1

(***************************************************************************)
(* Without resent commands, every step keeps the phase of an attempt and   *)
(* the number of its bookings in agreement.                                *)
(***************************************************************************)
LEMMA FirstBookingNext ==
  ASSUME MaxSend = 1, TypeOK, FirstBooking, [Next]_vars
  PROVE  FirstBooking'
<1>1. ASSUME NEW l \in Lease, Attempt(l) PROVE FirstBooking'
  <2>2. booked[l] \in Nat /\ sends[l] \in Nat
    BY <1>1 DEF TypeOK
  <2>3. CASE Resend(l)
    BY <2>2, <2>3 DEF FirstBooking, Resend
  <2>4. CASE ExecAcquire(l)
    BY <2>2, <2>4 DEF TypeOK, FirstBooking, ExecAcquire, ScriptAcquire
  <2>5. CASE ExecCommit(l)
    BY <2>2, <2>5 DEF TypeOK, FirstBooking, ExecCommit, ScriptCommit
  <2>6. CASE ExecOrphan(l)
    BY <2>2, <2>6 DEF TypeOK, FirstBooking, ExecOrphan
  <2>7. CASE AcquireReply(l) \/ CommitReply(l) \/ Abandon(l) \/ Release(l)
    BY <2>2, <2>7 DEF TypeOK, FirstBooking, AcquireReply, CommitReply, Abandon,
       Release, history
  <2>8. CASE \/ \E b \in Bucket, a \in 1 .. MaxAmount : BeginAcquire(l, b, a)
             \/ \E x \in 0 .. MaxActual : BeginCommit(l, x)
    BY <2>2, <2>8 DEF TypeOK, FirstBooking, BeginAcquire, BeginCommit, history
  <2>9. QED
    BY <1>1, <2>3, <2>4, <2>5, <2>6, <2>7, <2>8 DEF Attempt
<1>2. CASE UNCHANGED <<att, sends, booked>>
  BY <1>2 DEF FirstBooking
<1>3. QED
  BY <1>1, <1>2 DEF Next, ReapToday, ReapYesterday, ReapError, Reconcile,
     MarkRefreshed, Tick, vars, history

(***************************************************************************)
(* Reaper and settlement together book a consumption at most once.         *)
(***************************************************************************)
THEOREM BookingUnique == Spec => []BookedOnce
<1>1. CASE MaxSend = 1
  <2>1. Init => FirstBooking
    BY DEF Init, FirstBooking
  <2>2. TypeOK /\ FirstBooking /\ [Next]_vars => FirstBooking'
    BY <1>1, FirstBookingNext
  <2>3. FirstBooking => BookedOnce
    BY DEF FirstBooking, BookedOnce
  <2>4. QED
    BY <2>1, <2>2, <2>3, TypeCorrect, PTL DEF Spec
<1>2. CASE MaxSend # 1
  <2>1. BookedOnce
    BY <1>2 DEF BookedOnce
  <2>2. QED
    BY <2>1, PTL
<1>3. QED
  BY <1>1, <1>2
-----------------------------------------------------------------------------
(***************************************************************************)
(* QuotaLease implements QuotaLedger.                                      *)
(***************************************************************************)

(***************************************************************************)
(* Steps that the ledger does not see.                                     *)
(***************************************************************************)
LEMMA LedgerStutter ==
  ASSUME UNCHANGED <<used, live, uncovered, excess>>,
         \A l \in live : req'[l] = req[l]
  PROVE  UNCHANGED Ledger!vars
<1>1. \A q \in Quota : Reserved(live, q)' = Reserved(live, q)
  BY ReservedAfter
<1>2. QED
  BY <1>1 DEF Ledger!vars

(***************************************************************************)
(* Releasing and reaping drop what was held.                               *)
(***************************************************************************)
LEMMA LedgerDrop ==
  ASSUME TypeOK, NEW S \in SUBSET live, EndLeases(S),
         UNCHANGED <<used, req, uncovered, excess>>
  PROVE  Ledger!Drop
<1>1. ASSUME NEW q \in Quota
      PROVE  Reserved(live, q)' \in Nat /\ Reserved(live, q)' <= Reserved(live, q)
  BY EndLeasesEffect, CounterTypes
<1>2. QED
  BY <1>1 DEF Ledger!Drop

(***************************************************************************)
(* A granted Acquire is a Grant of the ledger.                             *)
(***************************************************************************)
LEMMA LedgerExecAcquire ==
  ASSUME TypeOK, Counters, NEW l \in Lease, ExecAcquire(l)
  PROVE  (\E q \in Quota : Ledger!Grant(q)) \/ UNCHANGED Ledger!vars
<1> DEFINE a == req[l].amount
<1>0. PICK p \in Quota : p = req[l].q
  BY DEF TypeOK
<1>1. a \in Nat /\ a <= MaxAmount
  BY ConstantsAssumption DEF TypeOK
<1>2. UNCHANGED <<used, req, uncovered, excess>>
  BY DEF ExecAcquire
<1>3. CASE live' = live
  BY <1>2, <1>3, LedgerStutter
<1>4. CASE l \notin live /\ live' = live \cup {l}
  <2>1. used[p] + prededuct[p] + a <= Hard
    BY <1>0, <1>4 DEF ExecAcquire, ScriptAcquire
  <2>2. ASSUME NEW q \in Quota
        PROVE  Reserved(live, q)' = Reserved(live, q) + IF q = p THEN a ELSE 0
    <3>1. Reserved(live, q)' = Reserved(live \cup {l}, q)
      BY <1>2, <1>4, ReservedAfter
    <3>2. Reserved(live \cup {l}, q) = Reserved(live, q) + Reserved({l}, q)
      BY <1>4, ReservedPlus DEF TypeOK
    <3>3. Reserved({l}, q) = IF p = q THEN a ELSE 0
      BY <1>0, <1>1, ReservedOne
    <3>4. QED
      BY <3>1, <3>2, <3>3
  <2>3. \A q \in Quota : Reserved(live, q) \in Nat
    BY CounterTypes
  <2>4. CASE a = 0
    <3>1. \A q \in Quota : Reserved(live, q)' = Reserved(live, q)
      BY <2>2, <2>3, <2>4
    <3>2. QED
      BY <1>2, <3>1 DEF Ledger!vars
  <2>5. CASE a > 0
    <3>1. used[p] + Reserved(live, p)' <= Hard + (excess[p] + uncovered[p])
      <4>1. prededuct[p] + uncovered[p] >= Reserved(live, p)
        BY <1>1 DEF Counters, ReservationsCovered
      <4>2. Reserved(live, p)' = Reserved(live, p) + a
        BY <1>1, <2>2
      <4>3. QED
        BY <1>1, <2>1, <4>1, <4>2, CounterTypes, ConstantsAssumption
    <3>2. Reserved(live, p)' > Reserved(live, p)
      BY <1>1, <2>2, <2>3, <2>5
    <3>3. \A q \in Quota \ {p} : Reserved(live, q)' = Reserved(live, q)
      BY <2>2, <2>3
    <3>4. Ledger!Grant(p)
      BY <1>1, <1>2, <3>1, <3>2, <3>3 DEF Ledger!Grant
    <3>5. QED
      BY <1>1, <3>4
  <2>6. QED
    BY <1>1, <2>4, <2>5
<1>5. QED
  <2>1. live' = live \/ live' = live \cup {l}
    BY DEF ExecAcquire, ScriptAcquire
  <2>2. CASE l \in live
    <3>1. live' = live
      BY <2>1, <2>2
    <3>2. QED
      BY <1>3, <3>1
  <2>3. QED
    BY <1>3, <1>4, <2>1, <2>2

(***************************************************************************)
(* A Commit that finds its lease is a Settle of the ledger.                *)
(***************************************************************************)
LEMMA LedgerExecCommit ==
  ASSUME TypeOK, NEW l \in Lease, ExecCommit(l)
  PROVE  (\E q \in Quota : Ledger!Settle(q)) \/ UNCHANGED Ledger!vars
<1> DEFINE a == req[l].amount
           x == actual[l]
<1>0. PICK p \in Quota : p = req[l].q
  BY DEF TypeOK
<1>1. a \in Nat /\ a <= MaxAmount /\ x \in Nat
  BY ConstantsAssumption DEF TypeOK
<1>2. UNCHANGED <<req, uncovered>>
  BY DEF ExecCommit
<1>3. CASE l \notin live
  <2>1. UNCHANGED <<used, live, uncovered, excess>>
    BY <1>2, <1>3 DEF ExecCommit, ScriptCommit
  <2>2. QED
    BY <1>2, <2>1, LedgerStutter
<1>4. CASE l \in live
  <2>1. /\ {l} \in SUBSET live /\ EndLeases({l})
        /\ used' = [used EXCEPT ![p] = @ + x]
        /\ excess' = [excess EXCEPT ![p] = @ + Minus(x, a)]
    BY <1>0, <1>4 DEF ExecCommit, ScriptCommit
  <2>2. ASSUME NEW q \in Quota
        PROVE  /\ Reserved(live, q)' = Reserved(live, q) - IF q = p THEN a ELSE 0
               /\ (IF q = p THEN a ELSE 0) <= Reserved(live, q)
               /\ Reserved(live, q) \in Nat
    <3>1. /\ Reserved({l}, q) <= Reserved(live, q)
          /\ Reserved(live, q)' = Reserved(live, q) - Reserved({l}, q)
      BY <1>2, <2>1, EndLeasesEffect
    <3>2. Reserved({l}, q) = IF p = q THEN a ELSE 0
      BY <1>0, <1>1, ReservedOne
    <3>3. QED
      BY <3>1, <3>2, CounterTypes
  <2>3. /\ used'[p] = used[p] + x /\ excess'[p] = excess[p] + Minus(x, a)
        /\ used' = [used EXCEPT ![p] = used'[p]]
        /\ \A q \in Quota \ {p} : excess'[q] = excess[q]
    BY <1>1, <2>1 DEF TypeOK
  <2>4. \A q \in Quota \ {p} : Reserved(live, q)' = Reserved(live, q)
    BY <2>2
  <2>5. /\ Reserved(live, p)' = Reserved(live, p) - a /\ a <= Reserved(live, p)
        /\ Reserved(live, p) \in Nat
    BY <1>1, <2>2
  <2>6. Minus(x, a) = IF x > a THEN x - a ELSE 0
    BY DEF Minus
  <2>7. \A q \in Quota : uncovered'[q] = uncovered[q]
    BY <1>2
  <2>8. /\ used[p] \in Nat /\ excess[p] \in Nat /\ uncovered[p] \in Nat
    BY <1>1, CounterTypes
  <2>9. /\ used'[p] - used[p] = x
        /\ Reserved(live, p) - Reserved(live, p)' = a
        /\ excess'[p] + uncovered'[p] =
             (excess[p] + uncovered[p]) + IF x > a THEN x - a ELSE 0
    BY <1>1, <2>3, <2>5, <2>6, <2>7, <2>8
  <2>10. Ledger!Settle(p)
    <3>1. used'[p] - used[p] >= 0 /\ Reserved(live, p) - Reserved(live, p)' >= 0
          /\ Reserved(live, p)' >= 0
      BY <1>1, <2>5, <2>9
    <3>2. [q \in Quota |-> Reserved(live, q)'] =
             [[q \in Quota |-> Reserved(live, q)] EXCEPT ![p] = Reserved(live, p)']
      BY <1>1, <2>4
    <3>3. [q \in Quota |-> excess'[q] + uncovered'[q]] =
             [[q \in Quota |-> excess[q] + uncovered[q]] EXCEPT
                ![p] = @ + IF x > a THEN x - a ELSE 0]
      BY <1>1, <2>3, <2>7, <2>9
    <3>4. QED
      BY <1>1, <2>3, <2>9, <3>1, <3>2, <3>3 DEF Ledger!Settle
  <2>11. QED
    BY <1>1, <2>10
<1>5. QED
  BY <1>3, <1>4
(***************************************************************************)
(* A late booking is a Settle that returns nothing.                        *)
(***************************************************************************)
LEMMA LedgerExecOrphan ==
  ASSUME TypeOK, NEW l \in Lease, ExecOrphan(l)
  PROVE  \E q \in Quota : Ledger!Settle(q)
<1> DEFINE x == actual[l]
<1>1. PICK p \in Quota : p = req[l].q
  BY DEF TypeOK
<1>2. x \in Nat
  BY ConstantsAssumption DEF TypeOK
<1>3. UNCHANGED <<req, live, uncovered>>
  BY DEF ExecOrphan
<1>4. \A q \in Quota : /\ Reserved(live, q)' = Reserved(live, q)
                       /\ Reserved(live, q) \in Nat
                       /\ uncovered'[q] = uncovered[q]
  BY <1>3, ReservedAfter, CounterTypes
<1>5. /\ used'[p] = used[p] + x /\ excess'[p] = excess[p] + x
      /\ used' = [used EXCEPT ![p] = used'[p]]
      /\ \A q \in Quota \ {p} : excess'[q] = excess[q]
  BY <1>1 DEF ExecOrphan, TypeOK
<1>6. used[p] \in Nat /\ excess[p] \in Nat /\ uncovered[p] \in Nat
  BY CounterTypes
<1>7. /\ used'[p] - used[p] = x
      /\ Reserved(live, p) - Reserved(live, p)' = 0
      /\ Reserved(live, p)' >= 0
      /\ excess'[p] + uncovered'[p] =
           (excess[p] + uncovered[p]) + IF x > 0 THEN x - 0 ELSE 0
  BY <1>2, <1>4, <1>5, <1>6
<1>8. [q \in Quota |-> Reserved(live, q)'] =
         [[q \in Quota |-> Reserved(live, q)] EXCEPT ![p] = Reserved(live, p)']
  BY <1>4
<1>9. [q \in Quota |-> excess'[q] + uncovered'[q]] =
         [[q \in Quota |-> excess[q] + uncovered[q]] EXCEPT
            ![p] = @ + IF x > 0 THEN x - 0 ELSE 0]
  BY <1>4, <1>5, <1>7
<1>10. Ledger!Settle(p)
  <2>1. used'[p] - used[p] >= 0 /\ Reserved(live, p) - Reserved(live, p)' >= 0
        /\ Reserved(live, p)' >= 0
    BY <1>2, <1>7
  <2>2. QED
    BY <1>5, <1>7, <1>8, <1>9, <2>1 DEF Ledger!Settle
<1>11. QED
  BY <1>10

(***************************************************************************)
(* A reconciliation forgets at most what is held.                          *)
(***************************************************************************)
LEMMA LedgerReconcile ==
  ASSUME TypeOK, Reconcile
  PROVE  Ledger!Repair
<1>1. UNCHANGED <<used, live, req, excess>>
  BY DEF Reconcile
<1>2. ASSUME NEW q \in Quota
      PROVE  /\ Reserved(live, q)' = Reserved(live, q)
             /\ excess'[q] = excess[q] /\ uncovered'[q] \in Nat
             /\ uncovered'[q] >= uncovered[q]
             /\ uncovered'[q] <= uncovered[q] + Reserved(live, q)
  <2>1. Reserved(live, q)' = Reserved(live, q)
    BY <1>1, ReservedAfter
  <2>2. PICK e \in Nat : e = Reserved(Unexpired(now), q)
    BY UnitsFinite DEF TypeOK, Unexpired
  <2>3. \/ uncovered'[q] = Larger(uncovered[q], Minus(Reserved(live, q), e))
        \/ uncovered'[q] = uncovered[q]
    BY <2>2 DEF Reconcile
  <2>4. Minus(Reserved(live, q), e) \in Nat
        /\ Minus(Reserved(live, q), e) <= Reserved(live, q)
    BY CounterTypes, MinusType
  <2>5. uncovered'[q] \in Nat /\ uncovered'[q] >= uncovered[q]
        /\ uncovered'[q] <= uncovered[q] + Reserved(live, q)
    BY <2>3, <2>4, CounterTypes DEF Larger
  <2>6. QED
    BY <1>1, <2>1, <2>5
<1>3. \A q \in Quota : excess[q] \in Nat /\ uncovered[q] \in Nat
  BY CounterTypes
<1>4. [q \in Quota |-> Reserved(live, q)'] = [q \in Quota |-> Reserved(live, q)]
  BY <1>2
<1>5. [q \in Quota |-> excess'[q] + uncovered'[q]] \in [Quota -> Nat]
  BY <1>2, <1>3
<1>6. \A q \in Quota :
        /\ excess'[q] + uncovered'[q] >= excess[q] + uncovered[q]
        /\ excess'[q] + uncovered'[q]
             <= (excess[q] + uncovered[q]) + Reserved(live, q)
  BY <1>2, <1>3, CounterTypes
<1>7. QED
  BY <1>1, <1>4, <1>5, <1>6 DEF Ledger!Repair, Ledger!MayForget

(***************************************************************************)
(* A refresh reset is a Refresh of the ledger.                             *)
(***************************************************************************)
LEMMA LedgerMarkRefreshed ==
  ASSUME TypeOK, NEW b \in Bucket, MarkRefreshed(b)
  PROVE  \E q \in Quota : Ledger!Refresh(q)
<1>1. PICK p \in Quota : p = <<b, QuotaDay(now)>>
  BY QuotaOfInstant DEF TypeOK
<1>2. UNCHANGED <<live, req, excess>> /\ used' = [used EXCEPT ![p] = 0]
  BY <1>1 DEF MarkRefreshed
<1>3. ASSUME NEW q \in Quota
      PROVE  /\ Reserved(live, q)' = Reserved(live, q)
             /\ excess'[q] = excess[q] /\ uncovered'[q] \in Nat
             /\ uncovered'[q] >= uncovered[q]
             /\ uncovered'[q] <= uncovered[q] + Reserved(live, q)
  <2>1. Reserved(live, q)' = Reserved(live, q)
    BY <1>2, ReservedAfter
  <2>2. \/ uncovered'[q] = Larger(uncovered[q], Reserved(live, q))
        \/ uncovered'[q] = uncovered[q]
    BY <1>1 DEF MarkRefreshed, TypeOK
  <2>3. QED
    BY <1>2, <2>1, <2>2, CounterTypes DEF Larger
<1>4. \A q \in Quota : excess[q] \in Nat /\ uncovered[q] \in Nat
  BY CounterTypes
<1>5. [q \in Quota |-> Reserved(live, q)'] = [q \in Quota |-> Reserved(live, q)]
  BY <1>3
<1>6. [q \in Quota |-> excess'[q] + uncovered'[q]] \in [Quota -> Nat]
  BY <1>3, <1>4
<1>7. \A q \in Quota :
        /\ excess'[q] + uncovered'[q] >= excess[q] + uncovered[q]
        /\ excess'[q] + uncovered'[q]
             <= (excess[q] + uncovered[q]) + Reserved(live, q)
  BY <1>3, <1>4, CounterTypes
<1>8. Ledger!Refresh(p)
  BY <1>2, <1>5, <1>6, <1>7 DEF Ledger!Refresh, Ledger!MayForget
<1>9. QED
  BY <1>8

(***************************************************************************)
(* Every step of the detailed authority is a step of the ledger or a       *)
(* stutter.                                                                *)
(***************************************************************************)
LEMMA LedgerNext ==
  ASSUME TypeOK, Counters, [Next]_vars
  PROVE  [Ledger!Next]_(Ledger!vars)
<1>1. ASSUME NEW l \in Lease, Attempt(l) PROVE [Ledger!Next]_(Ledger!vars)
  <2>1. ASSUME NEW b \in Bucket, NEW a \in 1 .. MaxAmount, BeginAcquire(l, b, a)
        PROVE  UNCHANGED Ledger!vars
    <3>1. l \notin live
      BY <2>1 DEF Counters, LiveStarted, BeginAcquire
    <3>2. \A m \in live : req'[m] = req[m]
      BY <2>1, <3>1 DEF BeginAcquire, TypeOK
    <3>3. QED
      BY <2>1, <3>2, LedgerStutter DEF BeginAcquire, history
  <2>2. ASSUME \/ Resend(l) \/ AcquireReply(l) \/ CommitReply(l) \/ Abandon(l)
               \/ \E x \in 0 .. MaxActual : BeginCommit(l, x)
        PROVE  UNCHANGED Ledger!vars
    <3>1. UNCHANGED <<redis, req, history>>
      BY <2>2 DEF Resend, AcquireReply, CommitReply, Abandon, BeginCommit
    <3>2. QED
      BY <3>1, LedgerStutter DEF redis, history
  <2>3. ASSUME Release(l) PROVE Ledger!Drop
    BY <2>3, LedgerDrop DEF Release, history
  <2>4. QED
    BY <1>1, <2>1, <2>2, <2>3, LedgerExecAcquire, LedgerExecCommit,
       LedgerExecOrphan DEF Attempt, Ledger!Next
<1>2. CASE ReapToday
  <2>1. PICK S \in ReapBatches(QuotaDay(now), now) : EndLeases(S)
    BY <1>2 DEF ReapToday
  <2>2. S \in SUBSET live
    BY DEF ReapBatches, Expired
  <2>3. Ledger!Drop
    BY <1>2, <2>1, <2>2, LedgerDrop DEF ReapToday, history
  <2>4. QED
    BY <2>3 DEF Ledger!Next
<1>3. CASE ReapYesterday
  <2>1. PICK S \in ReapBatches(QuotaDay(reapAt) - 1, reapAt) : EndLeases(S)
    BY <1>3 DEF ReapYesterday
  <2>2. S \in SUBSET live
    BY DEF ReapBatches, Expired
  <2>3. Ledger!Drop
    BY <1>3, <2>1, <2>2, LedgerDrop DEF ReapYesterday, history
  <2>4. QED
    BY <2>3 DEF Ledger!Next
<1>4. CASE ReapError \/ Tick \/ UNCHANGED vars
  <2>1. UNCHANGED <<used, live, req, uncovered, excess>>
    BY <1>4 DEF ReapError, Tick, vars, redis, history
  <2>2. QED
    BY <2>1, LedgerStutter
<1>5. QED
  BY <1>1, <1>2, <1>3, <1>4, LedgerReconcile, LedgerMarkRefreshed
     DEF Next, Ledger!Next

(***************************************************************************)
(* The initial state maps to the initial state of the ledger.              *)
(***************************************************************************)
LEMMA LedgerInit == Init => Ledger!Init
<1>1. SUFFICES ASSUME Init PROVE Ledger!Init
  OBVIOUS
<1>2. \A q \in Quota : Reserved(live, q) = 0
  BY <1>1, FS_EmptySet DEF Init, Reserved, Units
<1>3. QED
  BY <1>1, <1>2 DEF Init, Ledger!Init

(***************************************************************************)
(* The authority implements the ledger, for every number of buckets,       *)
(* attempts, days and resent commands.                                     *)
(***************************************************************************)
THEOREM LedgerImplemented == Spec => ImplementsLedger
<1>1. Init => Ledger!Init
  BY LedgerInit
<1>2. TypeOK /\ Counters /\ [Next]_vars => [Ledger!Next]_(Ledger!vars)
  BY LedgerNext
<1>3. QED
  BY <1>1, <1>2, CountersCorrect, PTL DEF Spec, ImplementsLedger, Ledger!Spec
=============================================================================
