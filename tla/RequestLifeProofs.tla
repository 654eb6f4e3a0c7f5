------------------------- MODULE RequestLifeProofs -------------------------
(***************************************************************************)
(* Proofs about RequestLife, for every set of requests, every time to live *)
(* and every size of the bucket, the queue and the batch.                  *)
(***************************************************************************)
EXTENDS RequestLife, FiniteSetTheorems, TLAPS

-----------------------------------------------------------------------------
(* The inductive invariant.                                                *)

Busy == {r \in Request : req[r].pc \in Inside}
Owing == {r \in Request : req[r].pc \in {"refund", "record", "send"}}

(* The gate counts the requests inside; once it has reported that nobody   *)
(* is left it is closed and the count is zero, and so it stays.            *)
GateCounts ==
  /\ IsFiniteSet(Busy) /\ gate.inFlight = Cardinality(Busy)
  /\ gate.closing <=> life # "serve"
  /\ life \in {"serve", "server"} => gate.drained = "none"
  /\ gate.drained = "closed" => gate.closing /\ gate.inFlight = 0
  /\ life \in {"store", "channel", "writer", "gone"} /\ ~past.cut
       => gate.drained = "closed"

(* The loop of the writer flushes a full batch; when the channel is closed *)
(* and drained it ends, with nothing left.                                 *)
WriterState ==
  /\ pipe.pc = "run" => pipe.buf < Batch
  /\ pipe.pc \in {"last", "ended"} => pipe.shut = "channel" /\ pipe.queue = 0
  /\ pipe.pc = "ended" => pipe.buf = 0
  /\ pipe.shut # "no" => life \in {"channel", "writer", "gone"}

(* Whoever is counted as executed still has its record before it, or the   *)
(* record is in the queue, in the batch or accounted for.                  *)
RecordsAccounted ==
  /\ IsFiniteSet(Owing)
  /\ past.cut \/ past.ran = pipe.written + pipe.failed + pipe.dropped
                            + pipe.queue + pipe.buf + Cardinality(Owing)
  /\ life = "gone" /\ ~past.cut => pipe.pc = "ended"

(* There is at most one lookup; it is that of the request the cache names. *)
LookupOwned ==
  /\ call # None => req[call].pc \in {"fetch", "close", "keep"}
  /\ \A r \in Request :
       /\ req[r].pc \in {"fetch", "close", "keep"} => call = r
       /\ req[r].pc \in {"close", "keep"} => req[r].got # None
  /\ WaitersHaveOwner

(* What lookups know and what the cache holds is not newer than it may be. *)
LookupFresh ==
  /\ active <=> past.revokedAt = None
  /\ past.revokedAt # None => past.revokedAt <= now
  /\ entry # None => entry <= now + TTL
  /\ \A r \in Request : req[r].began <= now
  /\ \A r \in Request : /\ req[r].pc \in {"close", "keep"} /\ req[r].got = "ok"
                        /\ past.revokedAt # None
                        => req[r].began <= past.revokedAt
  /\ HitFresh

(* After the cache was cleared without a lookup at hand, no lookup and no  *)
(* late waiter has a success.                                              *)
Revoked ==
  /\ op # "idle" => ~active
  /\ past.late => op = "done"
  /\ \A r \in Request : req[r].late => op = "done"
  /\ op = "done" /\ ~past.raced => \A r \in Request :
       /\ req[r].pc \in {"close", "keep"} => req[r].got # "ok"
       /\ req[r].pc = "wait" /\ req[r].late => req[r].got # "ok"
  /\ RevocationHolds

(* What the bucket holds and what it gave out were in it at the start, or  *)
(* flowed in until it was last counted.                                    *)
BucketCovers ==
  \/ bucket = None /\ past.net <= past.unpaid
  \/ /\ bucket # None /\ bucket.at <= now
     /\ \E n \in Estimate \cup {Capacity} :
          bucket.tokens + past.net <= CapacityFor(n) + Rate * bucket.at + past.unpaid

IInv == /\ TypeOK /\ GateCounts /\ WriterState /\ RecordsAccounted
        /\ LookupOwned /\ LookupFresh /\ Revoked /\ BucketCovers

-----------------------------------------------------------------------------
(* Types.                                                                  *)

LEMMA AssumedNumbers ==
  /\ TTL \in Nat \ {0} /\ Estimate \subseteq Nat \ {0} /\ Capacity \in Nat \ {0}
  /\ Rate \in Nat /\ QueueSize \in Nat \ {0} /\ Batch \in Nat \ {0}
  /\ MaxFaults \in Nat /\ MaxTime \in Nat
  /\ None \notin Nat /\ None \notin Request /\ None \notin {"ok", "no", "error"}
  /\ None \notin [tokens : Nat, at : Nat]
BY LifeAssumption DEF LifeAssumption

LEMMA GotoTyped ==
  ASSUME req \in [Request -> RequestType], NEW r \in Request,
         NEW pc \in Inside \cup {"new", "refused", "done"}, Goto(r, pc)
  PROVE  req' \in [Request -> RequestType]
<1>1. NewRequest \in RequestType
  BY AssumedNumbers DEF NewRequest, RequestType, Outcome
<1> DEFINE q == [NewRequest EXCEPT !.pc = pc]
<1>2. q \in RequestType
  BY <1>1 DEF RequestType, NewRequest
<1> HIDE DEF q
<1>3. req' = [req EXCEPT ![r] = q]
  BY DEF Goto, q
<1> QED
  BY <1>2, <1>3

LEMMA FilledIsNat ==
  ASSUME TypeOK, BucketCovers, NEW need \in Estimate
  PROVE  Filled(need) \in Nat /\ CapacityFor(need) \in Nat
<1>1. CapacityFor(need) \in Nat
  BY AssumedNumbers DEF CapacityFor
<1>2. CASE bucket = None
  BY <1>1, <1>2 DEF Filled
<1>3. CASE bucket # None
  <2>1. bucket.tokens \in Nat /\ now - bucket.at \in Nat
    BY <1>3 DEF BucketCovers, TypeOK
  <2>2. (now - bucket.at) * Rate \in Nat
    BY <2>1, AssumedNumbers
  <2> QED
    BY <1>1, <1>3, <2>1, <2>2 DEF Filled
<1> QED
  BY <1>2, <1>3

\* A request that is inside is counted.
LEMMA BusyCounted ==
  ASSUME TypeOK, GateCounts, NEW r \in Busy
  PROVE  gate.inFlight \in Nat \ {0}
<1>1. Cardinality(Busy) \in Nat /\ Busy # {}
  BY FS_CardinalityType DEF GateCounts
<1> QED
  BY <1>1, FS_EmptySet DEF GateCounts

\* A request record with other contents.
LEMMA RequestWith ==
  ASSUME NEW q \in RequestType, NEW pc \in Inside
  PROVE  /\ \A t \in 0 .. MaxTime, b \in BOOLEAN :
              [q EXCEPT !.began = t, !.late = b] \in RequestType
         /\ \A n \in Estimate \cup {0} : [q EXCEPT !.pc = pc, !.need = n] \in RequestType
         /\ \A n \in Nat : [q EXCEPT !.pc = pc, !.back = n] \in RequestType
BY DEF RequestType

GateType == [closing : BOOLEAN, inFlight : Nat, drained : {"none", "open", "closed"}]
PipeType ==
  [queue : 0 .. QueueSize, buf : 0 .. Batch, shut : {"no", "flag", "channel"},
   pc : {"run", "flush", "last", "ended"}, written : Nat, failed : Nat, dropped : Nat]
PastType ==
  [revokedAt : 0 .. MaxTime \cup {None}, raced : BOOLEAN, late : BOOLEAN, net : Int,
   unpaid : Nat, ran : Nat, cut : BOOLEAN]

LEMMA SignalledTyped ==
  ASSUME NEW g \in GateType
  PROVE  Signalled(g) \in GateType
BY DEF GateType, Signalled

LEMMA TypeStep ==
  ASSUME IInv, Next
  PROVE  TypeOK'
<1> USE AssumedNumbers DEF IInv, TypeOK
<1>0. /\ gate \in GateType /\ pipe \in PipeType /\ past \in PastType
      /\ req \in [Request -> RequestType]
  BY DEF GateType, PipeType, PastType
<1>1. ASSUME NEW r \in Request, Enter(r) PROVE TypeOK'
  BY <1>1, GotoTyped DEF Enter, Entered, Inside
<1>2. ASSUME NEW r \in Request, Leave(r) PROVE TypeOK'
  <2>1. r \in Busy
    BY <1>2 DEF Leave, Busy, Inside
  <2>2. gate.inFlight - 1 \in Nat
    BY <2>1, BusyCounted
  <2> QED
    <3> DEFINE g == [gate EXCEPT !.inFlight = @ - 1]
    <3>1. g \in GateType
      BY <1>0, <2>2 DEF GateType
    <3>2. gate' = Signalled(g)
      BY <1>2 DEF Leave
    <3> HIDE DEF g
    <3>3. gate' \in GateType
      BY <3>1, <3>2, SignalledTyped
    <3>4. req' \in [Request -> RequestType]
      BY <1>2, GotoTyped DEF Leave, Inside
    <3> QED
      BY <1>2, <3>3, <3>4 DEF Leave, GateType
<1>3. ASSUME NEW r \in Request, Authenticate(r) PROVE TypeOK'
  <2> DEFINE q == [req[r] EXCEPT !.began = now, !.late = (op = "done")]
  <2>1. q \in RequestType
    <3>1. req[r] \in RequestType /\ now \in 0 .. MaxTime /\ "auth" \in Inside
      BY <1>0 DEF Inside
    <3>2. \A t \in 0 .. MaxTime, b \in BOOLEAN :
            [req[r] EXCEPT !.began = t, !.late = b] \in RequestType
      BY <3>1, RequestWith
    <3> DEFINE b == (op = "done")
    <3>3. b \in BOOLEAN
      OBVIOUS
    <3> HIDE DEF b
    <3>4. [req[r] EXCEPT !.began = now, !.late = b] \in RequestType
      BY <3>1, <3>2, <3>3
    <3> QED
      BY <3>4 DEF b
  <2>2. CASE Proceed(r, "ok") /\ Admit(q, "ok") /\ UNCHANGED call
    <3>1. req' \in [Request -> RequestType]
      BY <2>2, GotoTyped DEF Proceed, Inside
    <3>2. q.late \in BOOLEAN
      BY <2>1 DEF RequestType
    <3> HIDE DEF q
    <3> QED
      BY <1>3, <2>2, <3>1, <3>2 DEF Authenticate, Admit
  <2>3. CASE /\ call # None /\ UNCHANGED <<call, past>>
             /\ req' = [req EXCEPT ![r] = [q EXCEPT !.pc = "wait", !.on = call,
                          !.got = IF req[call].pc = "keep" THEN req[call].got ELSE None]]
    <3> DEFINE p == [q EXCEPT !.pc = "wait", !.on = call,
                      !.got = IF req[call].pc = "keep" THEN req[call].got ELSE None]
    <3>1. (IF req[call].pc = "keep" THEN req[call].got ELSE None) \in Outcome
      BY <2>3 DEF RequestType, Outcome
    <3> HIDE DEF q
    <3>2. p \in RequestType
      BY <2>1, <2>3, <3>1 DEF RequestType, Inside
    <3> HIDE DEF p
    <3>3. req' = [req EXCEPT ![r] = p]
      BY <2>3 DEF p
    <3> QED
      BY <1>3, <2>3, <3>2, <3>3 DEF Authenticate
  <2>4. CASE /\ call' = r /\ UNCHANGED past
             /\ req' = [req EXCEPT ![r] = [q EXCEPT !.pc = "fetch"]]
    <3> HIDE DEF q
    <3>1. [q EXCEPT !.pc = "fetch"] \in RequestType
      BY <2>1 DEF RequestType, Inside
    <3> QED
      BY <1>3, <2>4, <3>1 DEF Authenticate
  <2> QED
    BY <1>3, <2>2, <2>3, <2>4 DEF Authenticate
<1>4. ASSUME NEW r \in Request, Fetch(r) PROVE TypeOK'
  BY <1>4 DEF Fetch, Fault, RequestType, Inside, Outcome
<1>5. ASSUME NEW r \in Request, Close(r) PROVE TypeOK'
  BY <1>5 DEF Close, RequestType, Inside, Outcome
<1>6. ASSUME NEW r \in Request, Keep(r) PROVE TypeOK'
  BY <1>6, GotoTyped DEF Keep, Proceed, Admit, Expiry, RequestType, Inside
<1>7. ASSUME NEW r \in Request, Wake(r) PROVE TypeOK'
  BY <1>7, GotoTyped DEF Wake, Proceed, Admit, RequestType, Inside
<1>8. ASSUME NEW r \in Request, Limit(r) PROVE TypeOK'
  <2> PICK need \in Estimate :
         LET t == Filled(need)
             rest == IF t >= need THEN t - need ELSE 0
         IN \/ /\ bucket' = [tokens |-> rest, at |-> now]
               /\ req' = [req EXCEPT ![r].pc = "run", ![r].need = need]
               /\ past' = [past EXCEPT !.net = @ + need] /\ UNCHANGED faults
            \/ /\ bucket' = [tokens |-> t, at |-> now]
               /\ Goto(r, "leave") /\ UNCHANGED <<faults, past>>
            \/ /\ Fault /\ req' = [req EXCEPT ![r].pc = "run", ![r].need = need]
               /\ past' = [past EXCEPT !.net = @ + need, !.unpaid = @ + need]
               /\ UNCHANGED bucket
            \/ Goto(r, "leave") /\ UNCHANGED <<bucket, faults, past>>
    BY <1>8 DEF Limit
  <2>1. need \in Nat /\ Filled(need) \in Nat
    BY FilledIsNat
  <2>2. ASSUME req' = [req EXCEPT ![r].pc = "run", ![r].need = need]
        PROVE  req' \in [Request -> RequestType]
    <3> DEFINE q == [req[r] EXCEPT !.pc = "run", !.need = need]
    <3>1. q \in RequestType
      BY <1>0, RequestWith DEF Inside
    <3>2. req' = [req EXCEPT ![r] = q]
      BY <1>0, <2>2
    <3> HIDE DEF q
    <3> QED
      BY <1>0, <3>1, <3>2
  <2>3. req' \in [Request -> RequestType]
    BY <2>2, GotoTyped DEF Inside
  <2>4. bucket' \in [tokens : Nat, at : 0 .. MaxTime] \cup {None}
    BY <2>1
  <2>5. past' \in PastType
    <3>1. past.net + need \in Int /\ past.unpaid + need \in Nat
      BY <1>0, <2>1 DEF PastType
    <3> QED
      BY <1>0, <3>1 DEF PastType
  <2> QED
    BY <1>8, <2>3, <2>4, <2>5 DEF Limit, Fault, PastType
<1>9. ASSUME NEW r \in Request, Run(r) PROVE TypeOK'
  <2> PICK actual \in 0 .. req[r].need :
         req' = [req EXCEPT ![r].pc = "refund", ![r].back = req[r].need - actual]
    BY <1>9 DEF Run
  <2>1. req[r].need \in Nat
    BY <1>0 DEF RequestType
  <2>2. req[r].need - actual \in Nat
    BY <2>1
  <2>3. req' \in [Request -> RequestType]
    <3> DEFINE q == [req[r] EXCEPT !.pc = "refund", !.back = req[r].need - actual]
    <3>1. q \in RequestType
      BY <1>0, <2>2, RequestWith DEF Inside
    <3>2. req' = [req EXCEPT ![r] = q]
      BY <1>0
    <3> HIDE DEF q
    <3> QED
      BY <1>0, <3>1, <3>2
  <2> QED
    BY <1>9, <2>3 DEF Run
<1>10. ASSUME NEW r \in Request, Refund(r) PROVE TypeOK'
  BY <1>10, GotoTyped DEF Refund, Fault, RequestType, Inside
<1>11. ASSUME NEW r \in Request, Record(r) PROVE TypeOK'
  BY <1>11, GotoTyped DEF Record, Inside
<1>12. ASSUME NEW r \in Request, Send(r) PROVE TypeOK'
  BY <1>12, GotoTyped DEF Send, Inside
<1>13. ASSUME Evict \/ Tick PROVE TypeOK'
  BY <1>13 DEF Evict, Tick
<1>17. ASSUME Clear PROVE TypeOK'
  <2> DEFINE b == \E r \in Request : /\ req[r].pc \in {"close", "keep"}
                                    /\ req[r].got = "ok"
  <2>1. b \in BOOLEAN
    OBVIOUS
  <2>2. past' = [past EXCEPT !.raced = b]
    BY <1>17 DEF Clear
  <2> HIDE DEF b
  <2> QED
    <3>1. past' \in PastType
      BY <1>0, <2>1, <2>2 DEF PastType
    <3>2. entry' = None /\ op' = "done"
      BY <1>17 DEF Clear, Invalidated
    <3>3. UNCHANGED <<now, active, call, req, gate, bucket, pipe, life, faults>>
      BY <1>17 DEF Clear
    <3> QED
      BY <3>1, <3>2, <3>3 DEF PastType
<1>14. ASSUME Revoke PROVE TypeOK'
  <2>1. past' \in PastType
    BY <1>0, <1>14 DEF Revoke, PastType
  <2> QED
    <3>1. active' \in BOOLEAN /\ op' \in {"idle", "clear", "done"}
      BY <1>14 DEF Revoke
    <3>2. UNCHANGED <<now, entry, call, req, gate, bucket, pipe, life, faults>>
      BY <1>14 DEF Revoke
    <3> QED
      BY <2>1, <3>1, <3>2 DEF PastType
<1>15. ASSUME Writer PROVE TypeOK'
  <2>1. CASE Receive
    <3>1. pipe.queue - 1 \in 0 .. QueueSize /\ pipe.buf + 1 \in 0 .. Batch
      BY <2>1 DEF Receive, WriterState
    <3>2. pipe' \in PipeType
      BY <1>0, <2>1, <3>1 DEF Receive, PipeType
    <3> QED
      BY <2>1, <3>2 DEF Receive, PipeType
  <2>2. CASE Turn
    <3>1. pipe' \in PipeType
      BY <1>0, <2>2 DEF Turn, AtEnd, PipeType
    <3> QED
      BY <2>2, <3>1 DEF Turn, PipeType
  <2>3. CASE Flush
    <3> DEFINE pc == IF pipe.pc = "last" THEN "ended" ELSE "run"
    <3>1. \/ pipe' = [pipe EXCEPT !.buf = 0, !.pc = pc, !.written = @ + pipe.buf]
          \/ pipe' = [pipe EXCEPT !.buf = 0, !.pc = pc, !.failed = @ + pipe.buf]
      BY <1>0, <2>3 DEF Flush, PipeType
    <3>2. pc \in {"ended", "run"} /\ 0 \in 0 .. Batch /\ pipe.buf \in Nat
      BY <1>0 DEF PipeType
    <3> HIDE DEF pc
    <3> DEFINE w == pipe.written + pipe.buf
    <3> DEFINE f == pipe.failed + pipe.buf
    <3>3. w \in Nat /\ f \in Nat
      BY <1>0 DEF PipeType
    <3>4. \/ pipe' = [pipe EXCEPT !.buf = 0, !.pc = pc, !.written = w]
          \/ pipe' = [pipe EXCEPT !.buf = 0, !.pc = pc, !.failed = f]
      BY <3>1
    <3> HIDE DEF w, f
    <3>5. CASE pipe' = [pipe EXCEPT !.buf = 0, !.pc = pc, !.written = w]
      <4>1. pipe' \in PipeType
        <5> DEFINE a == [pipe EXCEPT !.buf = 0]
        <5>1. a \in PipeType
          BY <1>0, <3>2 DEF PipeType
        <5> HIDE DEF a
        <5> DEFINE b == [a EXCEPT !.pc = pc]
        <5>2. b \in PipeType
          BY <3>2, <5>1 DEF PipeType
        <5> HIDE DEF b
        <5>3. [b EXCEPT !.written = w] \in PipeType
          BY <3>3, <5>2 DEF PipeType
        <5>4. pipe' = [b EXCEPT !.written = w]
          BY <3>5 DEF a, b
        <5> QED
          BY <5>3, <5>4
      <4> QED
        BY <2>3, <4>1 DEF Flush, Fault, PipeType
    <3>6. CASE pipe' = [pipe EXCEPT !.buf = 0, !.pc = pc, !.failed = f]
      <4>1. pipe' \in PipeType
        <5> DEFINE a == [pipe EXCEPT !.buf = 0]
        <5>1. a \in PipeType
          BY <1>0, <3>2 DEF PipeType
        <5> HIDE DEF a
        <5> DEFINE b == [a EXCEPT !.pc = pc]
        <5>2. b \in PipeType
          BY <3>2, <5>1 DEF PipeType
        <5> HIDE DEF b
        <5>3. [b EXCEPT !.failed = f] \in PipeType
          BY <3>3, <5>2 DEF PipeType
        <5>4. pipe' = [b EXCEPT !.failed = f]
          BY <3>6 DEF a, b
        <5> QED
          BY <5>3, <5>4
      <4> QED
        BY <2>3, <4>1 DEF Flush, Fault, PipeType
    <3> QED
      BY <3>4, <3>5, <3>6
  <2> QED
    BY <1>15, <2>1, <2>2, <2>3 DEF Writer
<1>16. ASSUME Shutdown PROVE TypeOK'
  <2>1. CASE CloseGate \/ CloseServer
    <3> DEFINE g == IF life = "serve" THEN [gate EXCEPT !.closing = TRUE]
                    ELSE [gate EXCEPT !.drained = "open"]
    <3>1. g \in GateType
      BY <1>0 DEF GateType
    <3>2. gate' = Signalled(g)
      BY <2>1 DEF CloseGate, CloseServer
    <3> HIDE DEF g
    <3>3. gate' \in GateType
      BY <3>1, <3>2, SignalledTyped
    <3> QED
      BY <2>1, <3>3 DEF CloseGate, CloseServer, Main, GateType
  <2>2. CASE Drain \/ AwaitWriter
    <3>1. past' \in PastType
      <4>1. \E b \in BOOLEAN : past' = [past EXCEPT !.cut = past.cut \/ b]
        BY <2>2 DEF Drain, AwaitWriter, Cut
      <4>2. PICK b \in BOOLEAN : past' = [past EXCEPT !.cut = b]
        BY <4>1
      <4> QED
        BY <1>0, <4>2 DEF PastType
    <3> QED
      BY <2>2, <3>1 DEF Drain, AwaitWriter, Main, PastType
  <2>3. CASE CloseStore \/ CloseChannel
    BY <2>3 DEF CloseStore, CloseChannel, Main
  <2> QED
    BY <1>16, <2>1, <2>2, <2>3 DEF Shutdown
<1> HIDE DEF IInv, TypeOK
<1>18. ASSUME NEW r \in Request, Handle(r) PROVE TypeOK'
  BY <1>1, <1>2, <1>3, <1>4, <1>5, <1>6, <1>7, <1>8, <1>9, <1>10, <1>11, <1>12, <1>18
     DEF Handle
<1> QED
  BY <1>13, <1>14, <1>15, <1>16, <1>17, <1>18 DEF Next

-----------------------------------------------------------------------------
(* The gate.                                                               *)

\* What a request does between the gate's two ends.
Inner(r) == \/ Authenticate(r) \/ Fetch(r) \/ Close(r) \/ Keep(r) \/ Wake(r)
            \/ Limit(r) \/ Run(r) \/ Refund(r) \/ Record(r) \/ Send(r)

LEMMA InnerStaysInside ==
  ASSUME TypeOK, NEW r \in Request, Inner(r)
  PROVE  /\ \A q \in Request : req'[q].pc \in Inside <=> req[q].pc \in Inside
         /\ UNCHANGED <<gate, life>> /\ past'.cut = past.cut
<1>0. req \in [Request -> RequestType] /\ past \in PastType
  BY DEF TypeOK, PastType
<1>1. CASE Authenticate(r)
  <2> DEFINE q == [req[r] EXCEPT !.began = now, !.late = (op = "done")]
  <2>1. q.pc = req[r].pc /\ req[r].pc = "auth"
    BY <1>0, <1>1 DEF Authenticate, RequestType
  <2>2. \E p : req' = [req EXCEPT ![r] = p] /\ p.pc \in Inside
    <3>1. CASE Proceed(r, "ok")
      <4>1. req' = [req EXCEPT ![r] = [NewRequest EXCEPT !.pc = "limit"]]
        BY <3>1 DEF Proceed, Goto
      <4>2. [NewRequest EXCEPT !.pc = "limit"].pc \in Inside
        BY DEF NewRequest, Inside
      <4> QED
        BY <4>1, <4>2
    <3>2. CASE req' = [req EXCEPT ![r] = [q EXCEPT !.pc = "wait", !.on = call,
                         !.got = IF req[call].pc = "keep" THEN req[call].got ELSE None]]
      <4> DEFINE p == [q EXCEPT !.pc = "wait", !.on = call,
                         !.got = IF req[call].pc = "keep" THEN req[call].got ELSE None]
      <4>1. p.pc = "wait"
        BY <1>0 DEF RequestType
      <4> HIDE DEF p
      <4>2. req' = [req EXCEPT ![r] = p]
        BY <3>2 DEF p
      <4> QED
        BY <4>1, <4>2 DEF Inside
    <3>3. CASE req' = [req EXCEPT ![r] = [q EXCEPT !.pc = "fetch"]]
      <4>1. [q EXCEPT !.pc = "fetch"].pc = "fetch"
        BY <1>0 DEF RequestType
      <4> QED
        BY <3>3, <4>1 DEF Inside
    <3> QED
      BY <1>1, <3>1, <3>2, <3>3 DEF Authenticate
  <2>3. \A p \in Request : req'[p].pc \in Inside <=> req[p].pc \in Inside
    BY <1>0, <2>1, <2>2 DEF Inside
  <2>4. past'.cut = past.cut
    BY <1>0, <1>1 DEF Authenticate, Admit, PastType
  <2> QED
    BY <1>1, <2>3, <2>4 DEF Authenticate
<1>2. CASE Fetch(r)
  BY <1>0, <1>2 DEF Fetch, RequestType, Inside
<1>3. CASE Close(r)
  BY <1>0, <1>3 DEF Close, RequestType, Inside
<1>4. CASE Keep(r) \/ Wake(r)
  BY <1>0, <1>4 DEF Keep, Wake, Proceed, Admit, Goto, NewRequest, Inside, PastType
<1>5. CASE Limit(r)
  <2>1. \/ \E need \in Estimate : req' = [req EXCEPT ![r].pc = "run", ![r].need = need]
        \/ Goto(r, "leave")
    BY <1>5 DEF Limit
  <2>2. \A q \in Request : req'[q].pc \in Inside <=> req[q].pc \in Inside
    BY <1>0, <1>5, <2>1 DEF Limit, Goto, NewRequest, RequestType, Inside
  <2>3. past'.cut = past.cut
    BY <1>0, <1>5 DEF Limit, PastType
  <2> QED
    BY <1>5, <2>2, <2>3 DEF Limit
<1>6. CASE Run(r)
  <2>1. \E b : req' = [req EXCEPT ![r].pc = "refund", ![r].back = b]
    BY <1>6 DEF Run
  <2>2. \A q \in Request : req'[q].pc \in Inside <=> req[q].pc \in Inside
    BY <1>0, <1>6, <2>1 DEF Run, RequestType, Inside
  <2> QED
    BY <1>0, <1>6, <2>2 DEF Run, PastType
<1>7. CASE Refund(r)
  BY <1>0, <1>7 DEF Refund, Goto, NewRequest, Inside, PastType
<1>8. CASE Record(r) \/ Send(r)
  BY <1>0, <1>8 DEF Record, Send, Goto, NewRequest, Inside
<1> QED
  BY <1>1, <1>2, <1>3, <1>4, <1>5, <1>6, <1>7, <1>8 DEF Inner

LEMMA GateKept ==
  ASSUME GateCounts, \A q \in Request : req'[q].pc \in Inside <=> req[q].pc \in Inside,
         UNCHANGED <<gate, life>>, past'.cut = past.cut
  PROVE  GateCounts'
<1>1. Busy' = Busy
  BY DEF Busy
<1> QED
  BY <1>1 DEF GateCounts

LEMMA GateStep ==
  ASSUME IInv, Next
  PROVE  GateCounts'
<1>0. /\ req \in [Request -> RequestType] /\ past \in PastType /\ gate \in GateType
      /\ GateCounts /\ TypeOK /\ Cardinality(Busy) \in Nat
  BY FS_CardinalityType DEF IInv, TypeOK, PastType, GateType, GateCounts
<1>1. ASSUME NEW r \in Request, Inner(r) PROVE GateCounts'
  BY <1>0, <1>1, InnerStaysInside, GateKept
<1>2. ASSUME NEW r \in Request, Enter(r) PROVE GateCounts'
  <2>1. CASE MayEnter
    <3>1. Busy' = Busy \cup {r} /\ r \notin Busy
      BY <1>0, <1>2, <2>1 DEF Enter, Goto, NewRequest, Busy, Inside
    <3>2. IsFiniteSet(Busy') /\ Cardinality(Busy') = Cardinality(Busy) + 1
      BY <1>0, <3>1, FS_AddElement DEF GateCounts
    <3>3. gate' = [gate EXCEPT !.inFlight = @ + 1] /\ ~gate.closing
      BY <1>2, <2>1 DEF Enter, Entered, MayEnter
    <3>4. UNCHANGED <<life, past>>
      BY <1>2 DEF Enter
    <3> QED
      BY <1>0, <3>2, <3>3, <3>4 DEF GateCounts, GateType
  <2>2. CASE ~MayEnter
    <3>1. \A q \in Request : req'[q].pc \in Inside <=> req[q].pc \in Inside
      BY <1>0, <1>2, <2>2 DEF Enter, Goto, NewRequest, Inside
    <3> QED
      BY <1>0, <1>2, <2>2, <3>1, GateKept DEF Enter
  <2> QED
    BY <2>1, <2>2
<1>3. ASSUME NEW r \in Request, Leave(r) PROVE GateCounts'
  <2>1. Busy' = Busy \ {r} /\ r \in Busy
    BY <1>0, <1>3 DEF Leave, Goto, NewRequest, Busy, Inside
  <2>2. IsFiniteSet(Busy') /\ Cardinality(Busy') = Cardinality(Busy) - 1
    BY <1>0, <2>1, FS_RemoveElement DEF GateCounts
  <2>3. gate.inFlight \in Nat \ {0}
    BY <1>0, <2>1, BusyCounted
  <2> DEFINE g == [gate EXCEPT !.inFlight = @ - 1]
  <2>4. gate' = Signalled(g) /\ UNCHANGED <<life, past>>
    BY <1>3 DEF Leave
  <2>5. /\ g \in GateType /\ g.closing = gate.closing /\ g.drained = gate.drained
        /\ g.inFlight = gate.inFlight - 1
    BY <1>0, <2>3 DEF GateType
  <2> HIDE DEF g
  <2>6. /\ gate'.closing = gate.closing /\ gate'.inFlight = gate.inFlight - 1
        /\ \/ gate'.drained = gate.drained
           \/ gate'.drained = "closed" /\ gate.drained = "open" /\ gate.closing
              /\ gate'.inFlight = 0
    BY <2>4, <2>5 DEF Signalled, GateType
  <2> QED
    BY <1>0, <2>2, <2>3, <2>4, <2>6 DEF GateCounts
<1>4. ASSUME Evict \/ Revoke \/ Clear \/ Tick PROVE GateCounts'
  <2>1. UNCHANGED <<req, gate, life>> /\ past'.cut = past.cut
    BY <1>0, <1>4 DEF Evict, Revoke, Clear, Tick, PastType
  <2> QED
    BY <1>0, <2>1, GateKept
<1>5. ASSUME Writer PROVE GateCounts'
  <2>1. UNCHANGED <<req, gate, life, past>>
    BY <1>5 DEF Writer, Receive, Turn, Flush
  <2> QED
    BY <1>0, <2>1, GateKept
<1>6. ASSUME Shutdown PROVE GateCounts'
  <2>1. Busy' = Busy
    BY <1>6 DEF Shutdown, CloseGate, CloseServer, Drain, CloseStore, CloseChannel,
         AwaitWriter, Main, Busy
  <2>2. CASE CloseGate
    BY <1>0, <2>1, <2>2 DEF CloseGate, Main, Signalled, GateCounts, GateType
  <2>3. CASE CloseServer
    BY <1>0, <2>1, <2>3 DEF CloseServer, Main, Signalled, GateCounts, GateType
  <2>4. CASE Drain
    BY <1>0, <2>1, <2>4 DEF Drain, Main, Cut, GateCounts, GateType, PastType
  <2>5. CASE CloseStore \/ CloseChannel
    BY <1>0, <2>1, <2>5 DEF CloseStore, CloseChannel, Main, GateCounts
  <2>6. CASE AwaitWriter
    BY <1>0, <2>1, <2>6 DEF AwaitWriter, Main, Cut, GateCounts, PastType
  <2> QED
    BY <1>6, <2>2, <2>3, <2>4, <2>5, <2>6 DEF Shutdown
<1>7. ASSUME NEW r \in Request, Handle(r) PROVE GateCounts'
  BY <1>1, <1>2, <1>3, <1>7 DEF Handle, Inner
<1> QED
  BY <1>4, <1>5, <1>6, <1>7 DEF Next

LEMMA NobodyInside ==
  ASSUME GateCounts
  PROVE  DrainedMeansEmpty
<1> SUFFICES ASSUME \/ gate.drained = "closed"
                    \/ life \in {"store", "channel", "writer", "gone"} /\ ~past.cut,
                    NEW r \in Request, req[r].pc \in Inside
             PROVE  FALSE
  BY DEF DrainedMeansEmpty
<1>1. Cardinality(Busy) = 0 /\ IsFiniteSet(Busy)
  BY DEF GateCounts
<1>2. Busy = {}
  BY <1>1, FS_EmptySet
<1> QED
  BY <1>2 DEF Busy

-----------------------------------------------------------------------------
(* The writer and the records.                                             *)

LEMMA WriterStep ==
  ASSUME IInv, Next
  PROVE  WriterState'
<1>0. /\ pipe \in PipeType /\ past \in PastType /\ WriterState
      /\ life \in {"serve", "server", "drain", "store", "channel", "writer", "gone"}
  BY DEF IInv, TypeOK, PipeType, PastType
<1>1. ASSUME UNCHANGED <<pipe, life>> PROVE WriterState'
  BY <1>0, <1>1 DEF WriterState
<1>2. ASSUME NEW r \in Request, Handle(r), UNCHANGED pipe PROVE WriterState'
  <2>1. UNCHANGED life
    BY <1>2 DEF Handle, Enter, Authenticate, Fetch, Close, Keep, Wake, Limit, Run, Refund,
         Record, Send, Leave
  <2> QED
    BY <1>1, <1>2, <2>1
<1>3. ASSUME NEW r \in Request, Send(r) PROVE WriterState'
  BY <1>0, <1>3 DEF Send, WriterState, PipeType
<1>4. ASSUME NEW r \in Request, Handle(r) PROVE WriterState'
  <2>1. Send(r) \/ UNCHANGED pipe
    BY <1>4 DEF Handle, Enter, Authenticate, Fetch, Close, Keep, Wake, Limit, Run, Refund,
         Record, Leave
  <2> QED
    BY <1>2, <1>3, <1>4, <2>1
<1>5. ASSUME Evict \/ Revoke \/ Clear \/ Tick PROVE WriterState'
  BY <1>1, <1>5 DEF Evict, Revoke, Clear, Tick
<1>6. ASSUME Receive PROVE WriterState'
  BY <1>0, <1>6, AssumedNumbers DEF Receive, WriterState, PipeType
<1>7. ASSUME Turn PROVE WriterState'
  BY <1>0, <1>7 DEF Turn, AtEnd, WriterState, PipeType
<1>8. ASSUME Flush PROVE WriterState'
  <2> DEFINE pc == IF pipe.pc = "last" THEN "ended" ELSE "run"
  <2>1. \/ pipe' = [pipe EXCEPT !.buf = 0, !.pc = pc, !.written = @ + pipe.buf]
        \/ pipe' = [pipe EXCEPT !.buf = 0, !.pc = pc, !.failed = @ + pipe.buf]
    BY <1>0, <1>8 DEF Flush, PipeType
  <2>2. /\ pipe'.buf = 0 /\ pipe'.pc = pc /\ pipe'.shut = pipe.shut
        /\ pipe'.queue = pipe.queue
    BY <1>0, <2>1 DEF PipeType
  <2>3. life' = life
    BY <1>8 DEF Flush
  <2> QED
    BY <1>0, <1>8, <2>2, <2>3, AssumedNumbers DEF Flush, WriterState, PipeType
<1>9. ASSUME Shutdown PROVE WriterState'
  BY <1>0, <1>9 DEF Shutdown, CloseGate, CloseServer, Drain, CloseStore, CloseChannel,
       AwaitWriter, Main, WriterState, PipeType
<1> QED
  BY <1>4, <1>5, <1>6, <1>7, <1>8, <1>9 DEF Next, Writer

LEMMA OwingBusy ==
  ASSUME GateCounts
  PROVE  /\ Owing \subseteq Busy
         /\ \/ gate.drained = "closed"
            \/ life \in {"store", "channel", "writer", "gone"} /\ ~past.cut
            => Owing = {}
<1>1. Owing \subseteq Busy
  BY DEF Owing, Busy, Inside
<1> QED
  BY <1>1, NobodyInside DEF DrainedMeansEmpty, Owing, Inside

LEMMA AccountKept ==
  ASSUME RecordsAccounted, UNCHANGED <<pipe, life>>, past'.cut = past.cut,
         past'.ran = past.ran, Owing' = Owing
  PROVE  RecordsAccounted'
BY DEF RecordsAccounted

\* What neither executes a request nor handles its record.
Elsewhere(r) == \/ Enter(r) \/ Leave(r) \/ Authenticate(r) \/ Fetch(r) \/ Close(r)
                \/ Keep(r) \/ Wake(r) \/ Limit(r) \/ Refund(r)

LEMMA ElsewhereOwing ==
  ASSUME TypeOK, NEW r \in Request, Elsewhere(r)
  PROVE  /\ UNCHANGED <<pipe, life>> /\ past'.cut = past.cut /\ past'.ran = past.ran
         /\ Owing' = Owing
<1>0. req \in [Request -> RequestType] /\ past \in PastType
  BY DEF TypeOK, PastType
<1>1. UNCHANGED <<pipe, life>>
  BY DEF Elsewhere, Enter, Leave, Authenticate, Fetch, Close, Keep, Wake, Limit, Refund
<1>2. past'.cut = past.cut /\ past'.ran = past.ran
  <2>1. CASE Authenticate(r)
    <3>1. past' = past \/ \E b : past' = [past EXCEPT !.late = b]
      BY <2>1 DEF Authenticate, Admit
    <3> QED
      BY <1>0, <3>1 DEF PastType
  <2>2. CASE Keep(r) \/ Wake(r)
    BY <1>0, <2>2 DEF Keep, Wake, Admit, PastType
  <2>3. CASE Limit(r)
    BY <1>0, <2>3 DEF Limit, PastType
  <2>4. CASE Refund(r)
    BY <1>0, <2>4 DEF Refund, PastType
  <2>5. CASE Enter(r) \/ Leave(r) \/ Fetch(r) \/ Close(r)
    BY <2>5 DEF Enter, Leave, Fetch, Close
  <2> QED
    BY <2>1, <2>2, <2>3, <2>4, <2>5 DEF Elsewhere
<1> DEFINE O == {"refund", "record", "send"}
<1> SUFFICES \A q \in Request : req'[q].pc \in O <=> req[q].pc \in O
  BY <1>1, <1>2 DEF Owing
<1>12. CASE Refund(r)
  BY <1>0, <1>12 DEF Refund, Goto, NewRequest
<1>6. CASE Enter(r) \/ Leave(r)
  BY <1>0, <1>6 DEF Enter, Leave, Goto, NewRequest
<1>7. CASE Authenticate(r)
  <2> DEFINE q == [req[r] EXCEPT !.began = now, !.late = (op = "done")]
  <2>1. req[r].pc = "auth"
    BY <1>7 DEF Authenticate
  <2>2. CASE Proceed(r, "ok")
    BY <1>0, <2>1, <2>2 DEF Proceed, Goto, NewRequest
  <2>3. CASE req' = [req EXCEPT ![r] = [q EXCEPT !.pc = "wait", !.on = call,
                       !.got = IF req[call].pc = "keep" THEN req[call].got ELSE None]]
    <3> DEFINE p == [q EXCEPT !.pc = "wait", !.on = call,
                       !.got = IF req[call].pc = "keep" THEN req[call].got ELSE None]
    <3>1. p.pc = "wait"
      BY <1>0 DEF RequestType
    <3> HIDE DEF p
    <3>2. req' = [req EXCEPT ![r] = p]
      BY <2>3 DEF p
    <3> QED
      BY <1>0, <2>1, <3>1, <3>2
  <2>4. CASE req' = [req EXCEPT ![r] = [q EXCEPT !.pc = "fetch"]]
    <3>1. [q EXCEPT !.pc = "fetch"].pc = "fetch"
      BY <1>0 DEF RequestType
    <3> QED
      BY <1>0, <2>1, <2>4, <3>1
  <2> QED
    BY <1>7, <2>2, <2>3, <2>4 DEF Authenticate
<1>8. CASE Fetch(r)
  BY <1>0, <1>8 DEF Fetch, RequestType
<1>9. CASE Close(r)
  BY <1>0, <1>9 DEF Close, RequestType
<1>10. CASE Keep(r) \/ Wake(r)
  <2>1. \E got : Proceed(r, got)
    BY <1>10 DEF Keep, Wake
  <2>2. \E pc \in {"limit", "leave"} : Goto(r, pc)
    BY <2>1 DEF Proceed
  <2> QED
    BY <1>0, <1>10, <2>2 DEF Keep, Wake, Goto, NewRequest
<1>11. CASE Limit(r)
  <2>1. \/ \E need \in Estimate : req' = [req EXCEPT ![r].pc = "run", ![r].need = need]
        \/ Goto(r, "leave")
    BY <1>11 DEF Limit
  <2>2. CASE Goto(r, "leave")
    BY <1>0, <1>11, <2>2 DEF Limit, Goto, NewRequest
  <2>3. CASE \E need \in Estimate : req' = [req EXCEPT ![r].pc = "run", ![r].need = need]
    <3>1. req[r].pc = "limit"
      BY <1>11 DEF Limit
    <3> QED
      BY <1>0, <2>3, <3>1 DEF RequestType
  <2> QED
    BY <2>1, <2>2, <2>3
<1> QED
  BY <1>6, <1>7, <1>8, <1>9, <1>10, <1>11, <1>12 DEF Elsewhere

LEMMA RecordsStep ==
  ASSUME IInv, Next
  PROVE  RecordsAccounted'
<1>0. /\ req \in [Request -> RequestType] /\ past \in PastType /\ pipe \in PipeType
      /\ TypeOK /\ GateCounts /\ WriterState /\ RecordsAccounted
      /\ Cardinality(Owing) \in Nat /\ life # "gone"
  BY FS_CardinalityType DEF IInv, TypeOK, PastType, PipeType, RecordsAccounted, Next
<1>1. ASSUME NEW r \in Request, Elsewhere(r) PROVE RecordsAccounted'
  BY <1>0, <1>1, ElsewhereOwing, AccountKept
<1>2. ASSUME NEW r \in Request, Run(r) PROVE RecordsAccounted'
  <2>1. Owing' = Owing \cup {r} /\ r \notin Owing
    BY <1>0, <1>2 DEF Run, Owing, RequestType
  <2>2. IsFiniteSet(Owing') /\ Cardinality(Owing') = Cardinality(Owing) + 1
    BY <1>0, <2>1, FS_AddElement DEF RecordsAccounted
  <2>3. past'.ran = past.ran + 1 /\ past'.cut = past.cut /\ UNCHANGED <<pipe, life>>
    BY <1>0, <1>2 DEF Run, PastType
  <2> QED
    BY <1>0, <2>2, <2>3 DEF RecordsAccounted, PipeType, PastType
\* While a wait of the shutdown has not been cut short, nobody comes late.
<1>3. ASSUME NEW r \in Owing, ~past.cut PROVE pipe.shut = "no"
  BY <1>0, <1>3, OwingBusy DEF WriterState, PipeType
<1>4. ASSUME NEW r \in Request, Record(r) PROVE RecordsAccounted'
  <2>1. r \in Owing /\ UNCHANGED <<pipe, life, past>>
    BY <1>4 DEF Record, Owing
  <2>2. CASE pipe.shut = "no"
    <3>1. Owing' = Owing
      BY <1>0, <1>4, <2>2 DEF Record, Goto, NewRequest, Owing
    <3> QED
      BY <1>0, <2>1, <3>1, AccountKept
  <2>3. CASE pipe.shut # "no"
    <3>1. past.cut
      BY <1>3, <2>1, <2>3
    <3>2. Owing' = Owing \ {r}
      BY <1>0, <1>4, <2>1, <2>3 DEF Record, Goto, NewRequest, Owing
    <3>3. IsFiniteSet(Owing')
      BY <1>0, <2>1, <3>2, FS_RemoveElement DEF RecordsAccounted
    <3> QED
      BY <1>0, <2>1, <3>1, <3>3 DEF RecordsAccounted
  <2> QED
    BY <2>2, <2>3
<1>5. ASSUME NEW r \in Request, Send(r) PROVE RecordsAccounted'
  <2>1. r \in Owing /\ UNCHANGED <<life, past>>
    BY <1>5 DEF Send, Owing
  <2>2. Owing' = Owing \ {r}
    BY <1>0, <1>5, <2>1 DEF Send, Goto, NewRequest, Owing
  <2>3. IsFiniteSet(Owing') /\ Cardinality(Owing') = Cardinality(Owing) - 1
    BY <1>0, <2>1, <2>2, FS_RemoveElement DEF RecordsAccounted
  <2>4. CASE past.cut
    BY <1>0, <2>1, <2>3, <2>4 DEF RecordsAccounted
  <2>5. CASE ~past.cut
    <3>1. \/ pipe' = [pipe EXCEPT !.queue = @ + 1]
          \/ pipe' = [pipe EXCEPT !.dropped = @ + 1]
      BY <1>3, <1>5, <2>1, <2>5 DEF Send
    <3> QED
      BY <1>0, <2>1, <2>3, <2>5, <3>1 DEF RecordsAccounted, PipeType, PastType
  <2> QED
    BY <2>4, <2>5
<1>6. ASSUME Evict \/ Revoke \/ Clear \/ Tick PROVE RecordsAccounted'
  <2>1. UNCHANGED <<req, pipe, life>> /\ past'.cut = past.cut /\ past'.ran = past.ran
    BY <1>0, <1>6 DEF Evict, Revoke, Clear, Tick, PastType
  <2>2. Owing' = Owing
    BY <2>1 DEF Owing
  <2> QED
    BY <1>0, <2>1, <2>2, AccountKept
<1>7. ASSUME Writer PROVE RecordsAccounted'
  <2>1. UNCHANGED <<req, life, past>>
    BY <1>7 DEF Writer, Receive, Turn, Flush
  <2>2. Owing' = Owing
    BY <2>1 DEF Owing
  <2>3. CASE Receive
    BY <1>0, <2>1, <2>2, <2>3 DEF Receive, RecordsAccounted, PipeType, PastType
  <2>4. CASE Turn
    BY <1>0, <2>1, <2>2, <2>4 DEF Turn, RecordsAccounted, PipeType, PastType
  <2>5. CASE Flush
    <3> DEFINE pc == IF pipe.pc = "last" THEN "ended" ELSE "run"
    <3>1. \/ pipe' = [pipe EXCEPT !.buf = 0, !.pc = pc, !.written = @ + pipe.buf]
          \/ pipe' = [pipe EXCEPT !.buf = 0, !.pc = pc, !.failed = @ + pipe.buf]
      BY <1>0, <2>5 DEF Flush, PipeType
    <3> HIDE DEF pc
    <3>2. /\ pipe'.buf = 0 /\ pipe'.queue = pipe.queue /\ pipe'.dropped = pipe.dropped
          /\ \/ /\ pipe'.written = pipe.written + pipe.buf
                /\ pipe'.failed = pipe.failed
             \/ /\ pipe'.written = pipe.written
                /\ pipe'.failed = pipe.failed + pipe.buf
      BY <1>0, <3>1 DEF PipeType
    <3> QED
      BY <1>0, <2>1, <2>2, <3>2 DEF RecordsAccounted, PipeType, PastType
  <2> QED
    BY <1>7, <2>3, <2>4, <2>5 DEF Writer
<1>8. ASSUME Shutdown PROVE RecordsAccounted'
  <2>1. Owing' = Owing
    BY <1>8 DEF Shutdown, CloseGate, CloseServer, Drain, CloseStore, CloseChannel,
         AwaitWriter, Main, Owing
  <2>2. CASE CloseGate \/ CloseServer
    BY <1>0, <2>1, <2>2 DEF CloseGate, CloseServer, Main, RecordsAccounted
  <2>3. CASE CloseStore \/ CloseChannel
    BY <1>0, <2>1, <2>3 DEF CloseStore, CloseChannel, Main, RecordsAccounted, PipeType
  <2>4. CASE Drain \/ AwaitWriter
    <3>1. UNCHANGED pipe /\ past'.ran = past.ran /\ (past.cut => past'.cut)
      BY <1>0, <2>4 DEF Drain, AwaitWriter, Cut, PastType
    <3>2. life' = "gone" /\ ~past'.cut => pipe.pc = "ended"
      BY <1>0, <2>4 DEF Drain, AwaitWriter, Main, Cut, PastType
    <3> QED
      BY <1>0, <2>1, <3>1, <3>2 DEF RecordsAccounted
  <2> QED
    BY <1>8, <2>2, <2>3, <2>4 DEF Shutdown
<1>9. ASSUME NEW r \in Request, Handle(r) PROVE RecordsAccounted'
  BY <1>1, <1>2, <1>4, <1>5, <1>9 DEF Handle, Elsewhere
<1> QED
  BY <1>6, <1>7, <1>8, <1>9 DEF Next

LEMMA NothingForgotten ==
  ASSUME TypeOK, GateCounts, WriterState, RecordsAccounted
  PROVE  CleanExit
<1> SUFFICES ASSUME life = "gone", ~past.cut
             PROVE  past.ran = pipe.written + pipe.failed + pipe.dropped
  BY DEF CleanExit
<1>1. Owing = {}
  BY OwingBusy
<1>2. Cardinality(Owing) = 0
  BY <1>1, FS_EmptySet
<1>3. pipe.queue = 0 /\ pipe.buf = 0
  BY DEF WriterState, RecordsAccounted
<1> QED
  BY <1>2, <1>3 DEF RecordsAccounted, TypeOK

-----------------------------------------------------------------------------
(* The lookups.                                                            *)

Looking == {"fetch", "close", "keep"}

\* What neither makes nor serves a lookup.
Apart(r) == \/ Enter(r) \/ Leave(r) \/ Wake(r) \/ Limit(r) \/ Run(r) \/ Refund(r)
            \/ Record(r) \/ Send(r)

\* A step of r away from the lookups: nobody else is moved.
Away(r) ==
  /\ req[r].pc \notin Looking /\ req'[r].pc \notin Looking \cup {"wait"}
  /\ req'[r].began \in {0, req[r].began} /\ req'[r].late \in {FALSE, req[r].late}
  /\ \A q \in Request : q # r => req'[q] = req[q]

LEMMA GotoAway ==
  ASSUME req \in [Request -> RequestType], NEW r \in Request, NEW pc, Goto(r, pc),
         req[r].pc \notin Looking, pc \notin Looking \cup {"wait"}
  PROVE  Away(r)
BY DEF Goto, NewRequest, Away

LEMMA ProceedAway ==
  ASSUME req \in [Request -> RequestType], NEW r \in Request, NEW got, Proceed(r, got),
         req[r].pc \notin Looking
  PROVE  Away(r)
<1>1. \E pc \in {"limit", "leave"} : Goto(r, pc)
  BY DEF Proceed
<1> QED
  BY <1>1, GotoAway DEF Looking

LEMMA ApartAway ==
  ASSUME TypeOK, NEW r \in Request, Apart(r)
  PROVE  /\ Away(r) /\ UNCHANGED <<now, active, op, entry, call>>
         /\ past'.revokedAt = past.revokedAt /\ past'.raced = past.raced
<1>0. req \in [Request -> RequestType] /\ past \in PastType
  BY DEF TypeOK, PastType
<1>1. UNCHANGED <<now, active, op, entry, call>>
  BY DEF Apart, Enter, Leave, Wake, Limit, Run, Refund, Record, Send
<1>2. past'.revokedAt = past.revokedAt /\ past'.raced = past.raced
  <2>1. CASE Wake(r)
    BY <1>0, <2>1 DEF Wake, Admit, PastType
  <2>2. CASE Limit(r)
    BY <1>0, <2>2 DEF Limit, PastType
  <2>3. CASE Run(r) \/ Refund(r)
    BY <1>0, <2>3 DEF Run, Refund, PastType
  <2>4. CASE Enter(r) \/ Leave(r) \/ Record(r) \/ Send(r)
    BY <2>4 DEF Enter, Leave, Record, Send
  <2> QED
    BY <2>1, <2>2, <2>3, <2>4 DEF Apart
<1>3. CASE Enter(r)
  BY <1>0, <1>3, GotoAway DEF Enter, Looking
<1>4. CASE Leave(r)
  BY <1>0, <1>4, GotoAway DEF Leave, Looking
<1>5. CASE Wake(r)
  <2>1. req[r].pc \notin Looking /\ \E got : Proceed(r, got)
    BY <1>5 DEF Wake, Looking
  <2> QED
    BY <1>0, <1>1, <1>2, <2>1, ProceedAway
<1>6. CASE Limit(r)
  <2>1. req[r].pc = "limit"
    BY <1>6 DEF Limit
  <2>2. \/ \E need \in Estimate : req' = [req EXCEPT ![r].pc = "run", ![r].need = need]
        \/ Goto(r, "leave")
    BY <1>6 DEF Limit
  <2>3. CASE Goto(r, "leave")
    <3>1. req[r].pc \notin Looking /\ "leave" \notin Looking \cup {"wait"}
      BY <2>1 DEF Looking
    <3> QED
      BY <1>0, <1>1, <1>2, <2>3, <3>1, GotoAway
  <2>4. CASE \E need \in Estimate : req' = [req EXCEPT ![r].pc = "run", ![r].need = need]
    <3> PICK need \in Estimate : req' = [req EXCEPT ![r].pc = "run", ![r].need = need]
      BY <2>4
    <3> DEFINE p == [req[r] EXCEPT !.pc = "run", !.need = need]
    <3>1. p.pc = "run" /\ p.began = req[r].began /\ p.late = req[r].late
      BY <1>0 DEF RequestType
    <3>2. req' = [req EXCEPT ![r] = p]
      BY <1>0
    <3> HIDE DEF p
    <3> QED
      BY <1>0, <1>1, <1>2, <2>1, <3>1, <3>2 DEF Looking, Away
  <2> QED
    BY <2>2, <2>3, <2>4
<1>7. CASE Run(r)
  BY <1>0, <1>7 DEF Run, Looking, Away, RequestType
<1>8. CASE Refund(r)
  <2>1. Goto(r, "record") /\ req[r].pc = "refund"
    BY <1>8 DEF Refund
  <2>2. req[r].pc \notin Looking /\ "record" \notin Looking \cup {"wait"}
    BY <2>1 DEF Looking
  <2> QED
    BY <1>0, <1>1, <1>2, <2>1, <2>2, GotoAway
<1>9. CASE Record(r)
  BY <1>0, <1>9, GotoAway DEF Record, Looking
<1>10. CASE Send(r)
  BY <1>0, <1>10, GotoAway DEF Send, Looking
<1> QED
  BY <1>1, <1>2, <1>3, <1>4, <1>5, <1>6, <1>7, <1>8, <1>9, <1>10 DEF Apart

\* The three ways of authenticating.
AuthHit(r) == /\ Hit /\ UNCHANGED call /\ Away(r) /\ past'.late \in BOOLEAN
              /\ past'.late => past.late \/ op = "done"
AuthWait(r) ==
  /\ ~Hit /\ call # None /\ UNCHANGED <<call, past>>
  /\ req'[r].pc = "wait" /\ req'[r].on = call
  /\ req'[r].got = IF req[call].pc = "keep" THEN req[call].got ELSE None
AuthFetch(r) == ~Hit /\ call = None /\ call' = r /\ UNCHANGED past /\ req'[r].pc = "fetch"

LEMMA AuthWays ==
  ASSUME TypeOK, NEW r \in Request, Authenticate(r)
  PROVE  /\ req[r].pc = "auth" /\ UNCHANGED <<now, active, op, entry>>
         /\ past'.revokedAt = past.revokedAt /\ past'.raced = past.raced
         /\ \A q \in Request : q # r => req'[q] = req[q]
         /\ AuthHit(r) \/ /\ AuthWait(r) \/ AuthFetch(r)
                          /\ req'[r].began = now
                          /\ req'[r].late => op = "done"
<1> DEFINE q == [req[r] EXCEPT !.began = now, !.late = (op = "done")]
<1>0. /\ req \in [Request -> RequestType] /\ past \in PastType /\ req[r].pc = "auth"
      /\ UNCHANGED <<now, active, op, entry>>
  BY DEF TypeOK, PastType, Authenticate
<1>1. q.began = now /\ (q.late <=> op = "done") /\ q \in RequestType
  <2> DEFINE b == (op = "done")
  <2>1. b \in BOOLEAN /\ now \in 0 .. MaxTime /\ "auth" \in Inside
    BY DEF TypeOK, Inside
  <2>2. (b <=> op = "done") /\ q = [req[r] EXCEPT !.began = now, !.late = b]
    OBVIOUS
  <2>3. [req[r] EXCEPT !.began = now, !.late = b] \in RequestType
    BY <1>0, <2>1, RequestWith
  <2> HIDE DEF b
  <2> QED
    BY <1>0, <2>1, <2>2, <2>3 DEF RequestType
<1>2. CASE Hit /\ Proceed(r, "ok") /\ Admit(q, "ok") /\ UNCHANGED call
  <2>1. Away(r)
    BY <1>0, <1>2, ProceedAway DEF Looking
  <2> DEFINE b == past.late \/ (q.late /\ "ok" = "ok")
  <2>2. b \in BOOLEAN /\ (b => past.late \/ op = "done")
    BY <1>1
  <2>3. past' = [past EXCEPT !.late = b]
    BY <1>2 DEF Admit
  <2> HIDE DEF b
  <2>4. /\ past'.revokedAt = past.revokedAt /\ past'.raced = past.raced
        /\ past'.late = b
    BY <1>0, <2>3 DEF PastType
  <2> QED
    BY <1>0, <1>2, <2>1, <2>2, <2>4 DEF AuthHit, Away
<1>3. CASE /\ ~Hit /\ call # None /\ UNCHANGED <<call, past>>
           /\ req' = [req EXCEPT ![r] = [q EXCEPT !.pc = "wait", !.on = call,
                        !.got = IF req[call].pc = "keep" THEN req[call].got ELSE None]]
  <2> DEFINE p == [q EXCEPT !.pc = "wait", !.on = call,
                     !.got = IF req[call].pc = "keep" THEN req[call].got ELSE None]
  <2>1. req' = [req EXCEPT ![r] = p]
    BY <1>3
  <2> HIDE DEF q
  <2>2. /\ p.pc = "wait" /\ p.on = call /\ p.began = q.began /\ p.late = q.late
        /\ p.got = IF req[call].pc = "keep" THEN req[call].got ELSE None
    BY <1>1 DEF RequestType
  <2> HIDE DEF p
  <2> QED
    BY <1>0, <1>1, <1>3, <2>1, <2>2 DEF AuthWait
<1>4. CASE /\ ~Hit /\ call = None /\ call' = r /\ UNCHANGED past
           /\ req' = [req EXCEPT ![r] = [q EXCEPT !.pc = "fetch"]]
  <2> DEFINE p == [q EXCEPT !.pc = "fetch"]
  <2>1. req' = [req EXCEPT ![r] = p]
    BY <1>4
  <2> HIDE DEF q
  <2>2. p.pc = "fetch" /\ p.began = q.began /\ p.late = q.late
    BY <1>1 DEF RequestType
  <2> HIDE DEF p
  <2> QED
    BY <1>0, <1>1, <1>4, <2>1, <2>2 DEF AuthFetch
<1> QED
  BY <1>2, <1>3, <1>4 DEF Authenticate

\* What is not a handler leaves the lookups and the requests alone.
LEMMA OthersApart ==
  ASSUME TypeOK, Writer \/ Shutdown
  PROVE  /\ UNCHANGED <<now, active, op, entry, call, req, bucket>>
         /\ past'.revokedAt = past.revokedAt /\ past'.raced = past.raced
         /\ past'.late = past.late /\ past'.net = past.net /\ past'.unpaid = past.unpaid
<1>0. past \in PastType
  BY DEF TypeOK, PastType
<1>1. CASE Writer
  BY <1>1 DEF Writer, Receive, Turn, Flush
<1>2. CASE CloseGate \/ CloseServer \/ CloseStore \/ CloseChannel
  BY <1>2 DEF CloseGate, CloseServer, CloseStore, CloseChannel, Main
<1>3. CASE Drain \/ AwaitWriter
  BY <1>0, <1>3 DEF Drain, AwaitWriter, Main, Cut, PastType
<1> QED
  BY <1>1, <1>2, <1>3 DEF Shutdown

LEMMA LookupStep ==
  ASSUME IInv, Next
  PROVE  LookupOwned'
<1>0. /\ req \in [Request -> RequestType] /\ TypeOK /\ LookupOwned
      /\ call \in Request \cup {None} /\ None \notin Request
      /\ \A q \in Request : req[q].on \in Request \cup {None}
  BY AssumedNumbers DEF IInv, TypeOK, RequestType
<1>1. ASSUME NEW r \in Request, Away(r), UNCHANGED call PROVE LookupOwned'
  <2>1. call' # None => req'[call'].pc \in Looking
    BY <1>0, <1>1 DEF LookupOwned, Looking, Away
  <2>2. \A q \in Request : req'[q].pc \in Looking => call' = q
    BY <1>0, <1>1 DEF LookupOwned, Looking, Away
  <2>3. \A q \in Request : req'[q].pc \in {"close", "keep"} => req'[q].got # None
    BY <1>0, <1>1 DEF LookupOwned, Looking, Away
  <2>4. \A q \in Request : req'[q].pc = "wait" /\ req'[q].got = None =>
         req'[q].on # None /\ req'[req'[q].on].pc \in {"fetch", "close"}
    BY <1>0, <1>1 DEF LookupOwned, WaitersHaveOwner, Looking, Away
  <2> QED
    BY <2>1, <2>2, <2>3, <2>4 DEF LookupOwned, WaitersHaveOwner, Looking
<1>2. ASSUME NEW r \in Request, Apart(r) PROVE LookupOwned'
  BY <1>0, <1>1, <1>2, ApartAway
<1>3. ASSUME NEW r \in Request, Authenticate(r) PROVE LookupOwned'
  <2>1. /\ req[r].pc = "auth" /\ \A q \in Request : q # r => req'[q] = req[q]
        /\ AuthHit(r) \/ AuthWait(r) \/ AuthFetch(r)
    BY <1>0, <1>3, AuthWays
  <2>2. CASE AuthHit(r)
    BY <1>1, <2>2 DEF AuthHit
  <2>3. CASE AuthWait(r)
    <3>1. call' # None => req'[call'].pc \in Looking
      BY <1>0, <2>1, <2>3 DEF LookupOwned, Looking, AuthWait
    <3>2. \A q \in Request : req'[q].pc \in Looking => call' = q
      BY <1>0, <2>1, <2>3 DEF LookupOwned, Looking, AuthWait
    <3>3. \A q \in Request : req'[q].pc \in {"close", "keep"} => req'[q].got # None
      BY <1>0, <2>1, <2>3 DEF LookupOwned, Looking, AuthWait
    <3>4. \A q \in Request : req'[q].pc = "wait" /\ req'[q].got = None =>
           req'[q].on # None /\ req'[req'[q].on].pc \in {"fetch", "close"}
      BY <1>0, <2>1, <2>3 DEF LookupOwned, WaitersHaveOwner, Looking, AuthWait
    <3> QED
      BY <3>1, <3>2, <3>3, <3>4 DEF LookupOwned, WaitersHaveOwner, Looking
  <2>4. CASE AuthFetch(r)
    <3>1. call' # None => req'[call'].pc \in Looking
      BY <1>0, <2>1, <2>4 DEF LookupOwned, Looking, AuthFetch
    <3>2. \A q \in Request : req'[q].pc \in Looking => call' = q
      BY <1>0, <2>1, <2>4 DEF LookupOwned, Looking, AuthFetch
    <3>3. \A q \in Request : req'[q].pc \in {"close", "keep"} => req'[q].got # None
      BY <1>0, <2>1, <2>4 DEF LookupOwned, Looking, AuthFetch
    <3>4. \A q \in Request : req'[q].pc = "wait" /\ req'[q].got = None =>
           req'[q].on # None /\ req'[req'[q].on].pc \in {"fetch", "close"}
      BY <1>0, <2>1, <2>4 DEF LookupOwned, WaitersHaveOwner, Looking, AuthFetch
    <3> QED
      BY <3>1, <3>2, <3>3, <3>4 DEF LookupOwned, WaitersHaveOwner, Looking
  <2> QED
    BY <2>1, <2>2, <2>3, <2>4
<1>4. ASSUME NEW r \in Request, Fetch(r) PROVE LookupOwned'
  <2>1. /\ req[r].pc = "fetch" /\ req'[r].pc = "close" /\ req'[r].got # None
        /\ UNCHANGED call /\ \A q \in Request : q # r => req'[q] = req[q]
    BY <1>0, <1>4, AssumedNumbers DEF Fetch, RequestType
  <2> QED
    <3>1. call' # None => req'[call'].pc \in Looking
      BY <1>0, <2>1 DEF LookupOwned, Looking
    <3>2. \A q \in Request : req'[q].pc \in Looking => call' = q
      BY <1>0, <2>1 DEF LookupOwned, Looking
    <3>3. \A q \in Request : req'[q].pc \in {"close", "keep"} => req'[q].got # None
      BY <1>0, <2>1 DEF LookupOwned, Looking
    <3>4. \A q \in Request : req'[q].pc = "wait" /\ req'[q].got = None =>
           req'[q].on # None /\ req'[req'[q].on].pc \in {"fetch", "close"}
      BY <1>0, <2>1 DEF LookupOwned, WaitersHaveOwner, Looking
    <3> QED
      BY <3>1, <3>2, <3>3, <3>4 DEF LookupOwned, WaitersHaveOwner, Looking
<1>5. ASSUME NEW r \in Request, Close(r) PROVE LookupOwned'
  <2>1. /\ req[r].pc = "close" /\ call = r /\ req[r].got # None /\ UNCHANGED call
        /\ req'[r].pc = "keep" /\ req'[r].got = req[r].got
    BY <1>0, <1>5 DEF Close, LookupOwned, RequestType
  <2>2. \A q \in Request : q # r => /\ req'[q].pc = req[q].pc /\ req'[q].on = req[q].on
                                    /\ req[q].pc # "wait" => req'[q] = req[q]
    BY <1>0, <1>5 DEF Close, Woken, RequestType
  <2>3. \A q \in Request : req[q].pc = "wait" /\ req[q].on = r => req'[q].got # None
    BY <1>0, <1>5, <2>1 DEF Close, Woken, RequestType
  <2>4. \A q \in Request : q # r /\ req[q].pc = "wait" /\ req[q].on # r
                           => req'[q] = req[q]
    BY <1>0, <1>5 DEF Close, Woken
  <2>5. \A q \in Request : req[q].pc = "wait" /\ req[q].on # r => req[q].got # None
    BY <1>0, <2>1 DEF LookupOwned, WaitersHaveOwner
  <2>6. \A q \in Request : req'[q].pc = "wait" => req'[q].got # None
    BY <2>1, <2>2, <2>3, <2>4, <2>5
  <2> QED
    <3>1. call' # None => req'[call'].pc \in Looking
      BY <1>0, <2>1, <2>2, <2>6 DEF LookupOwned, Looking
    <3>2. \A q \in Request : req'[q].pc \in Looking => call' = q
      BY <1>0, <2>1, <2>2, <2>6 DEF LookupOwned, Looking
    <3>3. \A q \in Request : req'[q].pc \in {"close", "keep"} => req'[q].got # None
      BY <1>0, <2>1, <2>2, <2>6 DEF LookupOwned, Looking
    <3>4. \A q \in Request : req'[q].pc = "wait" /\ req'[q].got = None =>
           req'[q].on # None /\ req'[req'[q].on].pc \in {"fetch", "close"}
      BY <1>0, <2>1, <2>2, <2>6 DEF LookupOwned, WaitersHaveOwner, Looking
    <3> QED
      BY <3>1, <3>2, <3>3, <3>4 DEF LookupOwned, WaitersHaveOwner, Looking
<1>6. ASSUME NEW r \in Request, Keep(r) PROVE LookupOwned'
  <2>1. req[r].pc = "keep" /\ call = r /\ call' = None
    BY <1>0, <1>6 DEF Keep, LookupOwned
  <2>2. /\ req'[r].pc \in {"limit", "leave"}
        /\ \A q \in Request : q # r => req'[q] = req[q]
    <3>1. \E pc \in {"limit", "leave"} : Goto(r, pc)
      BY <1>6 DEF Keep, Proceed
    <3> QED
      BY <1>0, <3>1 DEF Goto, NewRequest
  <2> QED
    <3>1. call' # None => req'[call'].pc \in Looking
      BY <1>0, <2>1, <2>2 DEF LookupOwned, Looking
    <3>2. \A q \in Request : req'[q].pc \in Looking => call' = q
      BY <1>0, <2>1, <2>2 DEF LookupOwned, Looking
    <3>3. \A q \in Request : req'[q].pc \in {"close", "keep"} => req'[q].got # None
      BY <1>0, <2>1, <2>2 DEF LookupOwned, Looking
    <3>4. \A q \in Request : req'[q].pc = "wait" /\ req'[q].got = None =>
           req'[q].on # None /\ req'[req'[q].on].pc \in {"fetch", "close"}
      BY <1>0, <2>1, <2>2 DEF LookupOwned, WaitersHaveOwner, Looking
    <3> QED
      BY <3>1, <3>2, <3>3, <3>4 DEF LookupOwned, WaitersHaveOwner, Looking
<1>7. ASSUME UNCHANGED <<call, req>> PROVE LookupOwned'
  BY <1>0, <1>7 DEF LookupOwned, WaitersHaveOwner
<1>8. ASSUME Evict \/ Revoke \/ Clear \/ Tick PROVE LookupOwned'
  BY <1>7, <1>8 DEF Evict, Revoke, Clear, Tick
<1>9. ASSUME Writer \/ Shutdown PROVE LookupOwned'
  BY <1>0, <1>7, <1>9, OthersApart
<1>10. ASSUME NEW r \in Request, Handle(r) PROVE LookupOwned'
  BY <1>2, <1>3, <1>4, <1>5, <1>6, <1>10 DEF Handle, Apart
<1> QED
  BY <1>8, <1>9, <1>10 DEF Next

\* The cache is stale no longer than the lookups it is filled by.
LEMMA FreshStep ==
  ASSUME IInv, Next
  PROVE  LookupFresh'
<1>0. /\ req \in [Request -> RequestType] /\ TypeOK /\ LookupFresh /\ LookupOwned
      /\ past \in PastType /\ now \in Nat /\ TTL \in Nat /\ entry \in Nat \cup {None}
      /\ past.revokedAt \in Nat \cup {None} /\ None \notin Nat
      /\ \A q \in Request : req[q].began \in Nat
      /\ None \notin {"ok", "no", "error"}
  BY AssumedNumbers DEF IInv, TypeOK, PastType, RequestType
<1>1. ASSUME NEW r \in Request, UNCHANGED <<now, active, entry>>,
             past'.revokedAt = past.revokedAt,
             \A q \in Request : q # r => req'[q] = req[q],
             req'[r].began \in {0, now, req[r].began},
             req'[r].pc \notin {"close", "keep"}
      PROVE  LookupFresh'
  BY <1>0, <1>1 DEF LookupFresh, HitFresh
<1>2. ASSUME NEW r \in Request, Apart(r) PROVE LookupFresh'
  BY <1>0, <1>1, <1>2, ApartAway DEF Away, Looking
<1>3. ASSUME NEW r \in Request, Authenticate(r) PROVE LookupFresh'
  <2>1. /\ UNCHANGED <<now, active, entry>> /\ past'.revokedAt = past.revokedAt
        /\ \A q \in Request : q # r => req'[q] = req[q]
    BY <1>0, <1>3, AuthWays
  <2>2. /\ req'[r].began \in {0, now, req[r].began}
        /\ req'[r].pc \notin {"close", "keep"}
    BY <1>0, <1>3, AuthWays DEF AuthHit, AuthWait, AuthFetch, Away, Looking
  <2> QED
    BY <1>1, <2>1, <2>2
<1>4. ASSUME NEW r \in Request, Fetch(r) PROVE LookupFresh'
  <2>1. /\ UNCHANGED <<now, active, entry, past>>
        /\ \A q \in Request : q # r => req'[q] = req[q]
    BY <1>0, <1>4 DEF Fetch
  <2>2. req'[r].began = req[r].began /\ (req'[r].got = "ok" => active)
    BY <1>0, <1>4 DEF Fetch, RequestType
  <2> QED
    BY <1>0, <2>1, <2>2 DEF LookupFresh, HitFresh
<1>5. ASSUME NEW r \in Request, Close(r) PROVE LookupFresh'
  <2>1. UNCHANGED <<now, active, entry, past>> /\ req[r].pc = "close"
    BY <1>5 DEF Close
  <2>2. \A q \in Request : req'[q].began = req[q].began
    BY <1>0, <1>5 DEF Close, RequestType
  <2>3. /\ req'[r].got = req[r].got
        /\ \A q \in Request : q # r /\ req'[q].pc \in {"close", "keep"}
                              => req'[q] = req[q]
    BY <1>0, <1>5 DEF Close, Woken, RequestType
  <2> QED
    BY <1>0, <2>1, <2>2, <2>3 DEF LookupFresh, HitFresh
<1>6. ASSUME NEW r \in Request, Keep(r) PROVE LookupFresh'
  <2>1. \E pc \in {"limit", "leave"} : Goto(r, pc)
    BY <1>6 DEF Keep, Proceed
  <2>2. /\ req'[r].began = 0 /\ req'[r].pc \notin {"close", "keep"}
        /\ \A q \in Request : q # r => req'[q] = req[q]
    BY <1>0, <2>1 DEF Goto, NewRequest
  <2>3. past'.revokedAt = past.revokedAt
    BY <1>0, <1>6 DEF Keep, Admit, PastType
  <2>4. /\ UNCHANGED <<now, active>> /\ req[r].pc = "keep"
        /\ \/ entry' = entry
           \/ req[r].got = "ok" /\ entry' = req[r].began + TTL
    <3>1. entry' = IF req[r].got = "ok" THEN req[r].began + TTL ELSE entry
      BY <1>6 DEF Keep, Expiry
    <3> QED
      BY <1>6, <3>1 DEF Keep
  <2>5. CASE entry' = entry
    BY <1>0, <1>1, <2>2, <2>3, <2>4, <2>5
  <2>6. CASE req[r].got = "ok" /\ entry' = req[r].began + TTL
    <3>1. entry' <= now + TTL /\ req[r].began \in Nat
      BY <1>0, <2>6 DEF LookupFresh
    <3>2. past.revokedAt # None => entry' <= past.revokedAt + TTL
      BY <1>0, <2>4, <2>6 DEF LookupFresh
    <3> QED
      BY <1>0, <2>2, <2>3, <2>4, <3>1, <3>2 DEF LookupFresh, HitFresh
  <2> QED
    BY <2>4, <2>5, <2>6
<1>7. ASSUME UNCHANGED <<now, active, req>>, entry' \in {entry, None},
             past'.revokedAt = past.revokedAt
      PROVE  LookupFresh'
  BY <1>0, <1>7 DEF LookupFresh, HitFresh
<1>8. CASE Evict \/ Clear
  BY <1>0, <1>7, <1>8 DEF Evict, Clear, Invalidated, PastType
<1>9. CASE Revoke
  <2>1. past'.revokedAt = now /\ active' = FALSE /\ UNCHANGED <<now, entry, req>>
    BY <1>0, <1>9 DEF Revoke, PastType
  <2> QED
    BY <1>0, <2>1 DEF LookupFresh, HitFresh
<1>10. CASE Tick
  BY <1>0, <1>10 DEF Tick, LookupFresh, HitFresh
<1>11. CASE Writer \/ Shutdown
  BY <1>0, <1>7, <1>11, OthersApart
<1>12. ASSUME NEW r \in Request, Handle(r) PROVE LookupFresh'
  BY <1>2, <1>3, <1>4, <1>5, <1>6, <1>12 DEF Handle, Apart
<1> QED
  BY <1>8, <1>9, <1>10, <1>11, <1>12 DEF Next

LEMMA RevokedStep ==
  ASSUME IInv, Next
  PROVE  Revoked'
<1>0. /\ req \in [Request -> RequestType] /\ TypeOK /\ LookupOwned /\ Revoked
      /\ past \in PastType /\ past.raced \in BOOLEAN /\ None \notin {"ok", "no", "error"}
      /\ call \in Request \cup {None} /\ entry \in Nat \cup {None}
  BY AssumedNumbers DEF IInv, TypeOK, PastType
<1>1. ASSUME NEW r \in Request, UNCHANGED <<active, op, entry>>,
             past'.raced = past.raced, past'.late => past.late \/ op = "done",
             op = "done" /\ ~past.raced => ~past'.late,
             \A q \in Request : q # r => req'[q] = req[q],
             req'[r].late => req[r].late \/ op = "done",
             op = "done" /\ ~past.raced /\ req'[r].pc \in {"close", "keep", "wait"}
               => req'[r].got # "ok"
      PROVE  Revoked'
  BY <1>0, <1>1 DEF Revoked, RevocationHolds
<1>2. ASSUME NEW r \in Request, Apart(r) PROVE Revoked'
  <2>1. /\ UNCHANGED <<active, op, entry>> /\ past'.raced = past.raced /\ Away(r)
    BY <1>0, <1>2, ApartAway
  <2>2. CASE Wake(r)
    <3> PICK got \in {req[r].got, "error"} \ {None} : Admit(req[r], got)
      BY <2>2 DEF Wake
    <3> DEFINE b == past.late \/ (req[r].late /\ got = "ok")
    <3>1. past' = [past EXCEPT !.late = b] /\ req[r].pc = "wait"
      BY <2>2 DEF Admit, Wake
    <3>2. b => past.late \/ (req[r].late /\ req[r].got = "ok")
      OBVIOUS
    <3> HIDE DEF b
    <3>3. past'.late = b
      BY <1>0, <3>1 DEF PastType
    <3>4. b => op = "done"
      BY <1>0, <3>2 DEF Revoked
    <3>5. op = "done" /\ ~past.raced => ~b
      BY <1>0, <3>1, <3>2 DEF Revoked, RevocationHolds
    <3> QED
      BY <1>1, <2>1, <3>3, <3>4, <3>5 DEF Away, Looking
  <2>3. CASE Enter(r) \/ Leave(r) \/ Limit(r) \/ Run(r) \/ Refund(r) \/ Record(r) \/ Send(r)
    <3>1. Limit(r) => past'.late = past.late
      BY <1>0 DEF Limit, PastType
    <3>2. Run(r) \/ Refund(r) => past'.late = past.late
      BY <1>0 DEF Run, Refund, PastType
    <3>3. past'.late = past.late
      BY <1>0, <2>3, <3>1, <3>2 DEF Enter, Leave, Record, Send
    <3>4. op = "done" /\ ~past.raced => ~past.late
      BY <1>0 DEF Revoked, RevocationHolds
    <3> QED
      BY <1>1, <2>1, <3>3, <3>4 DEF Away, Looking
  <2> QED
    BY <1>2, <2>2, <2>3 DEF Apart
<1>3. ASSUME NEW r \in Request, Authenticate(r) PROVE Revoked'
  <2>1. /\ UNCHANGED <<active, op, entry>> /\ past'.raced = past.raced
        /\ \A q \in Request : q # r => req'[q] = req[q]
    BY <1>0, <1>3, AuthWays
  <2>2. CASE AuthHit(r)
    <3>1. op = "done" => past.raced
      BY <1>0, <2>2 DEF AuthHit, Hit, Revoked, RevocationHolds
    <3> QED
      BY <1>1, <2>1, <2>2, <3>1 DEF AuthHit, Away, Looking
  <2>3. CASE AuthWait(r) /\ (req'[r].late => op = "done")
    <3>1. op = "done" /\ ~past.raced => req'[r].got # "ok"
      BY <1>0, <2>3 DEF AuthWait, Revoked
    <3>2. op = "done" /\ ~past.raced => ~past'.late
      BY <1>0, <2>3 DEF AuthWait, Revoked, RevocationHolds
    <3> QED
      BY <1>1, <2>1, <2>3, <3>1, <3>2 DEF AuthWait
  <2>4. CASE AuthFetch(r) /\ (req'[r].late => op = "done")
    <3>1. op = "done" /\ ~past.raced => ~past'.late
      BY <1>0, <2>4 DEF AuthFetch, Revoked, RevocationHolds
    <3> QED
      BY <1>1, <2>1, <2>4, <3>1 DEF AuthFetch
  <2> QED
    BY <1>0, <1>3, <2>2, <2>3, <2>4, AuthWays
<1>4. ASSUME NEW r \in Request, Fetch(r) PROVE Revoked'
  <2>1. /\ UNCHANGED <<active, op, entry, past>>
        /\ \A q \in Request : q # r => req'[q] = req[q]
    BY <1>0, <1>4 DEF Fetch
  <2>2. req'[r].late = req[r].late /\ (req'[r].got = "ok" => active)
    BY <1>0, <1>4 DEF Fetch, RequestType
  <2>3. /\ op = "done" => ~active
        /\ op = "done" /\ ~past.raced => ~past'.late
    BY <1>0, <2>1 DEF Revoked, RevocationHolds
  <2> QED
    BY <1>1, <2>1, <2>2, <2>3
<1>5. ASSUME NEW r \in Request, Close(r) PROVE Revoked'
  <2>1. UNCHANGED <<active, op, entry, past>> /\ req[r].pc = "close"
    BY <1>5 DEF Close
  <2>2. /\ \A q \in Request : q # r => /\ req'[q].late = req[q].late
                                       /\ req'[q].pc = req[q].pc
                                       /\ req'[q].got \in {req[q].got, req[r].got}
        /\ req'[r].late = req[r].late /\ req'[r].pc = "keep" /\ req'[r].got = req[r].got
    <3>1. \A q \in Request : q # r => \/ req'[q] = req[q]
                                      \/ req'[q] = [req[q] EXCEPT !.got = req[r].got]
      BY <1>5 DEF Close
    <3>2. req'[r] = [req[r] EXCEPT !.pc = "keep"]
      BY <1>5 DEF Close
    <3>3. \A q \in Request : q # r => /\ req'[q].pc = req[q].pc
                                      /\ req'[q].got \in {req[q].got, req[r].got}
      BY <1>0, <3>1 DEF RequestType
    <3>4. req'[r].pc = "keep" /\ req'[r].got = req[r].got
      BY <1>0, <3>2 DEF RequestType
    <3>5. \A q \in Request : q # r => req'[q].late = req[q].late
      BY <1>0, <3>1 DEF RequestType
    <3>6. req'[r].late = req[r].late
      BY <1>0, <3>2 DEF RequestType
    <3> QED
      BY <3>3, <3>4, <3>5, <3>6
  <2>3. \A q \in Request : req[q].pc \in {"close", "keep"} => req'[q].got = req[q].got
    BY <1>0, <1>5 DEF Close, Woken, RequestType
  <2>4. op = "done" /\ ~past.raced => req[r].got # "ok"
    BY <1>0, <2>1 DEF Revoked
  <2> QED
    BY <1>0, <2>1, <2>2, <2>3, <2>4 DEF Revoked, RevocationHolds
<1>6. ASSUME NEW r \in Request, Keep(r) PROVE Revoked'
  <2>1. \E pc \in {"limit", "leave"} : Goto(r, pc)
    BY <1>6 DEF Keep, Proceed
  <2>2. /\ ~req'[r].late /\ req'[r].pc \notin {"close", "keep", "wait"}
        /\ \A q \in Request : q # r => req'[q] = req[q]
    BY <1>0, <2>1 DEF Goto, NewRequest
  <2> DEFINE b == past.late \/ (req[r].late /\ req[r].got = "ok")
  <2>3. past' = [past EXCEPT !.late = b] /\ req[r].pc = "keep"
    BY <1>6 DEF Keep, Admit
  <2>4. b => past.late \/ (req[r].late /\ req[r].got = "ok")
    OBVIOUS
  <2> HIDE DEF b
  <2>5. past'.late = b /\ past'.raced = past.raced
    BY <1>0, <2>3 DEF PastType
  <2>6. b => op = "done"
    BY <1>0, <2>4 DEF Revoked
  <2>7. op = "done" /\ ~past.raced => req[r].got # "ok" /\ ~b
    BY <1>0, <2>3, <2>4 DEF Revoked, RevocationHolds
  <2>8. UNCHANGED <<active, op>> /\ (req[r].got # "ok" => entry' = entry)
    BY <1>6 DEF Keep
  <2> QED
    BY <1>0, <2>2, <2>5, <2>6, <2>7, <2>8 DEF Revoked, RevocationHolds
<1>7. ASSUME UNCHANGED <<active, op, req>>, entry' \in {entry, None},
             past'.raced = past.raced, past'.late = past.late
      PROVE  Revoked'
  BY <1>0, <1>7 DEF Revoked, RevocationHolds
<1>8. CASE Evict \/ Tick
  BY <1>7, <1>8 DEF Evict, Tick
<1>9. CASE Revoke
  <2>1. /\ op' = "clear" /\ active' = FALSE /\ past'.late = past.late /\ req' = req
        /\ op = "idle"
    BY <1>0, <1>9 DEF Revoke, PastType
  <2> QED
    BY <1>0, <2>1 DEF Revoked, RevocationHolds
<1>10. CASE Clear
  <2> DEFINE b == \E r \in Request : /\ req[r].pc \in {"close", "keep"}
                                    /\ req[r].got = "ok"
  <2>1. past' = [past EXCEPT !.raced = b]
    BY <1>10 DEF Clear
  <2>2. \A r \in Request : req[r].pc \in {"close", "keep"} /\ req[r].got = "ok" => b
    OBVIOUS
  <2> HIDE DEF b
  <2>3. past'.raced = b /\ past'.late = past.late
    BY <1>0, <2>1 DEF PastType
  <2>4. op = "clear" /\ op' = "done" /\ entry' = None /\ UNCHANGED <<active, req>>
    BY <1>10 DEF Clear, Invalidated
  <2> QED
    BY <1>0, <2>2, <2>3, <2>4 DEF Revoked, RevocationHolds
<1>11. CASE Writer \/ Shutdown
  BY <1>0, <1>7, <1>11, OthersApart
<1>12. ASSUME NEW r \in Request, Handle(r) PROVE Revoked'
  BY <1>2, <1>3, <1>4, <1>5, <1>6, <1>12 DEF Handle, Apart
<1> QED
  BY <1>8, <1>9, <1>10, <1>11, <1>12 DEF Next


-----------------------------------------------------------------------------
(* The bucket.                                                             *)

LEMMA CapacityIsNat ==
  \A n \in Estimate \cup {Capacity} : CapacityFor(n) \in Nat
BY AssumedNumbers DEF CapacityFor

\* What flows in between two times.
LEMMA Flow ==
  ASSUME NEW a \in Nat, NEW b \in Nat, a <= b
  PROVE  /\ Rate * a \in Nat /\ Rate * b \in Nat /\ (b - a) * Rate \in Nat
         /\ Rate * b = Rate * a + (b - a) * Rate
<1>1. Rate \in Nat /\ b - a \in Nat
  BY AssumedNumbers
<1>2. Rate * a \in Nat /\ Rate * b \in Nat /\ (b - a) * Rate \in Nat
  BY <1>1
<1>3. Rate * b = Rate * a + (b - a) * Rate
  BY <1>1
<1> QED
  BY <1>2, <1>3

\* What the bucket holds once it is counted.
LEMMA FilledCovered ==
  ASSUME TypeOK, BucketCovers, NEW need \in Estimate
  PROVE  \E n \in Estimate \cup {Capacity} :
           Filled(need) + past.net <= CapacityFor(n) + Rate * now + past.unpaid
<1>0. past.net \in Int /\ past.unpaid \in Nat /\ now \in Nat /\ Rate \in Nat
  BY AssumedNumbers DEF TypeOK
<1>1. Rate * now \in Nat
  BY <1>0
<1>2. CASE bucket = None
  <2>1. Filled(need) = CapacityFor(need) /\ past.net <= past.unpaid
    BY <1>2 DEF Filled, BucketCovers
  <2> QED
    BY <1>0, <1>1, <2>1, CapacityIsNat
<1>3. CASE bucket # None
  <2>1. bucket.tokens \in Nat /\ bucket.at \in Nat /\ bucket.at <= now
    BY <1>3 DEF BucketCovers, TypeOK
  <2> PICK n \in Estimate \cup {Capacity} :
             bucket.tokens + past.net <= CapacityFor(n) + Rate * bucket.at + past.unpaid
    BY <1>3 DEF BucketCovers
  <2>2. /\ Rate * bucket.at \in Nat /\ (now - bucket.at) * Rate \in Nat
        /\ Rate * now = Rate * bucket.at + (now - bucket.at) * Rate
    BY <1>0, <2>1, Flow
  <2>3. Filled(need) <= bucket.tokens + (now - bucket.at) * Rate /\ Filled(need) \in Nat
    <3>1. CapacityFor(need) \in Nat
      BY CapacityIsNat
    <3> QED
      BY <1>3, <2>1, <2>2, <3>1 DEF Filled
  <2>4. CapacityFor(n) \in Nat
    BY CapacityIsNat
  <2>5. Filled(need) + past.net <= CapacityFor(n) + Rate * now + past.unpaid
    BY <1>0, <2>1, <2>2, <2>3, <2>4
  <2> QED
    BY <2>5
<1> QED
  BY <1>2, <1>3

LEMMA BucketStep ==
  ASSUME IInv, Next
  PROVE  BucketCovers'
<1>0. /\ req \in [Request -> RequestType] /\ past \in PastType /\ now \in Nat
      /\ TypeOK /\ BucketCovers /\ bucket \in [tokens : Nat, at : 0 .. MaxTime] \cup {None}
      /\ past.net \in Int /\ past.unpaid \in Nat /\ MaxTime \in Nat
      /\ None \notin [tokens : Nat, at : Nat]
  BY AssumedNumbers DEF IInv, TypeOK, PastType
<1>1. ASSUME UNCHANGED bucket, now' \in {now, now + 1}, past'.net = past.net,
             past'.unpaid = past.unpaid
      PROVE  BucketCovers'
  <2>1. CASE bucket = None
    BY <1>0, <1>1, <2>1 DEF BucketCovers
  <2>2. CASE bucket # None
    <3>1. bucket.at \in Nat
      BY <1>0, <2>2
    <3> QED
      BY <1>0, <1>1, <2>2, <3>1 DEF BucketCovers
  <2> QED
    BY <2>1, <2>2
<1>2. ASSUME NEW r \in Request, Limit(r) PROVE BucketCovers'
  <2> PICK need \in Estimate :
         LET t == Filled(need)
             rest == IF t >= need THEN t - need ELSE 0
         IN \/ /\ Suffices(t, need)
               /\ bucket' = [tokens |-> rest, at |-> now]
               /\ req' = [req EXCEPT ![r].pc = "run", ![r].need = need]
               /\ past' = [past EXCEPT !.net = @ + need] /\ UNCHANGED faults
            \/ /\ ~Suffices(t, need)
               /\ bucket' = [tokens |-> t, at |-> now]
               /\ Goto(r, "leave") /\ UNCHANGED <<faults, past>>
            \/ /\ Fault /\ req' = [req EXCEPT ![r].pc = "run", ![r].need = need]
               /\ past' = [past EXCEPT !.net = @ + need, !.unpaid = @ + need]
               /\ UNCHANGED bucket
            \/ Goto(r, "leave") /\ UNCHANGED <<bucket, faults, past>>
    BY <1>2 DEF Limit
  <2>1. now' = now /\ need \in Nat /\ Filled(need) \in Nat
    BY <1>0, <1>2, FilledIsNat, AssumedNumbers DEF Limit
  <2>2. \E n \in Estimate \cup {Capacity} :
           Filled(need) + past.net <= CapacityFor(n) + Rate * now + past.unpaid
    BY <1>0, FilledCovered
  <2>3. \/ /\ bucket' = [tokens |-> Filled(need) - need, at |-> now] /\ Filled(need) >= need
           /\ past'.net = past.net + need /\ past'.unpaid = past.unpaid
        \/ /\ bucket' = [tokens |-> Filled(need), at |-> now]
           /\ past'.net = past.net /\ past'.unpaid = past.unpaid
        \/ /\ UNCHANGED bucket
           /\ past'.net = past.net + need /\ past'.unpaid = past.unpaid + need
        \/ UNCHANGED <<bucket, past>>
    BY <1>0, <2>1 DEF Suffices, PastType
  <2>4. CASE /\ UNCHANGED bucket
             /\ past'.net = past.net + need /\ past'.unpaid = past.unpaid + need
    <3>1. CASE bucket = None
      BY <1>0, <2>1, <2>4, <3>1 DEF BucketCovers
    <3>2. CASE bucket # None
      <4>1. bucket.tokens \in Nat /\ bucket.at \in Nat /\ Rate * bucket.at \in Nat
        BY <1>0, <3>2, AssumedNumbers
      <4> PICK n \in Estimate \cup {Capacity} :
             bucket.tokens + past.net <= CapacityFor(n) + Rate * bucket.at + past.unpaid
        BY <1>0, <3>2 DEF BucketCovers
      <4>2. CapacityFor(n) \in Nat
        BY CapacityIsNat
      <4>3. bucket'.tokens + past'.net
              <= CapacityFor(n) + Rate * bucket'.at + past'.unpaid
        BY <1>0, <2>1, <2>4, <4>1, <4>2
      <4> QED
        BY <1>0, <2>1, <2>4, <3>2, <4>3 DEF BucketCovers
    <3> QED
      BY <3>1, <3>2
  <2>5. CASE /\ bucket'.tokens + past'.net = Filled(need) + past.net
             /\ bucket' # None /\ bucket'.at = now /\ past'.unpaid = past.unpaid
    BY <1>0, <2>1, <2>2, <2>5 DEF BucketCovers
  <2>6. CASE UNCHANGED <<bucket, past>>
    BY <1>1, <2>1, <2>6
  <2> QED
    <3>1. CASE /\ bucket' = [tokens |-> Filled(need) - need, at |-> now] /\ Filled(need) >= need
               /\ past'.net = past.net + need /\ past'.unpaid = past.unpaid
      BY <1>0, <2>1, <2>5, <3>1
    <3>2. CASE /\ bucket' = [tokens |-> Filled(need), at |-> now]
               /\ past'.net = past.net /\ past'.unpaid = past.unpaid
      BY <1>0, <2>1, <2>5, <3>2
    <3> QED
      BY <2>3, <2>4, <2>6, <3>1, <3>2

<1>3. ASSUME NEW r \in Request, Refund(r) PROVE BucketCovers'
  <2>1. now' = now /\ req[r].back \in Nat
    BY <1>0, <1>3 DEF Refund, RequestType
  <2>2. CASE bucket # None /\ bucket' = [bucket EXCEPT !.tokens = @ + req[r].back]
             /\ past' = [past EXCEPT !.net = @ - req[r].back]
    <3>1. /\ bucket'.tokens = bucket.tokens + req[r].back /\ bucket'.at = bucket.at
          /\ bucket.tokens \in Nat /\ bucket.at \in Nat
          /\ bucket' \in [tokens : Nat, at : Nat]
      BY <1>0, <2>1, <2>2
    <3>2. past'.net = past.net - req[r].back /\ past'.unpaid = past.unpaid
      BY <1>0, <2>2 DEF PastType
    <3>3. bucket'.tokens + past'.net = bucket.tokens + past.net
      BY <1>0, <2>1, <3>1, <3>2
    <3>4. bucket' # None /\ bucket.at <= now
      BY <1>0, <2>2, <3>1 DEF BucketCovers
    <3>5. \E n \in Estimate \cup {Capacity} :
             bucket'.tokens + past'.net <= CapacityFor(n) + Rate * bucket'.at + past'.unpaid
      BY <1>0, <2>2, <3>1, <3>2, <3>3 DEF BucketCovers
    <3> QED
      BY <2>1, <3>1, <3>4, <3>5 DEF BucketCovers
  <2> QED
    BY <1>1, <1>3, <2>1, <2>2 DEF Refund
<1>4. ASSUME NEW r \in Request, Handle(r) PROVE BucketCovers'
  <2>1. CASE Keep(r) \/ Wake(r)
    BY <1>0, <1>1, <2>1 DEF Keep, Wake, Admit, PastType
  <2>2. CASE Run(r)
    BY <1>0, <1>1, <2>2 DEF Run, PastType
  <2>3. CASE Authenticate(r)
    <3>1. past' = past \/ \E q : Admit(q, "ok")
      BY <2>3 DEF Authenticate
    <3>2. past'.net = past.net /\ past'.unpaid = past.unpaid
      BY <1>0, <3>1 DEF Admit, PastType
    <3> QED
      BY <1>1, <2>3, <3>2 DEF Authenticate
  <2>4. CASE Enter(r) \/ Leave(r) \/ Fetch(r) \/ Close(r) \/ Record(r) \/ Send(r)
    BY <1>1, <2>4 DEF Enter, Leave, Fetch, Close, Record, Send
  <2> QED
    BY <1>2, <1>3, <1>4, <2>1, <2>2, <2>3, <2>4 DEF Handle
<1>5. CASE Evict \/ Tick
  BY <1>1, <1>5 DEF Evict, Tick
<1>6. CASE Revoke
  BY <1>0, <1>1, <1>6 DEF Revoke, PastType
<1>7. CASE Clear
  <2>1. \E b : past' = [past EXCEPT !.raced = b]
    BY <1>7 DEF Clear
  <2>2. past'.net = past.net /\ past'.unpaid = past.unpaid
    BY <1>0, <2>1 DEF PastType
  <2> QED
    BY <1>1, <1>7, <2>2 DEF Clear
<1>8. CASE Writer \/ Shutdown
  BY <1>0, <1>1, <1>8, OthersApart
<1> QED
  BY <1>4, <1>5, <1>6, <1>7, <1>8 DEF Next

LEMMA CoveredBounds ==
  ASSUME TypeOK, BucketCovers
  PROVE  UserBounded
<1>0. past.net \in Int /\ past.unpaid \in Nat /\ now \in Nat /\ Rate \in Nat
  BY AssumedNumbers DEF TypeOK
<1>1. Rate * now \in Nat
  BY <1>0
<1>2. CASE bucket = None
  <2>1. CapacityFor(Capacity) \in Nat /\ past.net <= past.unpaid
    BY <1>2, CapacityIsNat DEF BucketCovers
  <2>2. past.net <= CapacityFor(Capacity) + Rate * now + past.unpaid
    BY <1>0, <1>1, <2>1
  <2> QED
    BY <2>2 DEF UserBounded
<1>3. CASE bucket # None
  <2>1. bucket.tokens \in Nat /\ bucket.at \in Nat /\ bucket.at <= now
    BY <1>3 DEF BucketCovers, TypeOK
  <2> PICK n \in Estimate \cup {Capacity} :
             bucket.tokens + past.net <= CapacityFor(n) + Rate * bucket.at + past.unpaid
    BY <1>3 DEF BucketCovers
  <2>2. /\ Rate * bucket.at \in Nat /\ (now - bucket.at) * Rate \in Nat
        /\ Rate * now = Rate * bucket.at + (now - bucket.at) * Rate
    BY <1>0, <2>1, Flow
  <2>3. CapacityFor(n) \in Nat
    BY CapacityIsNat
  <2>4. past.net <= CapacityFor(n) + Rate * now + past.unpaid
    BY <1>0, <2>1, <2>2, <2>3
  <2> QED
    BY <2>4 DEF UserBounded
<1> QED
  BY <1>2, <1>3

-----------------------------------------------------------------------------
(* The theorems.                                                           *)

LEMMA InitInv == Init => IInv
<1> SUFFICES ASSUME Init PROVE IInv
  OBVIOUS
<1> USE AssumedNumbers
<1>1. NewRequest \in RequestType
  BY DEF NewRequest, RequestType, Outcome
<1>2. TypeOK
  BY <1>1 DEF Init, TypeOK
<1>3. Busy = {} /\ Owing = {}
  BY DEF Init, NewRequest, Busy, Owing, Inside
<1>4. GateCounts
  BY <1>3, FS_EmptySet DEF Init, GateCounts
<1>5. WriterState
  BY DEF Init, WriterState
<1>6. RecordsAccounted
  BY <1>3, FS_EmptySet DEF Init, RecordsAccounted
<1>7. LookupOwned
  BY DEF Init, NewRequest, LookupOwned, WaitersHaveOwner
<1>8. LookupFresh
  BY DEF Init, NewRequest, LookupFresh, HitFresh
<1>9. Revoked
  BY DEF Init, NewRequest, Revoked, RevocationHolds
<1>10. BucketCovers
  BY DEF Init, BucketCovers
<1> QED
  BY <1>2, <1>4, <1>5, <1>6, <1>7, <1>8, <1>9, <1>10 DEF IInv

LEMMA StutterInv == IInv /\ UNCHANGED vars => IInv'
<1> SUFFICES ASSUME IInv, UNCHANGED vars PROVE IInv'
  OBVIOUS
<1>1. Busy' = Busy /\ Owing' = Owing
  BY DEF vars, Busy, Owing
<1> QED
  BY <1>1 DEF vars, IInv, TypeOK, GateCounts, WriterState, RecordsAccounted, LookupOwned,
     WaitersHaveOwner, LookupFresh, HitFresh, Revoked, RevocationHolds, BucketCovers

\* The inductive invariant: every fact the theorems below rest on.
THEOREM Invariant == Spec => []IInv
<1>1. IInv /\ Next => IInv'
  BY TypeStep, GateStep, WriterStep, RecordsStep, LookupStep, FreshStep, RevokedStep,
     BucketStep DEF IInv
<1> QED
  BY <1>1, InitInv, StutterInv, PTL DEF Spec

(* Every variable has its type, for every set of requests and all sizes:   *)
(* the counter of the gate never falls below zero, the queue and the batch *)
(* of the writer (store/usage.go) keep their sizes.                        *)
THEOREM TypeCorrect == Spec => []TypeOK
<1>1. IInv => TypeOK
  BY DEF IInv
<1> QED
  BY <1>1, Invariant, PTL

(* The gate (server.go): after it is closed and has reported that nobody   *)
(* is inside, no request is at work, and none comes in.                    *)
THEOREM GateDrains == Spec => []DrainedMeansEmpty
<1>1. IInv => DrainedMeansEmpty
  BY NobodyInside DEF IInv
<1> QED
  BY <1>1, Invariant, PTL

(* The cache of authentications (authcache.go): an entry expires at most   *)
(* TTL after the revocation, however lookups and the revocation meet.      *)
THEOREM CacheFresh == Spec => []HitFresh
<1>1. IInv => HitFresh
  BY DEF IInv, LookupFresh
<1> QED
  BY <1>1, Invariant, PTL

(* The revocation (admin handlers and authcache.go): after the answer no   *)
(* request is let in with the token, unless a lookup that had read the row *)
(* before stored its result afterwards.                                    *)
THEOREM RevocationTakesEffect == Spec => []RevocationHolds
<1>1. IInv => RevocationHolds
  BY DEF IInv, Revoked
<1> QED
  BY <1>1, Invariant, PTL

(* The shared lookup (authcache.go): whoever waits for it is still going   *)
(* to be told its result.                                                  *)
THEOREM WaitersServed == Spec => []WaitersHaveOwner
<1>1. IInv => WaitersHaveOwner
  BY DEF IInv, LookupOwned
<1> QED
  BY <1>1, Invariant, PTL

(* The rate limiter (ratelimit.go): what a user's requests took is never   *)
(* more than a full bucket, what flowed in, and what passed without Redis. *)
THEOREM UserLimited == Spec => []UserBounded
<1>1. IInv => UserBounded
  BY CoveredBounds DEF IInv
<1> QED
  BY <1>1, Invariant, PTL

(* The usage records (store/usage.go, main.go): unless a wait of the       *)
(* shutdown ran into its limit, the record of every executed request is    *)
(* written, or counted as failed or dropped.                               *)
THEOREM RecordsKept == Spec => []CleanExit
<1>1. IInv => CleanExit
  BY NothingForgotten DEF IInv
<1> QED
  BY <1>1, Invariant, PTL
=============================================================================
