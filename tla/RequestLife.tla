---------------------------- MODULE RequestLife ----------------------------
(***************************************************************************)
(* The life of a client's request around its attempts (internal/gateway:   *)
(* server.go, authcache.go, ratelimit.go, handlers.go), the writer of      *)
(* usage records (internal/store/usage.go) and the end of the process      *)
(* (cmd/gateway/main.go).                                                  *)
(*                                                                         *)
(* A request passes the gate, is authenticated by its token, takes the     *)
(* estimated amount out of the user's bucket, is executed (the attempts    *)
(* are those of QuotaLease, KeyPool and EgressBinding), gives the          *)
(* difference back, hands a usage record to the writer and leaves.  All    *)
(* requests here are of one user with one token: other tokens and users    *)
(* have cache entries and buckets of their own.                            *)
(*                                                                         *)
(* Meanwhile the operator may revoke the token, and the process may be     *)
(* told to end: it closes the gate, waits for the requests inside, and     *)
(* closes the writer; every wait has a limit.                              *)
(***************************************************************************)
EXTENDS Integers

CONSTANTS
  Request,      \* requests, each made once
  TTL,          \* authCacheTTL
  Estimate,     \* estimated amounts
  Capacity,     \* tpm_limit / 6
  Rate,         \* what flows into the bucket per unit of time
  QueueSize,    \* buffer of the writer's channel
  Batch,        \* records per batch
  None,
  MaxFaults,    \* bound: failures of Redis and of the database
  MaxTime       \* bound: the clock

ASSUME LifeAssumption ==
  /\ TTL \in Nat \ {0} /\ Estimate \subseteq Nat \ {0}
  /\ Capacity \in Nat \ {0} /\ Rate \in Nat
  /\ QueueSize \in Nat \ {0} /\ Batch \in Nat \ {0}
  /\ MaxFaults \in Nat /\ MaxTime \in Nat /\ None \notin Nat /\ None \notin Request
  /\ None \notin {"ok", "no", "error"} /\ None \notin [tokens : Nat, at : Nat]

VARIABLES
  now,     \* the clock
  active,  \* the token is valid in the database
  op,      \* the operator: "idle", "clear" (revoked, cache not cleared), "done"
  entry,   \* authCache.entries[token]: when it expires, or None
  call,    \* authCache.inflight[token]: the request that looks it up, or None
  req,     \* req[r]: where request r is
  gate,    \* requestGate
  bucket,  \* the user's bucket: tokens, and when they were counted; or None
  pipe,    \* usageWriter
  life,    \* where main is
  faults,  \* counter of the bound
  past     \* history: when the token was revoked; whether a lookup had read the
           \* row before and stores it later (raced); whether a request that began
           \* after the operator's answer was let in (late); what the bucket gave
           \* out, less what came back (net), and without Redis (unpaid); how many
           \* requests were executed (ran); whether a wait of the shutdown ran
           \* into its limit (cut)

vars == <<now, active, op, entry, call, req, gate, bucket, pipe, life, faults, past>>

Outcome == {"ok", "no", "error", None}
Inside == {"auth", "fetch", "close", "keep", "wait", "limit", "run", "refund",
           "record", "send", "leave"}
RequestType ==
  [pc : Inside \cup {"new", "refused", "done"}, began : 0 .. MaxTime, got : Outcome,
   on : Request \cup {None}, need : Estimate \cup {0}, back : Nat, late : BOOLEAN]
NewRequest == [pc |-> "new", began |-> 0, got |-> None, on |-> None, need |-> 0,
               back |-> 0, late |-> FALSE]

TypeOK ==
  /\ now \in 0 .. MaxTime /\ active \in BOOLEAN /\ op \in {"idle", "clear", "done"}
  /\ entry \in Nat \cup {None} /\ call \in Request \cup {None}
  /\ req \in [Request -> RequestType]
  /\ gate \in [closing : BOOLEAN, inFlight : Nat, drained : {"none", "open", "closed"}]
  /\ bucket \in [tokens : Nat, at : 0 .. MaxTime] \cup {None}
  /\ pipe \in [queue : 0 .. QueueSize, buf : 0 .. Batch, shut : {"no", "flag", "channel"},
               pc : {"run", "flush", "last", "ended"}, written : Nat, failed : Nat,
               dropped : Nat]
  /\ life \in {"serve", "server", "drain", "store", "channel", "writer", "gone"}
  /\ faults \in 0 .. MaxFaults
  /\ past \in [revokedAt : 0 .. MaxTime \cup {None}, raced : BOOLEAN,
               late : BOOLEAN, net : Int, unpaid : Nat,
               ran : Nat, cut : BOOLEAN]

Init ==
  /\ now = 0 /\ active = TRUE /\ op = "idle" /\ entry = None /\ call = None
  /\ req = [r \in Request |-> NewRequest]
  /\ gate = [closing |-> FALSE, inFlight |-> 0, drained |-> "none"]
  /\ bucket = None
  /\ pipe = [queue |-> 0, buf |-> 0, shut |-> "no", pc |-> "run",
             written |-> 0, failed |-> 0, dropped |-> 0]
  /\ life = "serve" /\ faults = 0
  /\ past = [revokedAt |-> None, raced |-> FALSE, late |-> FALSE, net |-> 0,
             unpaid |-> 0, ran |-> 0, cut |-> FALSE]

Fault == faults < MaxFaults /\ faults' = faults + 1
Goto(r, pc) == req' = [req EXCEPT ![r] = [NewRequest EXCEPT !.pc = pc]]

-----------------------------------------------------------------------------
(* The gate: its flag and its counter have one lock.                       *)

\* signalIfDrained
Signalled(g) == IF g.closing /\ g.inFlight = 0 /\ g.drained = "open"
                THEN [g EXCEPT !.drained = "closed"] ELSE g

\* Mutant of Entered: the request is not counted.
EnteredUncounted == gate

Entered == [gate EXCEPT !.inFlight = @ + 1]

\* Mutant of MayEnter: the flag is not asked.
MayEnterAlways == TRUE

MayEnter == ~gate.closing

Enter(r) ==
  /\ req[r].pc = "new"
  /\ IF MayEnter
     THEN Goto(r, "auth") /\ gate' = Entered
     ELSE Goto(r, "refused") /\ UNCHANGED gate
  /\ UNCHANGED <<now, active, op, entry, call, bucket, pipe, life, faults, past>>

Leave(r) ==
  /\ req[r].pc = "leave"
  /\ Goto(r, "done") /\ gate' = Signalled([gate EXCEPT !.inFlight = @ - 1])
  /\ UNCHANGED <<now, active, op, entry, call, bucket, pipe, life, faults, past>>

-----------------------------------------------------------------------------
(* Authentication (authCache.authenticate).                                *)

\* The request is authenticated and goes on, or it gets an error answer.
Proceed(r, got) == Goto(r, IF got = "ok" THEN "limit" ELSE "leave")
Admit(q, got) == past' = [past EXCEPT !.late = @ \/ (q.late /\ got = "ok")]

Hit == entry # None /\ now < entry

\* Under the lock: a valid entry, or a lookup that is under way, or a new one.
Authenticate(r) ==
  /\ req[r].pc = "auth"
  /\ LET q == [req[r] EXCEPT !.began = now, !.late = (op = "done")]
     IN \/ /\ Hit
           /\ Proceed(r, "ok") /\ Admit(q, "ok")
           /\ UNCHANGED call
        \/ /\ ~Hit /\ call # None
           /\ req' = [req EXCEPT ![r] = [q EXCEPT !.pc = "wait", !.on = call,
                         !.got = IF req[call].pc = "keep" THEN req[call].got ELSE None]]
           /\ UNCHANGED <<call, past>>
        \/ /\ ~Hit /\ call = None
           /\ call' = r /\ req' = [req EXCEPT ![r] = [q EXCEPT !.pc = "fetch"]]
           /\ UNCHANGED past
  /\ UNCHANGED <<now, active, op, entry, gate, bucket, pipe, life, faults>>

\* The database reads the token; the query fails, or its client goes away.
Fetch(r) ==
  /\ req[r].pc = "fetch"
  /\ \/ /\ req' = [req EXCEPT ![r].pc = "close", ![r].got = IF active THEN "ok" ELSE "no"]
        /\ UNCHANGED faults
     \/ Fault /\ req' = [req EXCEPT ![r].pc = "close", ![r].got = "error"]
  /\ UNCHANGED <<now, active, op, entry, call, gate, bucket, pipe, life, past>>

\* Mutant of Woken: only a success is handed on.
WokenBySuccess(q, r) == q.pc = "wait" /\ q.on = r /\ req[r].got = "ok"

Woken(q, r) == q.pc = "wait" /\ q.on = r

\* close(call.done): whoever waits gets the result, an error included.
Close(r) ==
  /\ req[r].pc = "close"
  /\ req' = [q \in Request |-> IF q = r THEN [req[r] EXCEPT !.pc = "keep"]
                               ELSE IF Woken(req[q], r) THEN [req[q] EXCEPT !.got = req[r].got]
                               ELSE req[q]]
  /\ UNCHANGED <<now, active, op, entry, call, gate, bucket, pipe, life, faults, past>>

\* Mutant of Expiry: from the end of the lookup.
ExpiryFromEnd(q) == now + TTL

\* The time is read before the lookup.
Expiry(q) == q.began + TTL

\* A success is kept, with the time at which the lookup began.
Keep(r) ==
  /\ req[r].pc = "keep"
  /\ call' = None
  /\ entry' = IF req[r].got = "ok" THEN Expiry(req[r]) ELSE entry
  /\ Proceed(r, req[r].got) /\ Admit(req[r], req[r].got)
  /\ UNCHANGED <<now, active, op, gate, bucket, pipe, life, faults>>

\* A waiting request has the result, or its client goes away.
Wake(r) ==
  /\ req[r].pc = "wait"
  /\ \E got \in {req[r].got, "error"} \ {None} :
       Proceed(r, got) /\ Admit(req[r], got)
  /\ UNCHANGED <<now, active, op, entry, call, gate, bucket, pipe, life, faults>>

\* The cache is full of other tokens and emptied.
Evict ==
  /\ entry # None /\ entry' = None
  /\ UNCHANGED <<now, active, op, call, req, gate, bucket, pipe, life, faults, past>>

\* DELETE /admin/users/{id}/keys/{key_id}: first the row, ...
Revoke ==
  /\ op = "idle" /\ active
  /\ active' = FALSE /\ op' = "clear" /\ past' = [past EXCEPT !.revokedAt = now]
  /\ UNCHANGED <<now, entry, call, req, gate, bucket, pipe, life, faults>>

\* Mutant of Invalidated: the cache is left to its TTL.
InvalidatedLater == entry

\* invalidate
Invalidated == None

\* ... then the cache.  A lookup that has read the row before and not stored it
\* yet will do so afterwards (raced).
Clear ==
  /\ op = "clear"
  /\ entry' = Invalidated /\ op' = "done"
  /\ past' = [past EXCEPT !.raced = \E r \in Request : /\ req[r].pc \in {"close", "keep"}
                                                       /\ req[r].got = "ok"]
  /\ UNCHANGED <<now, active, call, req, gate, bucket, pipe, life, faults>>

-----------------------------------------------------------------------------
(* The user's bucket (luaTokenBucket): what flowed in since it was last    *)
(* counted, up to the capacity; an amount above the capacity widens it.    *)

CapacityFor(need) == IF need > Capacity THEN need ELSE Capacity
Filled(need) ==
  LET t == bucket.tokens + (now - bucket.at) * Rate
  IN IF bucket = None THEN CapacityFor(need)
     ELSE IF t > CapacityFor(need) THEN CapacityFor(need) ELSE t

\* Mutant of Suffices: some tokens are enough.
SufficesSome(tokens, need) == tokens > 0

Suffices(tokens, need) == tokens >= need

\* checkRateLimit: the bucket of requests may reject as well; without Redis
\* the request passes and nothing is taken.
Limit(r) ==
  /\ req[r].pc = "limit"
  /\ \E need \in Estimate :
       LET t == Filled(need)
           rest == IF t >= need THEN t - need ELSE 0
       IN \/ /\ Suffices(t, need)
             /\ bucket' = [tokens |-> rest, at |-> now]
             /\ req' = [req EXCEPT ![r].pc = "run", ![r].need = need]
             /\ past' = [past EXCEPT !.net = @ + need] /\ UNCHANGED faults
          \/ /\ ~Suffices(t, need)
             /\ bucket' = [tokens |-> t, at |-> now]
             /\ Goto(r, "leave") /\ UNCHANGED <<faults, past>>
          \/ /\ Fault /\ req' = [req EXCEPT ![r].pc = "run", ![r].need = need]
             /\ past' = [past EXCEPT !.net = @ + need, !.unpaid = @ + need]
             /\ UNCHANGED bucket
          \/ Goto(r, "leave") /\ UNCHANGED <<bucket, faults, past>>
  /\ UNCHANGED <<now, active, op, entry, call, gate, pipe, life>>

\* execute: the amount to give back is the estimate less what the last usage
\* says; all of it if the request failed or there is no usage.
Run(r) ==
  /\ req[r].pc = "run"
  /\ \E actual \in 0 .. req[r].need :
       req' = [req EXCEPT ![r].pc = "refund", ![r].back = req[r].need - actual]
  /\ past' = [past EXCEPT !.ran = @ + 1]
  /\ UNCHANGED <<now, active, op, entry, call, gate, bucket, pipe, life, faults>>

\* refundTokens: not limited to the capacity, which the next request restores;
\* a bucket that never was is not made by it (it would lack the time).
Refund(r) ==
  /\ req[r].pc = "refund"
  /\ Goto(r, "record")
  /\ \/ /\ bucket # None /\ bucket' = [bucket EXCEPT !.tokens = @ + req[r].back]
        /\ past' = [past EXCEPT !.net = @ - req[r].back] /\ UNCHANGED faults
     \/ bucket = None /\ UNCHANGED <<bucket, faults, past>>
     \/ Fault /\ UNCHANGED <<bucket, past>>
  /\ UNCHANGED <<now, active, op, entry, call, gate, pipe, life>>

-----------------------------------------------------------------------------
(* Usage records.                                                          *)

\* enqueue: the flag first, ...
Record(r) ==
  /\ req[r].pc = "record"
  /\ Goto(r, IF pipe.shut = "no" THEN "send" ELSE "leave")
  /\ UNCHANGED <<now, active, op, entry, call, gate, bucket, pipe, life, faults, past>>

\* ... then the channel, without waiting: full, the record is dropped; closed,
\* the send panics, which ends the handler but not the process.
Send(r) ==
  /\ req[r].pc = "send"
  /\ Goto(r, "leave")
  /\ pipe' = IF pipe.shut = "channel" THEN pipe
             ELSE IF pipe.queue < QueueSize THEN [pipe EXCEPT !.queue = @ + 1]
             ELSE [pipe EXCEPT !.dropped = @ + 1]
  /\ UNCHANGED <<now, active, op, entry, call, gate, bucket, life, faults, past>>

\* The writer's loop.
Receive ==
  /\ pipe.pc = "run" /\ pipe.queue > 0
  /\ pipe' = [pipe EXCEPT !.queue = @ - 1, !.buf = @ + 1,
                          !.pc = IF pipe.buf + 1 >= Batch THEN "flush" ELSE "run"]
  /\ UNCHANGED <<now, active, op, entry, call, req, gate, bucket, life, faults, past>>

\* Mutant of AtEnd: the loop ends with the channel.
AtEndReturn == "ended"

AtEnd == "last"

\* The ticker, or the end of the closed channel.
Turn ==
  /\ pipe.pc = "run"
  /\ \/ pipe.buf > 0 /\ pipe' = [pipe EXCEPT !.pc = "flush"]
     \/ /\ pipe.shut = "channel" /\ pipe.queue = 0
        /\ pipe' = [pipe EXCEPT !.pc = AtEnd]
  /\ UNCHANGED <<now, active, op, entry, call, req, gate, bucket, life, faults, past>>

\* One transaction; what it cannot write is counted and gone.
Flush ==
  /\ pipe.pc \in {"flush", "last"}
  /\ LET next == [pipe EXCEPT !.buf = 0, !.pc = IF @ = "last" THEN "ended" ELSE "run"]
     IN \/ pipe' = [next EXCEPT !.written = @ + pipe.buf] /\ UNCHANGED faults
        \/ Fault /\ pipe' = [next EXCEPT !.failed = @ + pipe.buf]
  /\ UNCHANGED <<now, active, op, entry, call, req, gate, bucket, life, past>>

-----------------------------------------------------------------------------
(* The end of the process.                                                 *)

Main(pc) == life' = pc /\ UNCHANGED <<now, active, op, entry, call, req, bucket, faults>>
Cut(b) == past' = [past EXCEPT !.cut = @ \/ b]

\* Shutdown: the gate first.
CloseGate ==
  /\ life = "serve"
  /\ gate' = Signalled([gate EXCEPT !.closing = TRUE])
  /\ Main("server") /\ UNCHANGED <<pipe, past>>

\* srv.Shutdown waits for the handlers, or its context ends; waitDrained makes
\* the channel.
CloseServer ==
  /\ life = "server"
  /\ gate' = Signalled([gate EXCEPT !.drained = "open"])
  /\ Main("drain") /\ UNCHANGED <<pipe, past>>

\* waitDrained: the signal, or the end of the context.
Drain ==
  /\ life = "drain"
  /\ \/ gate.drained = "closed" /\ Cut(FALSE)
     \/ gate.inFlight > 0 /\ Cut(TRUE)
  /\ Main("store") /\ UNCHANGED <<gate, pipe>>

\* usageWriter.Close, after the background tasks have stopped.
CloseStore ==
  /\ life = "store"
  /\ pipe' = [pipe EXCEPT !.shut = "flag"]
  /\ Main("channel") /\ UNCHANGED <<gate, past>>
CloseChannel ==
  /\ life = "channel"
  /\ pipe' = [pipe EXCEPT !.shut = "channel"]
  /\ Main("writer") /\ UNCHANGED <<gate, past>>

\* At most 15 seconds, then the process ends.
AwaitWriter ==
  /\ life = "writer"
  /\ \/ pipe.pc = "ended" /\ Cut(FALSE)
     \/ pipe.pc # "ended" /\ Cut(TRUE)
  /\ Main("gone") /\ UNCHANGED <<gate, pipe>>

Tick == /\ now < MaxTime /\ now' = now + 1
        /\ UNCHANGED <<active, op, entry, call, req, gate, bucket, pipe, life, faults, past>>

Handle(r) == \/ Enter(r) \/ Authenticate(r) \/ Fetch(r) \/ Close(r) \/ Keep(r) \/ Wake(r)
             \/ Limit(r) \/ Run(r) \/ Refund(r) \/ Record(r) \/ Send(r) \/ Leave(r)
Writer == Receive \/ Turn \/ Flush
\* The orderly end (main.go, on a signal or a failed metrics listener).  When the
\* gateway's own listener fails, run returns without Shutdown: a crash, left out.
Shutdown == \/ CloseGate \/ CloseServer \/ Drain \/ CloseStore \/ CloseChannel
            \/ AwaitWriter

Next == /\ life # "gone"
        /\ \/ \E r \in Request : Handle(r)
           \/ Evict \/ Revoke \/ Clear \/ Writer \/ Shutdown \/ Tick

Spec == Init /\ [][Next]_vars

-----------------------------------------------------------------------------
(* Once the gate is closed and has reported that nobody is inside, or the  *)
(* wait for that has not run into its limit, no request is at work: none   *)
(* slips in between the check of the flag and the count (comment of gate,  *)
(* server.go:90).                                                          *)
DrainedMeansEmpty ==
  \/ gate.drained = "closed"
  \/ life \in {"store", "channel", "writer", "gone"} /\ ~past.cut
  => \A r \in Request : req[r].pc \notin Inside

(* A cached result does not outlive the revocation by more than TTL,       *)
(* whatever lookups and revocations meet (authcache.go:22).                *)
HitFresh == past.revokedAt # None /\ entry # None => entry <= past.revokedAt + TTL

(* A request that comes after the operator's answer is not let in with a   *)
(* revoked token (server.go:335: the delay is pressed to zero), with one   *)
(* exception: a lookup that had read the row before the revocation and     *)
(* stored its result after the cache was cleared.                          *)
RevocationHolds ==
  op = "done" /\ ~past.raced =>
    entry = None /\ ~past.late

(* Whoever waits for the lookup of another request is still going to be    *)
(* told its result, be it an error: nobody waits for a lookup that is over *)
(* (authcache.go:71).                                                      *)
WaitersHaveOwner ==
  \A r \in Request : req[r].pc = "wait" /\ req[r].got = None =>
    req[r].on # None /\ req[req[r].on].pc \in {"fetch", "close"}

(* What the user's requests took, less what was given back, is never more  *)
(* than a full bucket and what flowed in since; plus what passed without   *)
(* Redis, whose differences are given back although nothing was taken.     *)
UserBounded ==
  \E n \in Estimate \cup {Capacity} :
    past.net <= CapacityFor(n) + Rate * now + past.unpaid

(* After an orderly end in which no wait ran into its limit, every request *)
(* that was executed has its usage record written, or counted as failed or *)
(* dropped: none is forgotten in a buffer, none meets the closed channel.  *)
CleanExit ==
  life = "gone" /\ ~past.cut =>
    past.ran = pipe.written + pipe.failed + pipe.dropped
=============================================================================
