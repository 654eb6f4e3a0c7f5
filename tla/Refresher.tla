----------------------------- MODULE Refresher -----------------------------
(***************************************************************************)
(* The daily refresh of upstream quotas (internal/quota/refresh.go) and    *)
(* the life of its probers (cmd/gateway/background.go).                    *)
(*                                                                         *)
(* The upstream gives every key a new quota at a moment of its own inside  *)
(* a window of the day.  A prober, a goroutine per provider, asks with a   *)
(* real request whether that has happened (cmd/gateway/main.go: newProbe), *)
(* and only then sets the key's counters to zero: first the tokens, then   *)
(* the requests.  Which keys are done it keeps in memory.                  *)
(*                                                                         *)
(* Probers are started and stopped by reconcileRefreshers, at the start of *)
(* the process and in the handlers that change the provider configuration. *)
(* Providers share only the map of handles; this module follows one.  The  *)
(* probers it may have had are numbered in the order of their start.       *)
(***************************************************************************)
EXTENDS Integers, FiniteSets

CONSTANTS
  Key,            \* the keys of the provider
  Offset,         \* StaggerOffset of each key
  DayLen,         \* a natural day
  WindowStart,    \* refresh.window_start, as time of day
  WindowEnd,      \* refresh.window_end
  LastMinute,     \* one minute before the end of the window
  RefreshHour,    \* the hour at which a quota day begins
  ProbeInterval,  \* refresh.probe_interval
  RoundTime,      \* the timeout of a round of the prober
  Quota,          \* what the upstream grants a key per day
  Limit,          \* hard limits the operator may configure
  Handler,        \* goroutines of requests that change the configuration
  Boot,           \* the context of the process
  None,
  MaxProber,      \* bound: probers started in one life of the process
  MaxEvents,      \* bound: changes of the configuration, failed or
                  \* unanswered resets and restarts of the process together
  MaxTime         \* bound: the clock

Prober == 1 .. MaxProber
RefreshState == {"idle", "pending", "probing", "confirmed", "failed"}
Kind == {"token", "count"}

ASSUME WindowAssumption ==
  /\ DayLen \in Nat \ {0}
  /\ WindowStart \in 0 .. DayLen /\ WindowEnd \in WindowStart .. DayLen
  /\ LastMinute \in WindowStart .. WindowEnd /\ RefreshHour \in 0 .. DayLen - 1
  /\ Offset \in [Key -> Nat] /\ ProbeInterval \in Nat \ {0}
  /\ RoundTime \in Nat

ASSUME BoundAssumption ==
  /\ Quota \in Nat \ {0} /\ Limit \subseteq Nat /\ Limit # {}
  /\ MaxEvents \in Nat /\ MaxProber \in Nat /\ MaxEvents < MaxProber
  /\ MaxTime \in Nat

ASSUME NameAssumption ==
  /\ Boot \notin Handler /\ None \notin Nat /\ None \notin Key

VARIABLES
  now,      \* the clock
  conf,     \* the limit of the provider in the current snapshot; None: it has
            \* no such provider
  spent,    \* spent[k]: what the upstream counts for the key
  renewed,  \* keys whose quota the upstream has renewed in this quota day
  count,    \* count[k]: what the counter of the quota day shows
  limit,    \* limit[k][kind]: the hard limit written into the counter, and by
            \* which prober
  prober,   \* prober[i]: the goroutine and its Refresher
  handle,   \* background.refreshers: the prober it holds, or None
  hand,     \* hand[h]: where the handler is
  used,     \* counter of the bound
  zeroed,   \* history: how often key k was set to zero in this quota day
  excused,  \* history: how many of these have a known reason to be repeated
  answered, \* history: keys the upstream has served a probe in this quota day
  overlap   \* history: two handlers have reconciled at once in this life

vars == <<now, conf, spent, renewed, count, limit, prober, handle, hand, used,
          zeroed, excused, answered, overlap>>

fleet == <<conf, handle, hand, overlap>>
ledger == <<spent, renewed, count, limit, zeroed, excused, answered>>

-----------------------------------------------------------------------------
(* Time.                                                                   *)

TimeOfDay(t) == t % DayLen
\* InWindow
InWindow(t) == WindowStart <= TimeOfDay(t) /\ TimeOfDay(t) < WindowEnd
\* QuotaDay: before the hour it is still the day before.
QuotaDay(t) == (t + DayLen - RefreshHour) \div DayLen

-----------------------------------------------------------------------------
Conf == Limit \cup {None}
Unused == [pc |-> "unused", ctx |-> None, alive |-> FALSE, limit |-> None,
           state |-> [k \in Key |-> "idle"], last |-> [k \in Key |-> None],
           began |-> 0, list |-> {}, todo |-> {}, key |-> None, other |-> None]
ProberType ==
  [pc : {"unused", "wait", "keys", "probe", "token", "count", "gone"},
   ctx : Handler \cup {Boot, None}, alive : BOOLEAN, limit : Limit \cup {None},
   state : [Key -> RefreshState], last : [Key -> 0 .. MaxTime \cup {None}],
   began : 0 .. MaxTime, list : SUBSET Key, todo : SUBSET Key,
   key : Key \cup {None}, other : Limit \cup {None}]
IdleHand == [pc |-> "idle", snap |-> None]
HandType == [pc : {"idle", "read", "apply", "start", "answer"}, snap : Conf]

TypeOK ==
  /\ now \in 0 .. MaxTime /\ conf \in Conf
  /\ spent \in [Key -> 0 .. Quota] /\ renewed \subseteq Key
  /\ count \in [Key -> Nat]
  /\ limit \in [Key -> [Kind -> [hard : Limit \cup {None}, by : Prober \cup {None}]]]
  /\ prober \in [Prober -> ProberType] /\ handle \in Prober \cup {None}
  /\ hand \in [Handler -> HandType]
  /\ used \in 0 .. MaxEvents
  /\ zeroed \in [Key -> Nat] /\ excused \in [Key -> Nat]
  /\ answered \subseteq Key /\ overlap \in BOOLEAN

Unwritten == [kind \in Kind |-> [hard |-> None, by |-> None]]

\* A new Refresher with its goroutine, under context c.
NewRefresher(c, lim) == [Unused EXCEPT !.pc = "wait", !.ctx = c, !.alive = TRUE, !.limit = lim]

\* background.start reconciles before the server listens.
Booted(c) ==
  /\ prober' = [i \in Prober |-> IF i = 1 /\ c # None THEN NewRefresher(Boot, c)
                                 ELSE Unused]
  /\ handle' = IF c # None THEN 1 ELSE None
  /\ hand' = [h \in Handler |-> IdleHand]

Init ==
  /\ now = 0 /\ conf \in Conf
  /\ spent \in [Key -> 0 .. Quota] /\ renewed = {}
  /\ count = spent
  /\ limit = [k \in Key |-> Unwritten]
  /\ prober = [i \in Prober |-> IF i = 1 /\ conf # None THEN NewRefresher(Boot, conf)
                                ELSE Unused]
  /\ handle = IF conf # None THEN 1 ELSE None
  /\ hand = [h \in Handler |-> IdleHand]
  /\ used = 0
  /\ zeroed = [k \in Key |-> 0] /\ excused = [k \in Key |-> 0]
  /\ answered = {} /\ overlap = FALSE

InRound(i) == prober[i].pc \in {"keys", "probe", "token", "count"}

Spend == used < MaxEvents /\ used' = used + 1

-----------------------------------------------------------------------------
(* The upstream and the clients.                                           *)

\* A quota day begins with new counters, of zero; the upstream goes on.  Every
\* call of a round ends with the timeout of the round.
Tick ==
  /\ now < MaxTime /\ now' = now + 1
  /\ \A i \in Prober : InRound(i) => now - prober[i].began < RoundTime
  /\ IF QuotaDay(now') = QuotaDay(now) THEN UNCHANGED ledger
     ELSE /\ count' = [k \in Key |-> 0] /\ limit' = [k \in Key |-> Unwritten]
          /\ zeroed' = [k \in Key |-> 0] /\ excused' = [k \in Key |-> 0]
          /\ renewed' = {} /\ answered' = {} /\ UNCHANGED spent
  /\ UNCHANGED <<prober, fleet, used>>

\* The upstream renews a quota once a day, within the window.
Renew(k) ==
  /\ InWindow(now) /\ k \notin renewed
  /\ renewed' = renewed \cup {k} /\ spent' = [spent EXCEPT ![k] = 0]
  /\ UNCHANGED <<now, count, limit, zeroed, excused, answered, prober, fleet, used>>

\* A request: luaAcquire compares with the limit of the snapshot and writes it
\* into the counter; the upstream serves what its quota allows.
Use(k) ==
  /\ conf # None /\ count[k] < conf /\ spent[k] < Quota
  /\ spent' = [spent EXCEPT ![k] = @ + 1] /\ count' = [count EXCEPT ![k] = @ + 1]
  /\ limit' = [limit EXCEPT ![k] = [kind \in Kind |-> [hard |-> conf, by |-> None]]]
  /\ UNCHANGED <<now, renewed, zeroed, excused, answered, prober, fleet, used>>

-----------------------------------------------------------------------------
(* One prober.                                                             *)

Set(i, r) == prober' = [prober EXCEPT ![i] = r]
NextKey(r) == [r EXCEPT !.pc = "keys", !.key = None, !.other = None]

\* resetAfterWindow: what is settled is forgotten, for the next day.
Settled(s) == s \in {"confirmed", "failed"}

\* Mutant of AfterWindow: the state is emptied, not removed.
AfterWindowBlank(r) ==
  [r EXCEPT !.state = [k \in Key |-> IF Settled(@[k]) THEN None ELSE @[k]]]

AfterWindow(r) ==
  [r EXCEPT !.state = [k \in Key |-> IF Settled(@[k]) THEN "idle" ELSE @[k]],
            !.last = [k \in Key |-> IF Settled(r.state[k]) THEN None ELSE @[k]]]

\* The ticker starts a round (Refresher.Tick).  In the window it lists the
\* active keys, which the operator changes at any time; that may fail.
Begin(i) ==
  /\ prober[i].pc = "wait" /\ prober[i].alive
  /\ \/ ~InWindow(now) /\ Set(i, AfterWindow(prober[i]))
     \/ /\ InWindow(now)
        /\ \E L \in SUBSET Key :
             Set(i, [prober[i] EXCEPT !.pc = "keys", !.began = now, !.list = L, !.todo = L])
  /\ UNCHANGED <<now, ledger, fleet, used>>

\* Tick probes a key that is not confirmed, from its offset on, and not more
\* often than ProbeInterval allows.
MustProbe(r, k) ==
  /\ r.state[k] # "confirmed"
  /\ TimeOfDay(r.began) >= WindowStart + Offset[k]
  /\ r.last[k] = None \/ r.began - r.last[k] >= ProbeInterval

Consider(i, k) ==
  /\ prober[i].pc = "keys" /\ k \in prober[i].todo
  /\ LET r == [prober[i] EXCEPT !.todo = @ \ {k}]
     IN IF MustProbe(r, k)
        THEN Set(i, [r EXCEPT !.pc = "probe", !.key = k, !.state[k] = "probing",
                              !.last[k] = r.began])
        ELSE Set(i, [r EXCEPT !.state[k] = IF @ = "idle" THEN "pending" ELSE @])
  /\ UNCHANGED <<now, ledger, fleet, used>>

\* Mutant of Answers: an answer that says nothing counts as a renewal.
AnswersBlindly(k) == BOOLEAN

\* newProbe: true for status 200, which the upstream gives to a key with quota
\* left; any other answer, and any error, is false.
Answers(k) == IF spent[k] < Quota THEN BOOLEAN ELSE {FALSE}

\* A prober that was cancelled gets no answer.
Probe(i) ==
  /\ prober[i].pc = "probe"
  /\ LET k == prober[i].key
     IN \E refreshed \in Answers(k) :
          /\ Set(i, IF refreshed /\ prober[i].alive THEN [prober[i] EXCEPT !.pc = "token"]
                    ELSE NextKey(prober[i]))
          /\ answered' = IF spent[k] < Quota THEN answered \cup {k} ELSE answered
  /\ UNCHANGED <<now, spent, renewed, count, limit, zeroed, excused, fleet, used>>

\* Mutant of OtherLimit: the limits are read one by one.
OtherLimitNow(r) == r.limit

\* limitsFor reads both limits under one lock, before the first reset.
OtherLimit(r) == r.other

\* luaRefreshReset on one counter.  Requests count tokens; the counter of
\* requests has only its limit followed here.
Zeroed(i, k, kind, hard) ==
  /\ limit' = [limit EXCEPT ![k][kind] = [hard |-> hard, by |-> i]]
  /\ IF kind = "token"
     THEN count' = [count EXCEPT ![k] = 0] /\ zeroed' = [zeroed EXCEPT ![k] = @ + 1]
     ELSE UNCHANGED <<count, zeroed>>

\* A call that fails, by itself or because the prober was cancelled.
Fails(i) == IF prober[i].alive THEN Spend ELSE UNCHANGED used

\* confirm, first the tokens.  A call that fails, or whose answer is lost, ends
\* it: the key stays "probing".
ResetToken(i) ==
  /\ prober[i].pc = "token"
  /\ LET r == prober[i]
         k == r.key
     IN \/ /\ r.alive /\ Zeroed(i, k, "token", r.limit)
           /\ Set(i, [r EXCEPT !.pc = "count", !.other = r.limit])
           /\ UNCHANGED <<excused, used>>
        \/ /\ Fails(i) /\ Set(i, NextKey(r))
           /\ \/ Zeroed(i, k, "token", r.limit) /\ excused' = [excused EXCEPT ![k] = @ + 1]
              \/ UNCHANGED <<count, limit, zeroed, excused>>
  /\ UNCHANGED <<now, spent, renewed, answered, fleet>>

\* Then the requests; only now the key is confirmed.
ResetCount(i) ==
  /\ prober[i].pc = "count"
  /\ LET r == prober[i]
         k == r.key
     IN \/ /\ r.alive /\ Zeroed(i, k, "count", OtherLimit(r))
           /\ Set(i, [NextKey(r) EXCEPT !.state[k] = "confirmed"])
           /\ UNCHANGED <<excused, used>>
        \/ /\ Fails(i) /\ Set(i, NextKey(r))
           /\ excused' = [excused EXCEPT ![k] = @ + 1]
           /\ Zeroed(i, k, "count", OtherLimit(r)) \/ UNCHANGED <<count, limit, zeroed>>
  /\ UNCHANGED <<now, spent, renewed, answered, fleet>>

\* The end of a round.  In the last minute of the window, what is listed and
\* not confirmed has failed (markUnconfirmedFailed).
End(i) ==
  /\ prober[i].pc = "keys" /\ prober[i].todo = {}
  /\ LET r == [prober[i] EXCEPT !.pc = "wait", !.list = {}, !.began = 0]
     IN IF TimeOfDay(prober[i].began) >= LastMinute
        THEN Set(i, [r EXCEPT !.state = [k \in Key |->
               IF k \in prober[i].list /\ @[k] \in {"pending", "probing"}
               THEN "failed" ELSE @[k]]])
        ELSE Set(i, r)
  /\ UNCHANGED <<now, ledger, fleet, used>>

\* The goroutine of a cancelled prober ends between two rounds (every).
Exit(i) ==
  /\ prober[i].pc = "wait" /\ ~prober[i].alive
  /\ Set(i, [Unused EXCEPT !.pc = "gone", !.limit = prober[i].limit])
  /\ UNCHANGED <<now, ledger, fleet, used>>

-----------------------------------------------------------------------------
(* The probers of the provider.                                            *)

Busy(h) == hand[h].pc # "idle"
Reconciling(h) == hand[h].pc \in {"read", "apply", "start"}
ToAnswer(h) == hand' = [hand EXCEPT ![h] = [pc |-> "answer", snap |-> None]]

\* A handler has stored a new snapshot (ReloadProviderConfig) ...
Change(h, c) ==
  /\ ~Busy(h) /\ c # conf /\ Spend
  /\ conf' = c
  /\ hand' = [hand EXCEPT ![h] = [pc |-> "read", snap |-> None]]
  /\ overlap' = (overlap \/ \E g \in Handler : Reconciling(g))
  /\ UNCHANGED <<now, ledger, prober, handle>>

\* ... and aligns the probers to the snapshot that is current now, ...
ReadSnapshot(h) ==
  /\ hand[h].pc = "read"
  /\ hand' = [hand EXCEPT ![h] = [pc |-> "apply", snap |-> conf]]
  /\ UNCHANGED <<now, ledger, prober, conf, handle, used, overlap>>

\* Mutant of Missing: every reload starts a prober, and forgets the old one.
MissingAlways == TRUE

\* reconcileRefreshers: the map of handles has none for the provider.
Missing == handle = None

\* Mutant of UpdateLimits: a running prober keeps the limits it was made with.
UpdateNothing(c) == UNCHANGED prober

\* The prober that the handle names gets the new limits, whether it still runs
\* or not.
UpdateLimits(c) == Set(handle, [prober[handle] EXCEPT !.limit = c])

\* Mutant of Stop: the handle is forgotten and the prober goes on.
StopForgets == handle' = None /\ UNCHANGED <<prober, excused>>

\* Which keys are confirmed is forgotten: each may be set to zero once more
\* than it was so far.
Forgotten == excused' = [k \in Key |-> IF zeroed[k] > excused[k] THEN zeroed[k] ELSE excused[k]]

\* stopRefreshers, for a provider that is gone: a later prober starts anew.
Stop ==
  \/ handle = None /\ UNCHANGED <<prober, handle, excused>>
  \/ /\ handle # None
     /\ Set(handle, [prober[handle] EXCEPT !.alive = FALSE]) /\ handle' = None
     /\ Forgotten

Apply(h) ==
  /\ hand[h].pc = "apply"
  /\ \/ /\ hand[h].snap # None /\ ~Missing
        /\ UpdateLimits(hand[h].snap) /\ ToAnswer(h) /\ UNCHANGED <<handle, excused>>
     \/ /\ hand[h].snap # None /\ Missing
        /\ hand' = [hand EXCEPT ![h].pc = "start"]
        /\ UNCHANGED <<prober, handle, excused>>
     \/ hand[h].snap = None /\ Stop /\ ToAnswer(h)
  /\ UNCHANGED <<now, spent, renewed, count, limit, zeroed, answered, conf, used, overlap>>

\* A prober that was missing is started, under the context of this request, and
\* its handle stored.  No lock holds the map from the look to the store, so that
\* the handle of a prober that another handler started meanwhile is lost.
Start(h) ==
  /\ hand[h].pc = "start"
  /\ \E i \in Prober :
       /\ prober[i].pc = "unused" /\ \A j \in 1 .. i - 1 : prober[j].pc # "unused"
       /\ Set(i, NewRefresher(h, hand[h].snap)) /\ handle' = i
  /\ ToAnswer(h)
  /\ UNCHANGED <<now, ledger, conf, used, overlap>>

\* ... and answers.  With the request ends its context, and with that every
\* prober that was started under it.
Answer(h) ==
  /\ hand[h].pc = "answer"
  /\ hand' = [hand EXCEPT ![h] = IdleHand]
  /\ prober' = [i \in Prober |-> IF prober[i].ctx = h THEN [prober[i] EXCEPT !.alive = FALSE]
                                 ELSE prober[i]]
  /\ UNCHANGED <<now, ledger, conf, handle, used, overlap>>

\* The process ends and starts again: which keys are confirmed is forgotten.
Restart ==
  /\ Spend
  /\ Booted(conf)
  /\ limit' = [k \in Key |-> [kind \in Kind |-> [limit[k][kind] EXCEPT !.by = None]]]
  /\ Forgotten /\ overlap' = FALSE
  /\ UNCHANGED <<now, conf, spent, renewed, count, zeroed, answered>>

ProberStep(i) == \/ Begin(i) \/ Probe(i) \/ ResetToken(i) \/ ResetCount(i)
                 \/ End(i) \/ Exit(i) \/ \E k \in Key : Consider(i, k)
HandlerStep(h) == ReadSnapshot(h) \/ Apply(h) \/ Start(h) \/ Answer(h)

Next == \/ Tick \/ Restart
        \/ \E k \in Key : Renew(k) \/ Use(k)
        \/ \E i \in Prober : ProberStep(i)
        \/ \E h \in Handler : HandlerStep(h) \/ \E c \in Conf : Change(h, c)

Spec == Init /\ [][Next]_vars

-----------------------------------------------------------------------------
(* A counter is set to zero in a quota day only after the upstream has     *)
(* served a probe of that key in it (first rule of refresh.go:57: never by *)
(* the clock, a failed probe or an answer that says nothing).              *)
ResetNeedsAnswer == \A k \in Key : zeroed[k] > 0 => k \in answered

(* And only once: what was used after the first time must not be forgotten *)
(* again.  The exceptions are counted one by one: a confirmation of which  *)
(* one call failed, a provider that was removed and added, a restart of    *)
(* the process; and probers of two handlers that reconciled at once.       *)
ResetOnce == ~overlap => \A k \in Key : zeroed[k] <= 1 + excused[k]

(* The two limits a confirmation writes belong to one configuration        *)
(* (comment of confirm, refresh.go:282), even when they are changed        *)
(* meanwhile.                                                              *)
LimitsTogether ==
  \A i \in Prober, k \in Key :
    /\ prober[i].state[k] = "confirmed"
    /\ limit[k]["token"].by = i /\ limit[k]["count"].by = i
    => limit[k]["token"].hard = limit[k]["count"].hard

(* After a reload has aligned the probers, the provider has a handle if    *)
(* and only if it is configured, the prober behind it writes the limit of  *)
(* the current snapshot, and no other prober runs: unless two handlers     *)
(* have reconciled at once.                                                *)
Aligned ==
  ~overlap /\ (\A h \in Handler : ~Reconciling(h)) =>
    /\ conf = None <=> handle = None
    /\ handle # None => prober[handle].limit = conf
    /\ \A i \in Prober : prober[i].alive => i = handle

(* When the last handler has answered, no prober of a removed provider     *)
(* runs, whichever handler started it, in whatever order they reconciled,  *)
(* and whether its handle was lost or not (comment at background.go:751).  *)
RemovedStops ==
  conf = None /\ (\A h \in Handler : ~Busy(h)) => \A i \in Prober : ~prober[i].alive

(* main.go:321: with the handlers' reconciliation, a provider that a       *)
(* reload adds has a prober; a handle stands for a running one.            *)
HandleAlive ==
  handle # None /\ (\A h \in Handler : ~Busy(h)) => prober[handle].alive

(* refresh.go:30 and :57: a probe that succeeds confirms that the upstream *)
(* has renewed the quota; only then the counter is set to zero.            *)
ZeroedIsRenewed == \A k \in Key : zeroed[k] > 0 => k \in renewed
=============================================================================
