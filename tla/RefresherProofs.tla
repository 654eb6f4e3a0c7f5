-------------------------- MODULE RefresherProofs --------------------------
(***************************************************************************)
(* Proofs about Refresher, for every set of keys and handlers, every       *)
(* window, day and bound.  The first part is about what concurrent         *)
(* handlers and probers can get wrong without any clock: which probers     *)
(* run, and which limits a confirmation writes.  The second is about what  *)
(* a prober has to keep within one quota day: the answer and the reset     *)
(* that it allows.                                                         *)
(***************************************************************************)
EXTENDS Refresher, TLAPS

-----------------------------------------------------------------------------
(* The inductive invariant.                                                *)

(* A prober that is at work on a key has marked it as being probed; while  *)
(* it stands between its two resets, the limit it wrote with the first one *)
(* is the one it keeps for the second, unless somebody has overwritten it. *)
Rounds ==
  \A i \in Prober :
    /\ prober[i].pc \in {"probe", "token", "count"} =>
         prober[i].key \in Key /\ prober[i].state[prober[i].key] = "probing"
    /\ prober[i].pc = "count" /\ limit[prober[i].key]["token"].by = i =>
         limit[prober[i].key]["token"].hard = prober[i].other

(* A prober that runs under the context of a request runs only while that  *)
(* request does.  One without a handle has such a context, and so have all  *)
(* as soon as a handler has found the provider without a handle.           *)
Contexts ==
  \A i \in Prober : prober[i].alive =>
    /\ prober[i].ctx \in Handler => Busy(prober[i].ctx)
    /\ i # handle => prober[i].ctx \in Handler
    /\ prober[i].ctx \notin Handler => \A h \in Handler : hand[h].pc # "start"

(* A handler starts a prober only for a snapshot with the provider.        *)
Starting == \A h \in Handler : hand[h].pc = "start" => hand[h].snap # None

(* A handler that is still going to stop the prober of a removed provider. *)
StopPending ==
  \E h \in Handler : \/ hand[h].pc = "read"
                     \/ hand[h].pc = "apply" /\ hand[h].snap = None
Removal ==
  conf = None /\ ~StopPending =>
    \A i \in Prober : prober[i].alive => prober[i].ctx \in Handler

(* As long as no two handlers have reconciled at once.                     *)
Alone ==
  ~overlap =>
    /\ \A g, h \in Handler : Reconciling(g) /\ Reconciling(h) => g = h
    /\ \A h \in Handler : hand[h].pc \in {"apply", "start"} => hand[h].snap = conf
    /\ \A h \in Handler : hand[h].pc = "start" => handle = None
    /\ \A i \in Prober : prober[i].alive => i = handle
    /\ (\A h \in Handler : ~Reconciling(h)) =>
         /\ conf = None <=> handle = None
         /\ handle # None => prober[handle].limit = conf

IInv ==
  /\ TypeOK /\ Rounds /\ LimitsTogether
  /\ Contexts /\ Starting /\ Removal /\ Alone

-----------------------------------------------------------------------------
(* Types.                                                                  *)

LEMMA Assumed ==
  /\ Boot \notin Handler /\ None \notin Nat /\ None \notin Key
  /\ Quota \in Nat \ {0} /\ Limit \subseteq Nat /\ MaxTime \in Nat
  /\ MaxEvents \in Nat /\ MaxProber \in Nat /\ MaxEvents < MaxProber
  /\ Prober \subseteq Nat /\ 1 \in Prober
BY WindowAssumption, BoundAssumption, NameAssumption
   DEF WindowAssumption, BoundAssumption, NameAssumption, Prober

LEMMA UnusedTyped ==
  Unused \in ProberType
BY Assumed DEF Unused, ProberType, RefreshState

LEMMA NewTyped ==
  ASSUME NEW c \in Handler \cup {Boot}, NEW lim \in Limit
  PROVE  NewRefresher(c, lim) \in ProberType
BY UnusedTyped DEF NewRefresher, Unused, ProberType

LEMMA SetTyped ==
  ASSUME prober \in [Prober -> ProberType], NEW i \in Prober, NEW r \in ProberType,
         Set(i, r)
  PROVE  prober' \in [Prober -> ProberType]
BY DEF Set

LimitType == [Key -> [Kind -> [hard : Limit \cup {None}, by : Prober \cup {None}]]]

LEMMA UnwrittenTyped ==
  [k \in Key |-> Unwritten] \in LimitType
BY DEF Unwritten, LimitType

\* A reset writes one limit, and nothing below zero.
LEMMA ZeroedTyped ==
  ASSUME TypeOK, NEW i \in Prober, NEW k, NEW kind, NEW hard \in Limit \cup {None},
         Zeroed(i, k, kind, hard)
  PROVE  limit' \in LimitType /\ count' \in [Key -> Nat] /\ zeroed' \in [Key -> Nat]
<1>1. limit \in LimitType /\ count \in [Key -> Nat] /\ zeroed \in [Key -> Nat]
  BY DEF TypeOK, LimitType
<1>2. count' \in [Key -> Nat] /\ zeroed' \in [Key -> Nat]
  BY <1>1 DEF Zeroed
<1> DEFINE w == [hard |-> hard, by |-> i]
<1>3. w \in [hard : Limit \cup {None}, by : Prober \cup {None}]
  OBVIOUS
<1>4. limit' = [limit EXCEPT ![k][kind] = w]
  BY DEF Zeroed
<1> HIDE DEF w
<1>5. limit' \in LimitType
  BY <1>1, <1>3, <1>4 DEF LimitType
<1> QED
  BY <1>2, <1>5

\* What a step of a prober makes of its record.
LEMMA RecordTyped ==
  ASSUME NEW r \in ProberType
  PROVE  /\ AfterWindow(r) \in ProberType
         /\ NextKey(r) \in ProberType
         /\ \A t \in 0 .. MaxTime, L \in SUBSET Key :
              [r EXCEPT !.pc = "keys", !.began = t, !.list = L, !.todo = L] \in ProberType
         /\ \A lim \in Limit : [r EXCEPT !.limit = lim] \in ProberType
         /\ [r EXCEPT !.alive = FALSE] \in ProberType
         /\ [r EXCEPT !.pc = "token"] \in ProberType
<1>1. AfterWindow(r) \in ProberType
  <2> DEFINE s == [k \in Key |-> IF Settled(r.state[k]) THEN "idle" ELSE r.state[k]]
             l == [k \in Key |-> IF Settled(r.state[k]) THEN None ELSE r.last[k]]
  <2>1. s \in [Key -> RefreshState] /\ l \in [Key -> 0 .. MaxTime \cup {None}]
    BY DEF ProberType, RefreshState
  <2>2. AfterWindow(r) = [r EXCEPT !.state = s, !.last = l]
    BY DEF AfterWindow, ProberType
  <2> HIDE DEF s, l
  <2> QED
    BY <2>1, <2>2 DEF ProberType
<1>2. NextKey(r) \in ProberType
  BY DEF NextKey, ProberType
<1>3. \A t \in 0 .. MaxTime, L \in SUBSET Key :
        [r EXCEPT !.pc = "keys", !.began = t, !.list = L, !.todo = L] \in ProberType
  BY DEF ProberType
<1>4. \A lim \in Limit : [r EXCEPT !.limit = lim] \in ProberType
  BY DEF ProberType
<1>5. [r EXCEPT !.alive = FALSE] \in ProberType /\ [r EXCEPT !.pc = "token"] \in ProberType
  BY DEF ProberType
<1> QED
  BY <1>1, <1>2, <1>3, <1>4, <1>5
\* What a prober's step leaves of the types.
LEMMA ProberTyped ==
  ASSUME TypeOK, Rounds, NEW i \in Prober, ProberStep(i)
  PROVE  /\ prober' \in [Prober -> ProberType]
         /\ limit' \in LimitType /\ count' \in [Key -> Nat] /\ zeroed' \in [Key -> Nat]
         /\ excused' \in [Key -> Nat] /\ answered' \subseteq Key /\ used' \in 0 .. MaxEvents
         /\ UNCHANGED <<now, spent, renewed, fleet>>
<1>0. /\ prober \in [Prober -> ProberType] /\ now \in 0 .. MaxTime
      /\ limit \in LimitType /\ count \in [Key -> Nat] /\ zeroed \in [Key -> Nat]
      /\ excused \in [Key -> Nat] /\ answered \subseteq Key /\ used \in 0 .. MaxEvents
      /\ prober[i] \in ProberType
  BY DEF TypeOK, LimitType
<1>1. CASE Begin(i)
  <2>1. \/ Set(i, AfterWindow(prober[i]))
        \/ \E L \in SUBSET Key : Set(i, [prober[i] EXCEPT !.pc = "keys", !.began = now,
                                                         !.list = L, !.todo = L])
    BY <1>1 DEF Begin
  <2>2. prober' \in [Prober -> ProberType]
    BY <1>0, <2>1, SetTyped, RecordTyped
  <2> QED
    BY <1>0, <1>1, <2>2 DEF Begin, ledger
<1>2. CASE \E k \in Key : Consider(i, k)
  <2> PICK k \in Key : Consider(i, k)
    BY <1>2
  <2> DEFINE r == [prober[i] EXCEPT !.todo = @ \ {k}]
  <2>1. r \in ProberType
    BY <1>0 DEF ProberType
  <2> DEFINE a == [r EXCEPT !.pc = "probe", !.key = k, !.state[k] = "probing",
                            !.last[k] = r.began]
             b == [r EXCEPT !.state[k] = IF @ = "idle" THEN "pending" ELSE @]
  <2>2. Set(i, a) \/ Set(i, b)
    BY DEF Consider
  <2> HIDE DEF r
  <2>3. a \in ProberType
    <3> DEFINE st == [r.state EXCEPT ![k] = "probing"]
               la == [r.last EXCEPT ![k] = r.began]
    <3>1. st \in [Key -> RefreshState] /\ la \in [Key -> 0 .. MaxTime \cup {None}]
      BY <2>1 DEF ProberType, RefreshState
    <3>2. a = [r EXCEPT !.pc = "probe", !.key = k, !.state = st, !.last = la]
      BY <2>1 DEF ProberType
    <3> HIDE DEF st, la
    <3> QED
      BY <2>1, <3>1, <3>2 DEF ProberType
  <2>4. b \in ProberType
    <3> DEFINE st == [r.state EXCEPT ![k] = IF @ = "idle" THEN "pending" ELSE @]
    <3>1. st \in [Key -> RefreshState]
      BY <2>1 DEF ProberType, RefreshState
    <3>2. b = [r EXCEPT !.state = st]
      BY <2>1 DEF ProberType
    <3> HIDE DEF st
    <3> QED
      BY <2>1, <3>1, <3>2 DEF ProberType
  <2> HIDE DEF a, b
  <2>5. prober' \in [Prober -> ProberType]
    BY <1>0, <2>2, <2>3, <2>4, SetTyped
  <2>6. UNCHANGED <<now, ledger, fleet, used>>
    BY DEF Consider
  <2> QED
    BY <1>0, <2>5, <2>6 DEF ledger
<1>3. CASE Probe(i)
  <2>1. /\ Set(i, [prober[i] EXCEPT !.pc = "token"]) \/ Set(i, NextKey(prober[i]))
        /\ UNCHANGED <<now, spent, renewed, count, limit, zeroed, excused, fleet, used>>
        /\ prober[i].key \in Key
    BY <1>3 DEF Probe, Rounds
  <2>2. prober' \in [Prober -> ProberType]
    BY <1>0, <2>1, SetTyped, RecordTyped
  <2>3. answered' \subseteq Key
    BY <1>0, <1>3, <2>1 DEF Probe
  <2> QED
    BY <1>0, <2>1, <2>2, <2>3
<1>4. CASE ResetToken(i)
  <2> DEFINE r == prober[i]
             k == r.key
             a == [r EXCEPT !.pc = "count", !.other = r.limit]
  <2>1. /\ Set(i, a) \/ Set(i, NextKey(r))
        /\ Zeroed(i, k, "token", r.limit) \/ UNCHANGED <<count, limit, zeroed>>
        /\ excused' = excused \/ excused' = [excused EXCEPT ![k] = @ + 1]
        /\ UNCHANGED <<now, spent, renewed, answered, fleet>>
    BY <1>4 DEF ResetToken
  <2>2. a \in ProberType /\ r.limit \in Limit \cup {None}
    BY <1>0 DEF ProberType
  <2>3. used' \in 0 .. MaxEvents
    BY <1>0, <1>4, Assumed DEF ResetToken, Fails, Spend
  <2> HIDE DEF a
  <2>4. prober' \in [Prober -> ProberType]
    BY <1>0, <2>1, <2>2, SetTyped, RecordTyped
  <2>5. excused' \in [Key -> Nat]
    BY <1>0, <2>1
  <2> HIDE DEF r, k
  <2>6. limit' \in LimitType /\ count' \in [Key -> Nat] /\ zeroed' \in [Key -> Nat]
    BY <1>0, <2>1, <2>2, ZeroedTyped
  <2> QED
    BY <1>0, <2>1, <2>3, <2>4, <2>5, <2>6
<1>5. CASE ResetCount(i)
  <2> DEFINE r == prober[i]
             k == r.key
             n == NextKey(r)
             a == [n EXCEPT !.state[k] = "confirmed"]
  <2>1. /\ Set(i, a) \/ Set(i, n)
        /\ Zeroed(i, k, "count", r.other) \/ UNCHANGED <<count, limit, zeroed>>
        /\ excused' = excused \/ excused' = [excused EXCEPT ![k] = @ + 1]
        /\ UNCHANGED <<now, spent, renewed, answered, fleet>>
    BY <1>5 DEF ResetCount, OtherLimit
  <2>2. n \in ProberType /\ r.other \in Limit \cup {None}
    BY <1>0, RecordTyped DEF ProberType
  <2>3. used' \in 0 .. MaxEvents
    BY <1>0, <1>5, Assumed DEF ResetCount, Fails, Spend
  <2> HIDE DEF n
  <2>4. a \in ProberType
    <3> DEFINE st == [n.state EXCEPT ![k] = "confirmed"]
    <3>1. st \in [Key -> RefreshState]
      BY <2>2 DEF ProberType, RefreshState
    <3>2. a = [n EXCEPT !.state = st]
      BY <2>2 DEF ProberType
    <3> HIDE DEF st
    <3> QED
      BY <2>2, <3>1, <3>2 DEF ProberType
  <2> HIDE DEF a
  <2>5. prober' \in [Prober -> ProberType]
    BY <1>0, <2>1, <2>2, <2>4, SetTyped
  <2>6. excused' \in [Key -> Nat]
    BY <1>0, <2>1
  <2> HIDE DEF r, k
  <2>7. limit' \in LimitType /\ count' \in [Key -> Nat] /\ zeroed' \in [Key -> Nat]
    BY <1>0, <2>1, <2>2, ZeroedTyped
  <2> QED
    BY <1>0, <2>1, <2>3, <2>5, <2>6, <2>7
<1>6. CASE End(i)
  <2> DEFINE r == [prober[i] EXCEPT !.pc = "wait", !.list = {}, !.began = 0]
             st == [k \in Key |-> IF k \in prober[i].list
                                     /\ r.state[k] \in {"pending", "probing"}
                                  THEN "failed" ELSE r.state[k]]
  <2>1. r \in ProberType
    <3>1. 0 \in 0 .. MaxTime /\ {} \in SUBSET Key
      BY Assumed
    <3> QED
      BY <1>0, <3>1 DEF ProberType
  <2>2. Set(i, r) \/ Set(i, [r EXCEPT !.state = st])
    BY <1>0, <1>6 DEF End, ProberType
  <2> HIDE DEF r
  <2>3. st \in [Key -> RefreshState]
    BY <2>1 DEF ProberType, RefreshState
  <2> HIDE DEF st
  <2>4. [r EXCEPT !.state = st] \in ProberType
    BY <2>1, <2>3 DEF ProberType
  <2>5. prober' \in [Prober -> ProberType]
    BY <1>0, <2>1, <2>2, <2>4, SetTyped
  <2>6. UNCHANGED <<now, ledger, fleet, used>>
    BY <1>6 DEF End
  <2> QED
    BY <1>0, <2>5, <2>6 DEF ledger
<1>7. CASE Exit(i)
  <2>1. [Unused EXCEPT !.pc = "gone", !.limit = prober[i].limit] \in ProberType
    BY <1>0, UnusedTyped DEF ProberType
  <2>2. prober' \in [Prober -> ProberType] /\ UNCHANGED <<now, ledger, fleet, used>>
    BY <1>0, <1>7, <2>1, SetTyped DEF Exit
  <2> QED
    BY <1>0, <2>2 DEF ledger
<1> QED
  BY <1>1, <1>2, <1>3, <1>4, <1>5, <1>6, <1>7 DEF ProberStep
LEMMA BootedTyped ==
  ASSUME NEW c \in Conf, Booted(c)
  PROVE  /\ prober' \in [Prober -> ProberType] /\ handle' \in Prober \cup {None}
         /\ hand' \in [Handler -> HandType]
<1>1. c # None => NewRefresher(Boot, c) \in ProberType
  BY NewTyped DEF Conf
<1>2. hand' \in [Handler -> HandType]
  BY DEF Booted, IdleHand, HandType, Conf
<1>3. handle' \in Prober \cup {None}
  BY Assumed DEF Booted
<1> QED
  BY <1>1, <1>2, <1>3, UnusedTyped DEF Booted

\* A reload gives a prober another limit, stops it, or starts a missing one.
LEMMA ApplyTyped ==
  ASSUME TypeOK, NEW h \in Handler, Apply(h)
  PROVE  /\ prober' \in [Prober -> ProberType] /\ handle' \in Prober \cup {None}
         /\ excused' \in [Key -> Nat]
<1>0. /\ prober \in [Prober -> ProberType] /\ handle \in Prober \cup {None}
      /\ excused \in [Key -> Nat] /\ zeroed \in [Key -> Nat]
      /\ hand[h].snap \in Limit \cup {None}
  BY DEF TypeOK, HandType, Conf
<1>1. CASE hand[h].snap # None /\ ~Missing /\ UpdateLimits(hand[h].snap)
           /\ UNCHANGED <<handle, excused>>
  <2>1. handle \in Prober /\ prober[handle] \in ProberType /\ hand[h].snap \in Limit
    BY <1>0, <1>1 DEF Missing
  <2>2. [prober[handle] EXCEPT !.limit = hand[h].snap] \in ProberType
    BY <2>1, RecordTyped
  <2> QED
    BY <1>0, <1>1, <2>1, <2>2, SetTyped DEF UpdateLimits
<1>2. CASE UNCHANGED <<prober, handle, excused>>
  BY <1>0, <1>2
<1>3. CASE Stop
  <2>1. CASE handle # None /\ handle' = None /\ Forgotten
             /\ Set(handle, [prober[handle] EXCEPT !.alive = FALSE])
    <3>1. handle \in Prober /\ prober[handle] \in ProberType
      BY <1>0, <2>1
    <3>2. [prober[handle] EXCEPT !.alive = FALSE] \in ProberType
      BY <3>1, RecordTyped
    <3>3. excused' \in [Key -> Nat]
      BY <1>0, <2>1 DEF Forgotten
    <3> QED
      BY <1>0, <2>1, <3>1, <3>2, <3>3, SetTyped
  <2> QED
    BY <1>2, <1>3, <2>1 DEF Stop
<1> QED
  BY <1>1, <1>2, <1>3 DEF Apply

LEMMA StartTyped ==
  ASSUME TypeOK, Starting, NEW h \in Handler, Start(h)
  PROVE  /\ prober' \in [Prober -> ProberType] /\ handle' \in Prober \cup {None}
<1>1. prober \in [Prober -> ProberType] /\ hand[h].snap \in Limit
  BY DEF TypeOK, HandType, Conf, Starting, Start
<1>2. NewRefresher(h, hand[h].snap) \in ProberType
  BY <1>1, NewTyped
<1>3. PICK i \in Prober : Set(i, NewRefresher(h, hand[h].snap)) /\ handle' = i
  BY DEF Start
<1> QED
  BY <1>1, <1>2, <1>3, SetTyped

LEMMA TypeStep ==
  ASSUME IInv, Next
  PROVE  TypeOK'
<1> USE Assumed DEF IInv
<1>0. /\ TypeOK /\ limit \in LimitType
      /\ conf \in Conf /\ handle \in Prober \cup {None}
      /\ prober \in [Prober -> ProberType] /\ hand \in [Handler -> HandType]
      /\ count \in [Key -> Nat] /\ zeroed \in [Key -> Nat] /\ excused \in [Key -> Nat]
      /\ used \in 0 .. MaxEvents /\ now \in 0 .. MaxTime
  BY DEF TypeOK, LimitType
<1>1. ASSUME NEW i \in Prober, ProberStep(i) PROVE TypeOK'
  <2>1. UNCHANGED <<conf, handle, hand, overlap>>
    BY <1>0, <1>1, ProberTyped DEF fleet
  <2> QED
    BY <1>0, <1>1, <2>1, ProberTyped DEF TypeOK, LimitType
<1>2. CASE Tick
  <2>1. /\ now' \in 0 .. MaxTime
        /\ UNCHANGED <<prober, conf, handle, hand, overlap, used, spent>>
    BY <1>0, <1>2 DEF Tick, ledger, fleet
  <2>2. CASE UNCHANGED ledger
    BY <1>0, <2>1, <2>2 DEF ledger, TypeOK, LimitType
  <2>3. CASE /\ count' = [k \in Key |-> 0] /\ limit' = [k \in Key |-> Unwritten]
             /\ zeroed' = [k \in Key |-> 0] /\ excused' = [k \in Key |-> 0]
             /\ renewed' = {} /\ answered' = {}
    <3>1. limit' \in LimitType
      BY <2>3, UnwrittenTyped
    <3> QED
      BY <1>0, <2>1, <2>3, <3>1 DEF TypeOK, LimitType
  <2> QED
    BY <1>2, <2>2, <2>3 DEF Tick
<1>3. ASSUME NEW k \in Key, Renew(k) PROVE TypeOK'
  <2>1. spent' \in [Key -> 0 .. Quota] /\ renewed' \subseteq Key
    BY <1>0, <1>3 DEF Renew, TypeOK
  <2> QED
    BY <1>0, <1>3, <2>1 DEF Renew, fleet, TypeOK
<1>4. ASSUME NEW k \in Key, Use(k) PROVE TypeOK'
  <2>1. spent' \in [Key -> 0 .. Quota] /\ count' \in [Key -> Nat]
    BY <1>0, <1>4 DEF Use, TypeOK
  <2> DEFINE w == [kind \in Kind |-> [hard |-> conf, by |-> None]]
  <2>2. w \in [Kind -> [hard : Limit \cup {None}, by : Prober \cup {None}]]
    BY <1>0, <1>4 DEF Use, Conf
  <2>3. limit' = [limit EXCEPT ![k] = w]
    BY <1>4 DEF Use
  <2> HIDE DEF w
  <2>4. limit' \in LimitType
    BY <1>0, <2>2, <2>3 DEF LimitType
  <2> QED
    BY <1>0, <1>4, <2>1, <2>4 DEF Use, fleet, TypeOK, LimitType
<1>5. ASSUME NEW h \in Handler, NEW c \in Conf, Change(h, c) PROVE TypeOK'
  <2>1. /\ hand' \in [Handler -> HandType] /\ used' \in 0 .. MaxEvents /\ conf' \in Conf
        /\ UNCHANGED <<now, ledger, prober, handle>>
    BY <1>0, <1>5 DEF Change, Spend, HandType, Conf
  <2>2. overlap' \in BOOLEAN
    BY <1>5 DEF Change
  <2> QED
    BY <1>0, <2>1, <2>2 DEF TypeOK, ledger
<1>6. ASSUME NEW h \in Handler, ReadSnapshot(h) PROVE TypeOK'
  <2>1. hand' \in [Handler -> HandType]
    BY <1>0, <1>6 DEF ReadSnapshot, HandType
  <2> QED
    BY <1>0, <1>6, <2>1 DEF ReadSnapshot, TypeOK, ledger
<1>7. ASSUME NEW h \in Handler, Apply(h) PROVE TypeOK'
  <2>1. hand' \in [Handler -> HandType]
    BY <1>0, <1>7 DEF Apply, ToAnswer, HandType, Conf
  <2> QED
    BY <1>0, <1>7, <2>1, ApplyTyped DEF Apply, TypeOK
<1>10. ASSUME NEW h \in Handler, Start(h) PROVE TypeOK'
  <2>1. hand' \in [Handler -> HandType]
    BY <1>0, <1>10 DEF Start, ToAnswer, HandType, Conf
  <2> QED
    BY <1>0, <1>10, <2>1, StartTyped DEF Start, TypeOK, ledger
<1>8. ASSUME NEW h \in Handler, Answer(h) PROVE TypeOK'
  <2>1. hand' \in [Handler -> HandType]
    BY <1>0, <1>8 DEF Answer, IdleHand, HandType, Conf
  <2>2. prober' \in [Prober -> ProberType]
    <3>1. \A i \in Prober : [prober[i] EXCEPT !.alive = FALSE] \in ProberType
      BY <1>0, RecordTyped
    <3> QED
      BY <1>0, <1>8, <3>1 DEF Answer
  <2> QED
    BY <1>0, <1>8, <2>1, <2>2 DEF Answer, TypeOK, ledger
<1>9. CASE Restart
  <2>1. used' \in 0 .. MaxEvents /\ excused' \in [Key -> Nat] /\ overlap' = FALSE
    BY <1>0, <1>9 DEF Restart, Spend, Forgotten
  <2>2. limit' \in LimitType
    <3>1. \A k \in Key, kind \in Kind :
            [limit[k][kind] EXCEPT !.by = None]
              \in [hard : Limit \cup {None}, by : Prober \cup {None}]
      <4>1. \A k \in Key, kind \in Kind :
              limit[k][kind] \in [hard : Limit \cup {None}, by : Prober \cup {None}]
        BY <1>0 DEF LimitType
      <4> QED
        BY <4>1
    <3> QED
      BY <1>9, <3>1 DEF Restart, LimitType
  <2>3. UNCHANGED <<now, conf, spent, renewed, count, zeroed, answered>>
    BY <1>9 DEF Restart
  <2>4. /\ prober' \in [Prober -> ProberType] /\ handle' \in Prober \cup {None}
        /\ hand' \in [Handler -> HandType]
    BY <1>0, <1>9, BootedTyped DEF Restart
  <2> QED
    BY <1>0, <2>1, <2>2, <2>3, <2>4 DEF TypeOK, LimitType
<1> QED
  BY <1>1, <1>2, <1>3, <1>4, <1>5, <1>6, <1>7, <1>8, <1>9, <1>10 DEF Next, HandlerStep

-----------------------------------------------------------------------------
(* The limits a confirmation writes.                                       *)

\* What a reset leaves of the other limits.
LEMMA ZeroedWrites ==
  ASSUME TypeOK, NEW i \in Prober, NEW k \in Key, NEW kind \in Kind, NEW hard,
         Zeroed(i, k, kind, hard)
  PROVE  /\ limit'[k][kind].hard = hard /\ limit'[k][kind].by = i
         /\ \A q \in Key, z \in Kind : q # k \/ z # kind => limit'[q][z] = limit[q][z]
<1>1. limit \in LimitType
  BY DEF TypeOK, LimitType
<1>2. limit' = [limit EXCEPT ![k][kind] = [hard |-> hard, by |-> i]]
  BY DEF Zeroed
<1> QED
  BY <1>1, <1>2 DEF LimitType

Written == Rounds /\ LimitsTogether

\* A step of prober i that writes no limit and confirms nothing.
LEMMA QuietStep ==
  ASSUME Written, NEW i \in Prober, UNCHANGED limit,
         \A j \in Prober : j # i => prober'[j] = prober[j],
         \A q \in Key : prober'[i].state[q] = "confirmed"
                        => prober[i].state[q] = "confirmed",
         prober'[i].pc \in {"probe", "token"} =>
           prober'[i].key \in Key /\ prober'[i].state[prober'[i].key] = "probing",
         prober'[i].pc # "count"
  PROVE  Written'
BY DEF Written, Rounds, LimitsTogether

LEMMA ProberWrites ==
  ASSUME TypeOK, Written, NEW i \in Prober, ProberStep(i)
  PROVE  Written'
<1>0. /\ prober \in [Prober -> ProberType] /\ prober[i] \in ProberType
      /\ "token" \in Kind /\ "count" \in Kind
  BY DEF TypeOK, Kind
<1>1. ASSUME NEW r, Set(i, r)
      PROVE  prober'[i] = r /\ \A j \in Prober : j # i => prober'[j] = prober[j]
  BY <1>0, <1>1 DEF Set
<1>2. CASE Begin(i)
  <2>1. \/ Set(i, AfterWindow(prober[i]))
        \/ \E L \in SUBSET Key : Set(i, [prober[i] EXCEPT !.pc = "keys", !.began = now,
                                                         !.list = L, !.todo = L])
    BY <1>2 DEF Begin
  <2>2. UNCHANGED limit /\ prober[i].pc = "wait"
    BY <1>2 DEF Begin, ledger
  <2>3. CASE Set(i, AfterWindow(prober[i]))
    <3> DEFINE r == AfterWindow(prober[i])
    <3>1. /\ r.pc = "wait"
          /\ \A q \in Key : r.state[q] = "confirmed" => prober[i].state[q] = "confirmed"
      BY <1>0, <2>2 DEF AfterWindow, ProberType
    <3> HIDE DEF r
    <3>2. prober'[i] = r /\ \A j \in Prober : j # i => prober'[j] = prober[j]
      BY <1>1, <2>3 DEF r
    <3> QED
      BY <2>2, <3>1, <3>2, QuietStep
  <2>4. ASSUME NEW L \in SUBSET Key,
               Set(i, [prober[i] EXCEPT !.pc = "keys", !.began = now, !.list = L, !.todo = L])
        PROVE  Written'
    <3> DEFINE r == [prober[i] EXCEPT !.pc = "keys", !.began = now, !.list = L, !.todo = L]
    <3>1. r.pc = "keys" /\ r.state = prober[i].state
      BY <1>0 DEF ProberType
    <3> HIDE DEF r
    <3>2. prober'[i] = r /\ \A j \in Prober : j # i => prober'[j] = prober[j]
      BY <1>1, <2>4 DEF r
    <3> QED
      BY <2>2, <3>1, <3>2, QuietStep
  <2> QED
    BY <2>1, <2>3, <2>4
<1>3. ASSUME NEW k \in Key, Consider(i, k) PROVE Written'
  <2> DEFINE r == [prober[i] EXCEPT !.todo = @ \ {k}]
             a == [r EXCEPT !.pc = "probe", !.key = k, !.state[k] = "probing",
                            !.last[k] = r.began]
             b == [r EXCEPT !.state[k] = IF @ = "idle" THEN "pending" ELSE @]
  <2>1. (Set(i, a) \/ Set(i, b)) /\ UNCHANGED limit /\ prober[i].pc = "keys"
    BY <1>3 DEF Consider, ledger
  <2>2. r \in ProberType /\ r.pc = prober[i].pc /\ r.state = prober[i].state
    BY <1>0 DEF ProberType
  <2> HIDE DEF r
  <2>3. /\ a.pc = "probe" /\ a.key = k /\ a.state[k] = "probing"
        /\ \A q \in Key : a.state[q] = "confirmed" => r.state[q] = "confirmed"
    BY <2>2 DEF ProberType
  <2>4. /\ b.pc = r.pc
        /\ \A q \in Key : b.state[q] = "confirmed" => r.state[q] = "confirmed"
    BY <2>2 DEF ProberType
  <2> HIDE DEF a, b
  <2>5. CASE Set(i, a)
    <3>1. prober'[i] = a /\ \A j \in Prober : j # i => prober'[j] = prober[j]
      BY <1>1, <2>5
    <3> QED
      BY <2>1, <2>2, <2>3, <3>1, QuietStep
  <2>6. CASE Set(i, b)
    <3>1. prober'[i] = b /\ \A j \in Prober : j # i => prober'[j] = prober[j]
      BY <1>1, <2>6
    <3> QED
      BY <2>1, <2>2, <2>4, <3>1, QuietStep
  <2> QED
    BY <2>1, <2>5, <2>6
\* What NextKey leaves.
<1>4. /\ NextKey(prober[i]) \in ProberType /\ NextKey(prober[i]).pc = "keys"
      /\ NextKey(prober[i]).state = prober[i].state
  <2>1. NextKey(prober[i]) \in ProberType
    BY <1>0, RecordTyped
  <2>2. NextKey(prober[i]).pc = "keys" /\ NextKey(prober[i]).state = prober[i].state
    BY <1>0 DEF NextKey, ProberType
  <2> QED
    BY <2>1, <2>2
<1>5. CASE Probe(i)
  <2> DEFINE a == [prober[i] EXCEPT !.pc = "token"]
  <2>1. (Set(i, a) \/ Set(i, NextKey(prober[i]))) /\ UNCHANGED limit /\ prober[i].pc = "probe"
    BY <1>5 DEF Probe
  <2>2. a.pc = "token" /\ a.state = prober[i].state /\ a.key = prober[i].key
    BY <1>0 DEF ProberType
  <2>3. prober[i].key \in Key /\ prober[i].state[prober[i].key] = "probing"
    BY <2>1 DEF Written, Rounds
  <2> HIDE DEF a
  <2>4. CASE Set(i, a)
    <3>1. prober'[i] = a /\ \A j \in Prober : j # i => prober'[j] = prober[j]
      BY <1>1, <2>4
    <3> QED
      BY <2>1, <2>2, <2>3, <3>1, QuietStep
  <2>5. CASE Set(i, NextKey(prober[i]))
    <3>1. /\ prober'[i] = NextKey(prober[i])
          /\ \A j \in Prober : j # i => prober'[j] = prober[j]
      BY <1>1, <2>5
    <3> QED
      BY <1>4, <2>1, <3>1, QuietStep
  <2> QED
    BY <2>1, <2>4, <2>5
<1>6. CASE ResetToken(i)
  <2> DEFINE r == prober[i]
             k == r.key
             a == [r EXCEPT !.pc = "count", !.other = r.limit]
  <2>1. \/ Zeroed(i, k, "token", r.limit) /\ Set(i, a)
        \/ Zeroed(i, k, "token", r.limit) /\ Set(i, NextKey(r))
        \/ UNCHANGED limit /\ Set(i, NextKey(r))
    BY <1>6 DEF ResetToken
  <2>2. k \in Key /\ r.state[k] = "probing"
    BY <1>6 DEF ResetToken, Written, Rounds
  <2>3. a.pc = "count" /\ a.other = r.limit /\ a.key = k /\ a.state = r.state
    BY <1>0 DEF ProberType
  <2> HIDE DEF a
  <2>4. CASE UNCHANGED limit /\ Set(i, NextKey(r))
    <3>1. prober'[i] = NextKey(r) /\ \A j \in Prober : j # i => prober'[j] = prober[j]
      BY <1>1, <2>4
    <3> QED
      BY <1>4, <2>4, <3>1, QuietStep
  <2>5. ASSUME NEW n, Set(i, n), Zeroed(i, k, "token", r.limit),
               n = a \/ n = NextKey(r)
        PROVE  Written'
    <3>1. prober'[i] = n /\ \A j \in Prober : j # i => prober'[j] = prober[j]
      BY <1>1, <2>5
    <3>2. /\ limit'[k]["token"].hard = r.limit /\ limit'[k]["token"].by = i
          /\ \A q \in Key, z \in Kind : q # k \/ z # "token" => limit'[q][z] = limit[q][z]
      BY <1>0, <2>2, <2>5, ZeroedWrites
    <3>3. n.state = r.state /\ (n.pc = "count" => n.other = r.limit /\ n.key = k)
          /\ n.pc \in {"count", "keys"}
      BY <1>4, <2>3, <2>5
    <3> HIDE DEF r, k
    <3>4. Rounds'
      BY <1>0, <2>2, <3>1, <3>2, <3>3 DEF Written, Rounds, r, k
    <3>5. LimitsTogether'
      BY <1>0, <2>2, <3>1, <3>2, <3>3 DEF Written, LimitsTogether, r, k
    <3> QED
      BY <3>4, <3>5 DEF Written
  <2> QED
    BY <2>1, <2>4, <2>5
<1>7. CASE ResetCount(i)
  <2> DEFINE r == prober[i]
             k == r.key
             n == NextKey(r)
             a == [n EXCEPT !.state[k] = "confirmed"]
  <2>1. \/ Zeroed(i, k, "count", r.other) /\ Set(i, a)
        \/ Zeroed(i, k, "count", r.other) /\ Set(i, n)
        \/ UNCHANGED limit /\ Set(i, n)
    BY <1>7 DEF ResetCount, OtherLimit
  <2>2. /\ k \in Key /\ r.state[k] = "probing" /\ r.pc = "count"
        /\ limit[k]["token"].by = i => limit[k]["token"].hard = r.other
    BY <1>7 DEF ResetCount, Written, Rounds
  <2>3. a.pc = "keys" /\ \A q \in Key : q # k => a.state[q] = r.state[q]
    BY <1>4 DEF ProberType
  <2> HIDE DEF a
  <2>4. CASE UNCHANGED limit /\ Set(i, n)
    <3>1. prober'[i] = n /\ \A j \in Prober : j # i => prober'[j] = prober[j]
      BY <1>1, <2>4
    <3> QED
      BY <1>4, <2>4, <3>1, QuietStep
  <2>5. ASSUME NEW m, Set(i, m), Zeroed(i, k, "count", r.other),
               m = a \/ m = n
        PROVE  Written'
    <3>1. prober'[i] = m /\ \A j \in Prober : j # i => prober'[j] = prober[j]
      BY <1>1, <2>5
    <3>2. /\ limit'[k]["count"].hard = r.other /\ limit'[k]["count"].by = i
          /\ \A q \in Key, z \in Kind : q # k \/ z # "count" => limit'[q][z] = limit[q][z]
      BY <1>0, <2>2, <2>5, ZeroedWrites
    <3>3. m.pc = "keys" /\ \A q \in Key : q # k => m.state[q] = r.state[q]
      BY <1>4, <2>3, <2>5
    <3>4. Rounds'
      BY <1>0, <2>2, <3>1, <3>2, <3>3 DEF Written, Rounds
    <3>5. LimitsTogether'
      BY <1>0, <2>2, <3>1, <3>2, <3>3 DEF Written, LimitsTogether
    <3> QED
      BY <3>4, <3>5 DEF Written
  <2> QED
    BY <2>1, <2>4, <2>5
<1>8. CASE End(i)
  <2> DEFINE r == [prober[i] EXCEPT !.pc = "wait", !.list = {}, !.began = 0]
             st == [k \in Key |-> IF k \in prober[i].list
                                     /\ r.state[k] \in {"pending", "probing"}
                                  THEN "failed" ELSE r.state[k]]
             e == [r EXCEPT !.state = st]
  <2>1. UNCHANGED limit /\ (Set(i, r) \/ Set(i, e))
    BY <1>0, <1>8 DEF End, ledger, ProberType
  <2>2. r.pc = "wait" /\ r.state = prober[i].state
    BY <1>0 DEF ProberType
  <2>3. e.pc = "wait" /\ e.state = st
    BY <1>0 DEF ProberType
  <2> HIDE DEF r, e
  <2>4. \A q \in Key : st[q] = "confirmed" => prober[i].state[q] = "confirmed"
    BY <2>2
  <2> HIDE DEF st
  <2>5. CASE Set(i, r)
    <3>1. prober'[i] = r /\ \A j \in Prober : j # i => prober'[j] = prober[j]
      BY <1>1, <2>5
    <3> QED
      BY <2>1, <2>2, <3>1, QuietStep
  <2>6. CASE Set(i, e)
    <3>1. prober'[i] = e /\ \A j \in Prober : j # i => prober'[j] = prober[j]
      BY <1>1, <2>6
    <3> QED
      BY <2>1, <2>3, <2>4, <3>1, QuietStep
  <2> QED
    BY <2>1, <2>5, <2>6
<1>9. CASE Exit(i)
  <2> DEFINE r == [Unused EXCEPT !.pc = "gone", !.limit = prober[i].limit]
  <2>1. r.pc = "gone" /\ \A q \in Key : r.state[q] = "idle"
    BY DEF Unused
  <2> HIDE DEF r
  <2>2. UNCHANGED limit /\ Set(i, r)
    BY <1>9 DEF Exit, ledger, r
  <2>3. prober'[i] = r /\ \A j \in Prober : j # i => prober'[j] = prober[j]
    BY <1>1, <2>2
  <2> QED
    BY <2>1, <2>2, <2>3, QuietStep
<1> QED
  BY <1>2, <1>3, <1>5, <1>6, <1>7, <1>8, <1>9 DEF ProberStep
LEMMA BootedWrites ==
  ASSUME NEW c, Booted(c)
  PROVE  /\ \A i \in Prober : prober'[i].pc \in {"unused", "wait"}
         /\ \A i \in Prober, k \in Key : prober'[i].state[k] = "idle"
         /\ \A i \in Prober : prober'[i].alive => /\ i = 1 /\ c # None
                                                  /\ prober'[i].ctx = Boot
                                                  /\ prober'[i].limit = c
BY DEF Booted, NewRefresher, Unused

\* What a handler makes of the probers: it gives one a limit, starts an unused
\* one, or stops one.
LEMMA HandledProbers ==
  ASSUME TypeOK, NEW h \in Handler, HandlerStep(h)
  PROVE  /\ UNCHANGED <<limit, conf, overlap>>
         /\ \A i \in Prober :
              \/ /\ prober'[i].pc = prober[i].pc /\ prober'[i].key = prober[i].key
                 /\ prober'[i].state = prober[i].state /\ prober'[i].other = prober[i].other
                 /\ prober'[i].began = prober[i].began
              \/ /\ prober'[i].pc = "wait"
                 /\ \A k \in Key : prober'[i].state[k] = "idle"
<1>0. prober \in [Prober -> ProberType] /\ handle \in Prober \cup {None}
  BY DEF TypeOK
<1>1. UNCHANGED <<limit, conf, overlap>>
  BY DEF HandlerStep, ReadSnapshot, Apply, Start, Answer, ledger
<1>2. CASE ReadSnapshot(h)
  BY <1>1, <1>2 DEF ReadSnapshot
<1>3. CASE Answer(h)
  BY <1>0, <1>1, <1>3 DEF Answer, ProberType
<1>4. CASE Apply(h)
  <2>1. CASE Stop
    BY <1>0, <1>1, <2>1 DEF Stop, Set, ProberType
  <2>2. CASE ~Missing /\ UpdateLimits(hand[h].snap)
    BY <1>0, <1>1, <2>2 DEF Missing, UpdateLimits, Set, ProberType
  <2> QED
    BY <1>1, <1>4, <2>1, <2>2 DEF Apply
<1>5. CASE Start(h)
  <2>1. PICK i \in Prober : Set(i, NewRefresher(h, hand[h].snap))
    BY <1>5 DEF Start
  <2> QED
    BY <1>0, <1>1, <2>1 DEF Set, NewRefresher, Unused
<1> QED
  BY <1>2, <1>3, <1>4, <1>5 DEF HandlerStep

LEMMA WrittenStep ==
  ASSUME IInv, Next
  PROVE  Written'
<1> USE Assumed
<1>0. TypeOK /\ Written /\ limit \in LimitType /\ prober \in [Prober -> ProberType]
  BY DEF IInv, Written, TypeOK, LimitType
<1>1. ASSUME UNCHANGED prober, \A i \in Prober, k \in Key, kind \in Kind :
               limit'[k][kind] = limit[k][kind] \/ limit'[k][kind].by = None
      PROVE  Written'
  <2>1. "token" \in Kind /\ "count" \in Kind /\ \A i \in Prober : i # None
    BY DEF Kind
  <2> QED
    BY <1>0, <1>1, <2>1 DEF Written, Rounds, LimitsTogether
<1>2. CASE Tick
  <2>1. limit' = limit \/ limit' = [k \in Key |-> Unwritten]
    BY <1>2 DEF Tick, ledger
  <2> QED
    BY <1>1, <1>2, <2>1 DEF Tick, Unwritten
<1>3. CASE \E k \in Key : Renew(k)
  BY <1>1, <1>3 DEF Renew
<1>4. ASSUME NEW k \in Key, Use(k) PROVE Written'
  BY <1>0, <1>1, <1>4 DEF Use, LimitType
<1>5. CASE \E h \in Handler, c \in Conf : Change(h, c)
  BY <1>1, <1>5 DEF Change, ledger
<1>6. ASSUME NEW h \in Handler, HandlerStep(h) PROVE Written'
  <2>1. UNCHANGED limit
    BY <1>0, <1>6, HandledProbers
  <2> QED
    BY <1>0, <1>6, <2>1, HandledProbers DEF Written, Rounds, LimitsTogether
<1>7. CASE Restart
  <2>1. /\ \A i \in Prober : prober'[i].pc \in {"unused", "wait"}
        /\ \A i \in Prober, k \in Key : prober'[i].state[k] = "idle"
    BY <1>7, BootedWrites DEF Restart
  <2> QED
    BY <2>1 DEF Written, Rounds, LimitsTogether
<1>8. CASE \E i \in Prober : ProberStep(i)
  BY <1>0, <1>8, ProberWrites
<1> QED
  BY <1>2, <1>3, <1>4, <1>5, <1>6, <1>7, <1>8 DEF Next

-----------------------------------------------------------------------------
(* Which probers run.                                                      *)

Fleet == Contexts /\ Starting /\ Removal /\ Alone

\* The part of a prober's record that its rounds leave alone.
Keeps(r, q) == r.limit = q.limit /\ r.ctx = q.ctx /\ (r.alive => q.alive)

LEMMA RecordKept ==
  ASSUME NEW r \in ProberType
  PROVE  /\ Keeps(AfterWindow(r), r) /\ Keeps(NextKey(r), r)
         /\ \A t, L : Keeps([r EXCEPT !.pc = "keys", !.began = t, !.list = L, !.todo = L], r)
         /\ \A L : Keeps([r EXCEPT !.todo = L], r)
         /\ \A k, st, la : Keeps([r EXCEPT !.pc = "probe", !.key = k, !.state = st,
                                           !.last = la], r)
         /\ \A st : Keeps([r EXCEPT !.state = st], r)
         /\ Keeps([r EXCEPT !.pc = "token"], r)
         /\ \A lim : Keeps([r EXCEPT !.pc = "count", !.other = lim], r)
         /\ Keeps([r EXCEPT !.pc = "wait", !.list = {}, !.began = 0], r)
<1>1. Keeps(AfterWindow(r), r)
  <2> DEFINE s == [k \in Key |-> IF Settled(r.state[k]) THEN "idle" ELSE r.state[k]]
             l == [k \in Key |-> IF Settled(r.state[k]) THEN None ELSE r.last[k]]
  <2>1. AfterWindow(r) = [r EXCEPT !.state = s, !.last = l]
    BY DEF AfterWindow, ProberType
  <2> HIDE DEF s, l
  <2> QED
    BY <2>1 DEF ProberType, Keeps
<1>2. Keeps(NextKey(r), r)
  BY DEF NextKey, ProberType, Keeps
<1>3. \A t, L : Keeps([r EXCEPT !.pc = "keys", !.began = t, !.list = L, !.todo = L], r)
  BY DEF ProberType, Keeps
<1>4. \A k, st, la : Keeps([r EXCEPT !.pc = "probe", !.key = k, !.state = st, !.last = la], r)
  BY DEF ProberType, Keeps
<1>5. /\ \A L : Keeps([r EXCEPT !.todo = L], r)
      /\ \A st : Keeps([r EXCEPT !.state = st], r)
      /\ Keeps([r EXCEPT !.pc = "token"], r)
  BY DEF ProberType, Keeps
<1>6. \A lim : Keeps([r EXCEPT !.pc = "count", !.other = lim], r)
  BY DEF ProberType, Keeps
<1>7. Keeps([r EXCEPT !.pc = "wait", !.list = {}, !.began = 0], r)
  BY DEF ProberType, Keeps
<1> QED
  BY <1>1, <1>2, <1>3, <1>4, <1>5, <1>6, <1>7

\* A prober by itself at most ends.
LEMMA ProberKeeps ==
  ASSUME TypeOK, NEW i \in Prober, ProberStep(i)
  PROVE  /\ UNCHANGED fleet
         /\ \A j \in Prober : /\ prober'[j].alive =>
                                   prober[j].alive /\ prober'[j].ctx = prober[j].ctx
                              /\ prober'[j].limit = prober[j].limit
<1>0. /\ prober \in [Prober -> ProberType] /\ prober[i] \in ProberType
  BY DEF TypeOK
<1>1. UNCHANGED fleet
  BY DEF ProberStep, Begin, Consider, Probe, ResetToken, ResetCount, End, Exit
<1>2. ASSUME NEW r, Set(i, r), r.alive => prober[i].alive /\ r.ctx = prober[i].ctx,
             r.limit = prober[i].limit
      PROVE  \A j \in Prober : /\ prober'[j].alive =>
                                    prober[j].alive /\ prober'[j].ctx = prober[j].ctx
                               /\ prober'[j].limit = prober[j].limit
  BY <1>0, <1>2 DEF Set
<1>3. ASSUME NEW r, Set(i, r), Keeps(r, prober[i])
      PROVE  \A j \in Prober : /\ prober'[j].alive =>
                                    prober[j].alive /\ prober'[j].ctx = prober[j].ctx
                               /\ prober'[j].limit = prober[j].limit
  BY <1>2, <1>3 DEF Keeps
<1>4. CASE Begin(i)
  <2>1. \/ Set(i, AfterWindow(prober[i]))
        \/ \E L \in SUBSET Key : Set(i, [prober[i] EXCEPT !.pc = "keys", !.began = now,
                                                         !.list = L, !.todo = L])
    BY <1>4 DEF Begin
  <2> QED
    BY <1>0, <1>1, <1>3, <2>1, RecordKept
<1>5. ASSUME NEW k \in Key, Consider(i, k)
      PROVE  \E r : Set(i, r) /\ Keeps(r, prober[i])
  <2> DEFINE r == [prober[i] EXCEPT !.todo = @ \ {k}]
             a == [r EXCEPT !.pc = "probe", !.key = k, !.state[k] = "probing",
                            !.last[k] = r.began]
             b == [r EXCEPT !.state[k] = IF @ = "idle" THEN "pending" ELSE @]
  <2>1. Set(i, a) \/ Set(i, b)
    BY <1>5 DEF Consider
  <2>2. r \in ProberType
    BY <1>0 DEF ProberType
  <2>3. Keeps(r, prober[i])
    BY <1>0, RecordKept
  <2> HIDE DEF r
  <2>4. Keeps(a, r)
    <3> DEFINE st == [r.state EXCEPT ![k] = "probing"]
               la == [r.last EXCEPT ![k] = r.began]
    <3>1. a = [r EXCEPT !.pc = "probe", !.key = k, !.state = st, !.last = la]
      BY <2>2 DEF ProberType
    <3> HIDE DEF st, la, a
    <3> QED
      BY <2>2, <3>1, RecordKept
  <2>5. Keeps(b, r)
    <3> DEFINE st == [r.state EXCEPT ![k] = IF @ = "idle" THEN "pending" ELSE @]
    <3>1. b = [r EXCEPT !.state = st]
      BY <2>2 DEF ProberType
    <3> HIDE DEF st, b
    <3> QED
      BY <2>2, <3>1, RecordKept
  <2> HIDE DEF a, b
  <2>6. Keeps(a, prober[i]) /\ Keeps(b, prober[i])
    BY <2>3, <2>4, <2>5 DEF Keeps
  <2> QED
    BY <2>1, <2>6
<1>6. CASE Probe(i) \/ ResetToken(i)
  <2> DEFINE a == [prober[i] EXCEPT !.pc = "token"]
             b == [prober[i] EXCEPT !.pc = "count", !.other = prober[i].limit]
  <2>1. Set(i, a) \/ Set(i, b) \/ Set(i, NextKey(prober[i]))
    BY <1>6 DEF Probe, ResetToken
  <2>2. Keeps(a, prober[i]) /\ Keeps(b, prober[i]) /\ Keeps(NextKey(prober[i]), prober[i])
    BY <1>0, RecordKept
  <2> HIDE DEF a, b
  <2> QED
    BY <1>1, <1>3, <2>1, <2>2
<1>7. CASE ResetCount(i)
  <2> DEFINE n == NextKey(prober[i])
             k == prober[i].key
             a == [n EXCEPT !.state[k] = "confirmed"]
  <2>1. Set(i, a) \/ Set(i, n)
    BY <1>7 DEF ResetCount
  <2>2. Keeps(n, prober[i]) /\ n \in ProberType
    BY <1>0, RecordKept, RecordTyped
  <2> HIDE DEF n
  <2>3. Keeps(a, n)
    <3> DEFINE st == [n.state EXCEPT ![k] = "confirmed"]
    <3>1. a = [n EXCEPT !.state = st]
      BY <2>2 DEF ProberType
    <3> HIDE DEF st, a
    <3> QED
      BY <2>2, <3>1, RecordKept
  <2> HIDE DEF a
  <2>4. Keeps(a, prober[i])
    BY <2>2, <2>3 DEF Keeps
  <2> QED
    BY <1>1, <1>3, <2>1, <2>2, <2>4
<1>8. CASE End(i)
  <2> DEFINE r == [prober[i] EXCEPT !.pc = "wait", !.list = {}, !.began = 0]
             st == [k \in Key |-> IF k \in prober[i].list
                                     /\ r.state[k] \in {"pending", "probing"}
                                  THEN "failed" ELSE r.state[k]]
             e == [r EXCEPT !.state = st]
  <2>1. Set(i, r) \/ Set(i, e)
    BY <1>0, <1>8 DEF End, ProberType
  <2>2. Keeps(r, prober[i]) /\ r \in ProberType
    <3>1. 0 \in 0 .. MaxTime /\ {} \in SUBSET Key
      BY Assumed
    <3>2. r \in ProberType
      BY <1>0, <3>1 DEF ProberType
    <3> QED
      BY <1>0, <3>2, RecordKept
  <2> HIDE DEF r, st
  <2>3. Keeps(e, r)
    BY <2>2, RecordKept
  <2> HIDE DEF e
  <2>4. Keeps(e, prober[i])
    BY <2>2, <2>3 DEF Keeps
  <2> QED
    BY <1>1, <1>3, <2>1, <2>2, <2>4
<1>9. CASE Exit(i)
  BY <1>0, <1>1, <1>2, <1>9 DEF Exit, Unused
<1>10. CASE \E k \in Key : Consider(i, k)
  BY <1>1, <1>3, <1>5, <1>10
<1> QED
  BY <1>4, <1>6, <1>7, <1>8, <1>9, <1>10 DEF ProberStep
LEMMA FleetStep ==
  ASSUME IInv, Next
  PROVE  Fleet'
<1> USE Assumed
<1>0. /\ TypeOK /\ Fleet /\ prober \in [Prober -> ProberType]
      /\ handle \in Prober \cup {None} /\ hand \in [Handler -> HandType]
      /\ overlap \in BOOLEAN /\ \A i \in Prober : i # None
  BY DEF IInv, Fleet, TypeOK
<1> USE DEF Fleet
\* Steps that leave the handlers and their handle alone.
<1>1. ASSUME UNCHANGED fleet,
             \A j \in Prober : /\ prober'[j].alive =>
                                    prober[j].alive /\ prober'[j].ctx = prober[j].ctx
                               /\ prober'[j].limit = prober[j].limit
      PROVE  Fleet'
  <2>1. Contexts' /\ Starting'
    BY <1>0, <1>1 DEF fleet, Contexts, Starting, Busy
  <2>2. Removal'
    BY <1>0, <1>1 DEF fleet, Removal, StopPending
  <2>3. Alone'
    BY <1>0, <1>1 DEF fleet, Alone, Reconciling
  <2> QED
    BY <2>1, <2>2, <2>3
<1>2. CASE \E i \in Prober : ProberStep(i)
  BY <1>0, <1>1, <1>2, ProberKeeps
<1>3. CASE Tick \/ \E k \in Key : Renew(k) \/ Use(k)
  BY <1>1, <1>3 DEF Tick, Renew, Use
<1>4. ASSUME NEW h \in Handler, NEW c \in Conf, Change(h, c) PROVE Fleet'
  <2>1. /\ hand[h].pc = "idle" /\ hand'[h].pc = "read" /\ conf' = c
        /\ \A g \in Handler : g # h => hand'[g] = hand[g]
        /\ UNCHANGED <<prober, handle>>
    BY <1>0, <1>4 DEF Change, Busy
  <2>2. ~overlap' => ~overlap /\ \A g \in Handler : ~Reconciling(g)
    <3> DEFINE b == \E g \in Handler : Reconciling(g)
    <3>1. overlap' = (overlap \/ b)
      BY <1>4 DEF Change
    <3>2. ~b => \A g \in Handler : ~Reconciling(g)
      OBVIOUS
    <3> HIDE DEF b
    <3> QED
      BY <1>0, <3>1, <3>2
  <2>3. Contexts' /\ Starting'
    BY <1>0, <2>1 DEF Contexts, Starting, Busy
  <2>4. Removal'
    BY <2>1 DEF Removal, StopPending
  <2>5. Alone'
    BY <1>0, <2>1, <2>2 DEF Alone, Reconciling
  <2> QED
    BY <2>3, <2>4, <2>5
<1>5. ASSUME NEW h \in Handler, ReadSnapshot(h) PROVE Fleet'
  <2>1. /\ hand[h].pc = "read" /\ hand'[h].pc = "apply" /\ hand'[h].snap = conf
        /\ \A g \in Handler : g # h => hand'[g] = hand[g]
        /\ UNCHANGED <<prober, handle, conf, overlap>>
    BY <1>0, <1>5 DEF ReadSnapshot
  <2>2. Contexts' /\ Starting'
    BY <1>0, <2>1 DEF Contexts, Starting, Busy
  <2>3. Removal'
    BY <1>0, <2>1 DEF Removal, StopPending
  <2>4. Alone'
    BY <1>0, <2>1 DEF Alone, Reconciling
  <2> QED
    BY <2>2, <2>3, <2>4
<1>6. ASSUME NEW h \in Handler, Answer(h) PROVE Fleet'
  <2>1. /\ hand[h].pc = "answer" /\ hand'[h].pc = "idle"
        /\ \A g \in Handler : g # h => hand'[g] = hand[g]
        /\ UNCHANGED <<handle, conf, overlap>>
    BY <1>0, <1>6 DEF Answer, IdleHand
  <2>2. \A i \in Prober : /\ prober'[i].alive => /\ prober[i].alive /\ prober[i].ctx # h
                                                 /\ prober'[i].ctx = prober[i].ctx
                          /\ prober'[i].limit = prober[i].limit
    BY <1>0, <1>6 DEF Answer, ProberType
  <2>3. Contexts' /\ Starting'
    BY <1>0, <2>1, <2>2 DEF Contexts, Starting, Busy
  <2>4. Removal'
    BY <1>0, <2>1, <2>2 DEF Removal, StopPending
  <2>5. Alone'
    <3>1. \A g \in Handler : Reconciling(g)' <=> Reconciling(g)
      BY <2>1 DEF Reconciling
    <3>2. \A g \in Handler : hand'[g].pc \in {"apply", "start"} => hand'[g] = hand[g]
      BY <2>1
    <3>3. handle # None => prober'[handle].limit = prober[handle].limit
      BY <1>0, <2>2
    <3>4. ASSUME ~overlap
          PROVE  /\ \A i \in Prober : prober'[i].alive => i = handle'
                 /\ \A g \in Handler : hand'[g].pc = "start" => handle' = None
                 /\ \A g \in Handler : hand'[g].pc \in {"apply", "start"} => hand'[g].snap = conf'
      <4>1. /\ \A i \in Prober : prober[i].alive => i = handle
            /\ \A g \in Handler : hand[g].pc = "start" => handle = None
            /\ \A g \in Handler : hand[g].pc \in {"apply", "start"} => hand[g].snap = conf
        BY <1>0, <3>4 DEF Alone
      <4>2. \A i \in Prober : prober'[i].alive => i = handle'
        BY <2>1, <2>2, <4>1
      <4>3. \A g \in Handler : hand'[g].pc = "start" => handle' = None
        BY <2>1, <3>2, <4>1
      <4>4. \A g \in Handler : hand'[g].pc \in {"apply", "start"} => hand'[g].snap = conf'
        BY <2>1, <3>2, <4>1
      <4> QED
        BY <4>2, <4>3, <4>4
    <3> QED
      BY <1>0, <2>1, <3>1, <3>3, <3>4 DEF Alone
  <2> QED
    BY <2>3, <2>4, <2>5
<1>7. ASSUME NEW h \in Handler, Apply(h) PROVE Fleet'
  <2>1. /\ hand[h].pc = "apply"
        /\ \A g \in Handler : g # h => hand'[g] = hand[g]
        /\ UNCHANGED <<conf, overlap>>
    BY <1>0, <1>7 DEF Apply, ToAnswer
  \* The prober behind the handle gets the limit of the handler's snapshot, ...
  <2>2. CASE /\ hand[h].snap # None /\ handle # None /\ UNCHANGED handle
             /\ Set(handle, [prober[handle] EXCEPT !.limit = hand[h].snap])
             /\ ToAnswer(h)
    <3>0. hand'[h].pc = "answer"
      BY <1>0, <2>2 DEF ToAnswer
    <3>1. \A i \in Prober : /\ prober'[i].alive =>
                                 prober[i].alive /\ prober'[i].ctx = prober[i].ctx
                            /\ i = handle => prober'[i].limit = hand[h].snap
      BY <1>0, <2>2 DEF Set, ProberType
    <3>2. Contexts' /\ Starting'
      BY <1>0, <2>1, <2>2, <3>0, <3>1 DEF Contexts, Starting, Busy
    <3>3. Removal'
      BY <1>0, <2>1, <2>2, <3>0, <3>1 DEF Removal, StopPending
    <3>4. Alone'
      BY <1>0, <2>1, <2>2, <3>0, <3>1 DEF Alone, Reconciling
    <3> QED
      BY <3>2, <3>3, <3>4
  \* ... or it is missing, ...
  <2>3. CASE /\ hand[h].snap # None /\ handle = None /\ UNCHANGED <<prober, handle>>
             /\ hand' = [hand EXCEPT ![h].pc = "start"]
    <3>0. hand'[h].pc = "start" /\ hand'[h].snap = hand[h].snap
      BY <1>0, <2>3 DEF HandType
    <3>1. Contexts' /\ Starting'
      BY <1>0, <2>1, <2>3, <3>0 DEF Contexts, Starting, Busy
    <3>2. Removal'
      BY <1>0, <2>1, <2>3, <3>0 DEF Removal, StopPending
    <3>3. Alone'
      BY <1>0, <2>1, <2>3, <3>0 DEF Alone, Reconciling
    <3> QED
      BY <3>1, <3>2, <3>3
  \* ... or the prober behind the handle, if any, is stopped.
  <2>4. CASE hand[h].snap = None /\ Stop /\ ToAnswer(h)
    <3>0. hand'[h].pc = "answer"
      BY <1>0, <2>4 DEF ToAnswer
    <3>1. /\ handle' = None
          /\ \A i \in Prober : prober'[i].alive =>
               prober[i].alive /\ prober'[i].ctx = prober[i].ctx /\ i # handle
      BY <1>0, <2>4 DEF Stop, Set, ProberType
    <3>2. Contexts' /\ Starting'
      BY <1>0, <2>1, <2>4, <3>0, <3>1 DEF Contexts, Starting, Busy
    <3>3. Removal'
      BY <1>0, <2>1, <2>4, <3>0, <3>1 DEF Removal, Contexts
    <3>4. Alone'
      BY <1>0, <2>1, <2>4, <3>0, <3>1 DEF Alone, Reconciling
    <3> QED
      BY <3>2, <3>3, <3>4
  <2> QED
    BY <1>7, <2>2, <2>3, <2>4 DEF Apply, Missing, UpdateLimits
\* The missing prober is started; every other one ends with its request.
<1>9. ASSUME NEW h \in Handler, Start(h) PROVE Fleet'
  <2>1. /\ hand[h].pc = "start" /\ hand'[h].pc = "answer" /\ hand[h].snap # None
        /\ \A g \in Handler : g # h => hand'[g] = hand[g]
        /\ UNCHANGED <<conf, overlap>>
    BY <1>0, <1>9 DEF Start, ToAnswer, Starting
  <2>2. PICK n \in Prober : handle' = n /\ Set(n, NewRefresher(h, hand[h].snap))
    BY <1>9 DEF Start
  <2>3. /\ prober'[n].ctx = h /\ prober'[n].limit = hand[h].snap
        /\ \A i \in Prober : i # n => prober'[i] = prober[i]
    BY <1>0, <2>2 DEF Set, NewRefresher, Unused
  <2>4. \A i \in Prober : prober[i].alive => prober[i].ctx \in Handler
    BY <1>0, <2>1 DEF Contexts
  <2>5. \A i \in Prober : prober'[i].alive => prober'[i].ctx \in Handler
    BY <2>3, <2>4
  <2>6. Contexts' /\ Starting'
    <3>1. \A i \in Prober : prober'[i].alive => hand'[prober'[i].ctx].pc # "idle"
      <4>1. \A i \in Prober : prober[i].alive => hand[prober[i].ctx].pc # "idle"
        BY <1>0, <2>4 DEF Contexts, Busy
      <4> QED
        BY <2>1, <2>3, <2>4, <4>1
    <3>2. Starting'
      BY <1>0, <2>1 DEF Starting
    <3> QED
      BY <2>5, <3>1, <3>2 DEF Contexts, Busy
  <2>7. Removal'
    BY <2>5 DEF Removal
  <2>8. Alone'
    <3>1. \A g \in Handler : Reconciling(g)' <=> Reconciling(g) /\ g # h
      BY <2>1 DEF Reconciling
    <3>2. \A g \in Handler : hand'[g].pc \in {"apply", "start"} => g # h /\ hand'[g] = hand[g]
      BY <2>1
    <3>3. /\ Reconciling(h) /\ (~overlap => hand[h].snap = conf /\ handle = None)
          /\ \A g \in Handler : hand[g].pc \in {"apply", "start"} => Reconciling(g)
      BY <1>0, <2>1 DEF Alone, Reconciling
    <3>4. ~overlap => \A i \in Prober : ~prober[i].alive
      BY <1>0, <3>3 DEF Alone
    <3>5. ~overlap => \A g \in Handler : g # h => ~Reconciling(g)
      BY <1>0, <3>3 DEF Alone
    <3>6. ASSUME ~overlap' PROVE \A g \in Handler : hand'[g].pc \notin {"apply", "start"}
      BY <2>1, <3>2, <3>3, <3>5, <3>6
    <3>7. ASSUME ~overlap', NEW i \in Prober, prober'[i].alive PROVE i = handle'
      BY <2>1, <2>2, <2>3, <3>4, <3>7
    <3>8. ASSUME ~overlap'
          PROVE  handle' # None /\ prober'[handle'].limit = conf' /\ conf' # None
      BY <1>0, <2>1, <2>2, <2>3, <3>3, <3>8
    <3>9. ASSUME ~overlap'
          PROVE  \A f, g \in Handler : (Reconciling(f) /\ Reconciling(g) => f = g)'
      BY <2>1, <3>1, <3>5, <3>9
    <3> QED
      BY <3>6, <3>7, <3>8, <3>9 DEF Alone
  <2> QED
    BY <2>6, <2>7, <2>8
<1>8. CASE Restart
  <2>1. /\ \A i \in Prober : prober'[i].alive => /\ i = 1 /\ conf # None
                                                 /\ prober'[i].ctx = Boot
                                                 /\ prober'[i].limit = conf
        /\ UNCHANGED conf /\ Booted(conf) /\ overlap' = FALSE
    BY <1>8, BootedWrites DEF Restart
  <2>2. /\ handle' = IF conf # None THEN 1 ELSE None
        /\ \A h \in Handler : hand'[h].pc = "idle"
        /\ conf # None => prober'[1].limit = conf
    BY <2>1 DEF Booted, IdleHand, NewRefresher, Unused
  <2>3. Contexts' /\ Starting'
    BY <2>1, <2>2 DEF Contexts, Starting
  <2>4. Removal'
    BY <2>1, <2>2 DEF Removal
  <2>5. Alone'
    BY <2>1, <2>2 DEF Alone, Reconciling
  <2> QED
    BY <2>3, <2>4, <2>5
<1> QED
  BY <1>2, <1>3, <1>4, <1>5, <1>6, <1>7, <1>8, <1>9 DEF Next, HandlerStep

-----------------------------------------------------------------------------
(* The theorems.                                                           *)

LEMMA InitInv == Init => IInv
<1> SUFFICES ASSUME Init PROVE IInv
  OBVIOUS
<1> USE Assumed
<1>1. /\ \A i \in Prober : prober[i].pc \in {"unused", "wait"}
      /\ \A i \in Prober, k \in Key : prober[i].state[k] = "idle"
      /\ \A i \in Prober : prober[i].alive => /\ i = 1 /\ conf # None
                                              /\ prober[i].ctx = Boot
                                              /\ prober[i].limit = conf
      /\ conf # None => prober[1].limit = conf
      /\ \A h \in Handler : hand[h].pc = "idle"
  BY DEF Init, NewRefresher, Unused, IdleHand
<1>2. prober \in [Prober -> ProberType]
  <2>1. conf # None => NewRefresher(Boot, conf) \in ProberType
    BY NewTyped DEF Init, Conf
  <2> QED
    BY <2>1, UnusedTyped DEF Init
<1>3. limit \in LimitType
  BY UnwrittenTyped DEF Init
<1>4. hand \in [Handler -> HandType] /\ count \in [Key -> Nat] /\ overlap \in BOOLEAN
  <2>1. hand \in [Handler -> HandType] /\ overlap \in BOOLEAN
    BY DEF Init, IdleHand, HandType, Conf
  <2>2. count \in [Key -> Nat]
    BY DEF Init
  <2> QED
    BY <2>1, <2>2
<1>5. TypeOK
  BY <1>2, <1>3, <1>4 DEF Init, TypeOK, LimitType
<1>6. Rounds /\ LimitsTogether
  BY <1>1 DEF Rounds, LimitsTogether
<1>7. handle = IF conf # None THEN 1 ELSE None
  BY DEF Init
<1>8. Contexts /\ Starting /\ Removal /\ Alone
  BY <1>1, <1>7 DEF Contexts, Starting, Removal, Alone, Reconciling
<1> QED
  BY <1>5, <1>6, <1>8 DEF IInv

LEMMA StutterInv == IInv /\ UNCHANGED vars => IInv'
BY DEF vars, IInv, TypeOK, Rounds, LimitsTogether, Contexts, Starting, Busy, Removal,
       StopPending, Alone, Reconciling

\* The inductive invariant: every fact the theorems below rest on.
THEOREM Invariant == Spec => []IInv
<1>1. IInv /\ Next => IInv'
  BY TypeStep, WrittenStep, FleetStep DEF IInv, Written, Fleet
<1> QED
  BY <1>1, InitInv, StutterInv, PTL DEF Spec

(* Every variable has its type: the records of the probers, the limits in  *)
(* the counters and the counters themselves (refresh.go, background.go).   *)
THEOREM TypeCorrect == Spec => []TypeOK
<1>1. IInv => TypeOK
  BY DEF IInv
<1> QED
  BY <1>1, Invariant, PTL

(* A confirmation writes two limits of one configuration (confirm,         *)
(* refresh.go), however reloads, failures and other probers meet it.       *)
THEOREM LimitsConsistent == Spec => []LimitsTogether
<1>1. IInv => LimitsTogether
  BY DEF IInv
<1> QED
  BY <1>1, Invariant, PTL

(* reconcileRefreshers (background.go): without two handlers that          *)
(* reconcile at once, exactly the prober of the current snapshot runs.     *)
THEOREM ProbersAligned == Spec => []Aligned
<1>1. IInv => Aligned
  BY DEF IInv, Alone, Reconciling, Aligned
<1> QED
  BY <1>1, Invariant, PTL

(* stopRefreshers (background.go): when all handlers have answered, no     *)
(* prober of a removed provider runs, in whatever order they reconciled.   *)
THEOREM RemovedProbersStop == Spec => []RemovedStops
<1>1. IInv => RemovedStops
  BY DEF IInv, Contexts, Removal, StopPending, Busy, RemovedStops
<1> QED
  BY <1>1, Invariant, PTL

-----------------------------------------------------------------------------
(* The days.  Nothing in config/validate.go relates the window to the hour *)
(* at which a quota day begins (quotaday.go: a constant, 12; the default   *)
(* window is 12:00 to 14:00).  What follows needs the window, and a round  *)
(* that begins in it, to lie within one quota day.                         *)

WindowInDay ==
  \/ RefreshHour <= WindowStart /\ WindowEnd + RoundTime <= DayLen + RefreshHour
  \/ WindowEnd + RoundTime <= RefreshHour

\* The time since the quota day of t began, and the window in this measure.
Elapsed(t) == (t + DayLen - RefreshHour) % DayLen
Shift == IF RefreshHour <= WindowStart THEN -RefreshHour ELSE DayLen - RefreshHour
Opened(t) == Elapsed(t) >= WindowStart + Shift
Passed(t) == Elapsed(t) >= WindowEnd + Shift

LEMMA Days ==
  /\ DayLen \in Nat \ {0} /\ WindowStart \in Nat /\ WindowEnd \in Nat
  /\ WindowStart <= WindowEnd /\ WindowEnd <= DayLen
  /\ RefreshHour \in Nat /\ RefreshHour < DayLen /\ RoundTime \in Nat
BY WindowAssumption DEF WindowAssumption

LEMMA Division ==
  ASSUME NEW d \in Int, d > 0, NEW x \in Int
  PROVE  /\ x \div d \in Int /\ x % d \in 0 .. d - 1
         /\ x = d * (x \div d) + (x % d)
<1>1. x \div d \in Int /\ x % d \in 0 .. d - 1
  OBVIOUS
<1>2. x = d * (x \div d) + (x % d)
  BY Z3
<1> QED
  BY <1>1, <1>2

LEMMA Multiples ==
  ASSUME NEW d \in Int, d > 0, NEW a \in Int, NEW b \in Int, a < b
  PROVE  d * a + d <= d * b
<1>1. b - a - 1 >= 0
  OBVIOUS
<1>2. d * (b - a - 1) >= 0
  BY <1>1
<1>3. d * (b - a - 1) = d * b - d * a - d
  OBVIOUS
<1> QED
  BY <1>2, <1>3

\* Quotient and remainder are what they are in any such sum.
LEMMA Divided ==
  ASSUME NEW d \in Int, d > 0, NEW q \in Int, NEW r \in 0 .. d - 1, NEW x \in Int,
         x = d * q + r
  PROVE  x \div d = q /\ x % d = r
<1> DEFINE p == x \div d
           s == x % d
<1>1. p \in Int /\ s \in 0 .. d - 1 /\ x = d * p + s
  BY Division
<1> HIDE DEF p, s
<1>2. d * p \in Int /\ d * q \in Int
  BY <1>1
<1>3. ~ (p < q)
  BY <1>1, <1>2, Multiples
<1>4. ~ (q < p)
  BY <1>1, <1>2, Multiples
<1>5. p = q
  BY <1>1, <1>3, <1>4
<1>6. p = q /\ s = r
  BY <1>1, <1>2, <1>5
<1> QED
  BY <1>6 DEF p, s

\* The clock in the measure of its quota day.
LEMMA Clock ==
  ASSUME NEW t \in Nat
  PROVE  /\ QuotaDay(t) \in Int /\ Elapsed(t) \in 0 .. DayLen - 1
         /\ DayLen * QuotaDay(t) \in Int
         /\ t + DayLen - RefreshHour = DayLen * QuotaDay(t) + Elapsed(t)
<1>1. t + DayLen - RefreshHour \in Int /\ DayLen \in Int /\ DayLen > 0
  BY Days
<1>2. /\ QuotaDay(t) \in Int /\ Elapsed(t) \in 0 .. DayLen - 1
      /\ t + DayLen - RefreshHour = DayLen * QuotaDay(t) + Elapsed(t)
  BY <1>1, Division DEF QuotaDay, Elapsed
<1> QED
  BY <1>1, <1>2

\* Within a quota day the clock runs, ...
LEMMA SameDay ==
  ASSUME NEW s \in Nat, NEW t \in Nat, QuotaDay(s) = QuotaDay(t)
  PROVE  Elapsed(t) = Elapsed(s) + (t - s)
<1> DEFINE m == DayLen * QuotaDay(s)
           e == Elapsed(s)
           f == Elapsed(t)
<1>1. /\ m \in Int /\ e \in Int /\ f \in Int /\ RefreshHour \in Int /\ DayLen \in Int
      /\ s + DayLen - RefreshHour = m + e
      /\ t + DayLen - RefreshHour = m + f
  BY Days, Clock
<1> HIDE DEF m, e, f
<1>2. f = e + (t - s)
  BY <1>1
<1> QED
  BY <1>2 DEF e, f

\* ... and it ends only after DayLen.
LEMMA StillThatDay ==
  ASSUME NEW s \in Nat, NEW t \in Nat, s <= t, Elapsed(s) + (t - s) < DayLen
  PROVE  QuotaDay(t) = QuotaDay(s)
<1> DEFINE m == DayLen * QuotaDay(s)
           e == Elapsed(s)
           r == e + (t - s)
           x == t + DayLen - RefreshHour
<1>1. /\ m \in Int /\ e \in 0 .. DayLen - 1 /\ RefreshHour \in Int
      /\ DayLen \in Int /\ DayLen > 0 /\ QuotaDay(s) \in Int
      /\ s + DayLen - RefreshHour = m + e /\ e + (t - s) < DayLen
  BY Days, Clock
<1> HIDE DEF m, e
<1>2. x \in Int /\ r \in 0 .. DayLen - 1 /\ x = m + r
  BY <1>1
<1> HIDE DEF r, x
<1>3. x = DayLen * QuotaDay(s) + r
  BY <1>2 DEF m
<1>4. x \div DayLen = QuotaDay(s)
  BY <1>1, <1>2, <1>3, Divided
<1> QED
  BY <1>4 DEF QuotaDay, x

\* The window of the clock is the one of the quota day.
LEMMA WindowOfDay ==
  ASSUME WindowInDay, NEW t \in Nat
  PROVE  /\ InWindow(t) <=> Opened(t) /\ ~Passed(t)
         /\ WindowEnd + Shift + RoundTime <= DayLen
<1> DEFINE q == t \div DayLen
           c == t % DayLen
<1>1. /\ q \in Int /\ c \in 0 .. DayLen - 1 /\ t = DayLen * q + c
      /\ DayLen \in Int /\ DayLen > 0 /\ DayLen * q \in Int
  BY Days, Division
<1>2. InWindow(t) <=> WindowStart <= c /\ c < WindowEnd
  BY DEF InWindow, TimeOfDay
<1> HIDE DEF q, c
<1>3. WindowEnd + Shift + RoundTime <= DayLen
  BY Days DEF WindowInDay, Shift
\* From the hour on, the quota day is the one of the same name, ...
<1>4. CASE c >= RefreshHour
  <2> DEFINE p == q + 1
             r == c - RefreshHour
             x == t + DayLen - RefreshHour
  <2>1. p \in Int /\ r \in 0 .. DayLen - 1 /\ x \in Int
    BY <1>1, <1>4, Days
  <2>2. x = DayLen * p + r
    BY <1>1, Days
  <2> HIDE DEF p, r, x
  <2>3. x % DayLen = r
    BY <1>1, <2>1, <2>2, Divided
  <2>4. Elapsed(t) = c - RefreshHour
    BY <2>3 DEF Elapsed, r, x
  <2> QED
    BY <1>1, <1>2, <1>3, <1>4, <2>4, Days DEF WindowInDay, Shift, Opened, Passed
\* ... and before it the one before.
<1>5. CASE c < RefreshHour
  <2>1. /\ c + DayLen - RefreshHour \in 0 .. DayLen - 1
        /\ t + DayLen - RefreshHour \in Int
        /\ t + DayLen - RefreshHour = DayLen * q + (c + DayLen - RefreshHour)
    BY <1>1, <1>5, Days
  <2>2. Elapsed(t) = c + DayLen - RefreshHour
    BY <1>1, <2>1, Divided DEF Elapsed
  <2> QED
    BY <1>1, <1>2, <1>3, <1>5, <2>2, Days DEF WindowInDay, Shift, Opened, Passed
<1> QED
  BY <1>1, <1>3, <1>4, <1>5, Days

-----------------------------------------------------------------------------
(* What a reset needs.                                                     *)

(* A round began in the window and has not outlived its timeout.           *)
RoundTimed ==
  \A i \in Prober : InRound(i) =>
    /\ InWindow(prober[i].began) /\ prober[i].began <= now
    /\ now - prober[i].began <= RoundTime

(* Between its probe and its second reset, a prober works on a key that    *)
(* has answered, and has answered in this quota day.                       *)
Asked == \A i \in Prober : prober[i].pc \in {"token", "count"} => prober[i].key \in answered

TInv == RoundTimed /\ Asked /\ ResetNeedsAnswer

\* A step of a prober, as the clock and the answers see it.
LEMMA ProberRound ==
  ASSUME TypeOK, NEW i \in Prober, ProberStep(i)
  PROVE  /\ \A j \in Prober : j # i => prober'[j] = prober[j]
         /\ InRound(i)' => \/ InRound(i) /\ prober'[i].began = prober[i].began
                           \/ InWindow(now) /\ prober'[i].began = now
         /\ answered \subseteq answered'
         /\ prober'[i].pc = "token" => prober'[i].key \in answered'
         /\ prober'[i].pc = "count" =>
              prober[i].pc = "token" /\ prober'[i].key = prober[i].key
<1>0. /\ prober \in [Prober -> ProberType] /\ prober[i] \in ProberType
  BY DEF TypeOK
<1>1. ASSUME NEW r, Set(i, r)
      PROVE  prober'[i] = r /\ \A j \in Prober : j # i => prober'[j] = prober[j]
  BY <1>0, <1>1 DEF Set
<1>2. CASE Begin(i)
  <2>1. CASE Set(i, AfterWindow(prober[i]))
    <3>1. prober'[i].pc = "wait"
      <4>1. AfterWindow(prober[i]).pc = prober[i].pc
        BY <1>0 DEF AfterWindow, ProberType
      <4> QED
        BY <1>1, <1>2, <2>1, <4>1 DEF Begin
    <3> QED
      BY <1>1, <1>2, <2>1, <3>1 DEF Begin, ledger, InRound
  <2>2. ASSUME InWindow(now), NEW L \in SUBSET Key,
               Set(i, [prober[i] EXCEPT !.pc = "keys", !.began = now, !.list = L, !.todo = L])
        PROVE  /\ \A j \in Prober : j # i => prober'[j] = prober[j]
               /\ prober'[i].pc = "keys" /\ prober'[i].began = now
    <3> DEFINE a == [prober[i] EXCEPT !.pc = "keys", !.began = now, !.list = L, !.todo = L]
    <3>1. a.pc = "keys" /\ a.began = now
      BY <1>0 DEF ProberType
    <3>2. Set(i, a)
      BY <2>2
    <3> HIDE DEF a
    <3> QED
      BY <1>1, <3>1, <3>2
  <2> QED
    BY <1>2, <2>1, <2>2 DEF Begin, ledger, InRound
<1>3. CASE \E k \in Key : Consider(i, k)
  <2> PICK k \in Key : Consider(i, k)
    BY <1>3
  <2> DEFINE r == [prober[i] EXCEPT !.todo = @ \ {k}]
             a == [r EXCEPT !.pc = "probe", !.key = k, !.state[k] = "probing",
                            !.last[k] = r.began]
             b == [r EXCEPT !.state[k] = IF @ = "idle" THEN "pending" ELSE @]
  <2>1. r \in ProberType /\ r.began = prober[i].began /\ r.pc = "keys"
    BY <1>0 DEF ProberType, Consider
  <2>2. Set(i, a) \/ Set(i, b)
    BY DEF Consider
  <2> HIDE DEF r
  <2>3. a.pc = "probe" /\ a.began = r.began /\ b.pc = "keys" /\ b.began = r.began
    BY <2>1 DEF ProberType
  <2> HIDE DEF a, b
  <2>4. InRound(i) /\ UNCHANGED answered
    BY DEF Consider, InRound, ledger
  <2> QED
    BY <1>1, <2>1, <2>2, <2>3, <2>4 DEF InRound
<1>4. NextKey(prober[i]).pc = "keys" /\ NextKey(prober[i]).began = prober[i].began
  BY <1>0 DEF NextKey, ProberType
<1>5. CASE Probe(i)
  <2> DEFINE a == [prober[i] EXCEPT !.pc = "token"]
  <2>1. a.pc = "token" /\ a.began = prober[i].began /\ a.key = prober[i].key
    BY <1>0 DEF ProberType
  <2>2. \/ Set(i, a) /\ prober[i].key \in answered'
        \/ Set(i, NextKey(prober[i]))
    BY <1>5 DEF Probe, Answers
  <2>3. InRound(i) /\ answered \subseteq answered'
    BY <1>5 DEF Probe, InRound
  <2> HIDE DEF a
  <2> QED
    BY <1>1, <1>4, <2>1, <2>2, <2>3 DEF InRound
<1>6. CASE ResetToken(i)
  <2> DEFINE a == [prober[i] EXCEPT !.pc = "count", !.other = prober[i].limit]
  <2>1. a.pc = "count" /\ a.began = prober[i].began /\ a.key = prober[i].key
    BY <1>0 DEF ProberType
  <2>2. Set(i, a) \/ Set(i, NextKey(prober[i]))
    BY <1>6 DEF ResetToken
  <2>3. InRound(i) /\ UNCHANGED answered /\ prober[i].pc = "token"
    BY <1>6 DEF ResetToken, InRound
  <2> HIDE DEF a
  <2> QED
    BY <1>1, <1>4, <2>1, <2>2, <2>3 DEF InRound
<1>7. CASE ResetCount(i)
  <2> DEFINE n == NextKey(prober[i])
             k == prober[i].key
             a == [n EXCEPT !.state[k] = "confirmed"]
  <2>1. Set(i, a) \/ Set(i, n)
    BY <1>7 DEF ResetCount
  <2>2. n \in ProberType
    BY <1>0, RecordTyped
  <2>3. n.pc = "keys" /\ n.began = prober[i].began
    BY <1>4
  <2> HIDE DEF n
  <2>4. a.pc = "keys" /\ a.began = n.began
    BY <2>2, <2>3 DEF ProberType
  <2>5. InRound(i) /\ UNCHANGED answered
    BY <1>7 DEF ResetCount, InRound
  <2> HIDE DEF a
  <2> QED
    BY <1>1, <2>1, <2>3, <2>4, <2>5 DEF InRound
<1>8. CASE End(i)
  <2> DEFINE r == [prober[i] EXCEPT !.pc = "wait", !.list = {}, !.began = 0]
             st == [k \in Key |-> IF k \in prober[i].list
                                     /\ r.state[k] \in {"pending", "probing"}
                                  THEN "failed" ELSE r.state[k]]
             e == [r EXCEPT !.state = st]
  <2>1. Set(i, r) \/ Set(i, e)
    BY <1>0, <1>8 DEF End, ProberType
  <2>2. r.pc = "wait" /\ e.pc = "wait"
    BY <1>0 DEF ProberType
  <2> HIDE DEF r, e
  <2> QED
    BY <1>1, <1>8, <2>1, <2>2 DEF End, ledger, InRound
<1>9. CASE Exit(i)
  <2>1. prober'[i].pc = "gone"
    <3> DEFINE a == [Unused EXCEPT !.pc = "gone", !.limit = prober[i].limit]
    <3>1. a.pc = "gone"
      BY DEF Unused
    <3>2. Set(i, a)
      BY <1>9 DEF Exit
    <3> HIDE DEF a
    <3> QED
      BY <1>1, <3>1, <3>2
  <2> QED
    BY <1>1, <1>9, <2>1 DEF Exit, ledger, InRound
<1> QED
  BY <1>2, <1>3, <1>5, <1>6, <1>7, <1>8, <1>9 DEF ProberStep

\* And as the counts of the resets see it.
LEMMA ProberCounts ==
  ASSUME TypeOK, Rounds, NEW i \in Prober, ProberStep(i), NEW q \in Key
  PROVE  \/ /\ zeroed'[q] = zeroed[q] /\ excused'[q] = excused[q]
            /\ prober'[i].alive =>
                 /\ prober[i].state[q] = "confirmed" =>
                      \/ prober'[i].state[q] = "confirmed"
                      \/ prober'[i].pc = "wait" /\ ~InWindow(now)
                 /\ prober[i].pc = "count" /\ prober[i].key = q =>
                      prober'[i].state[q] = "confirmed"
                 /\ prober[i].pc = "wait" => prober'[i].pc = "wait" \/ InWindow(now)
         \/ /\ prober[i].pc = "token" /\ prober[i].key = q /\ prober[i].alive
            /\ zeroed'[q] = zeroed[q] + 1 /\ excused'[q] = excused[q]
            /\ prober'[i].pc = "count" /\ prober'[i].key = q
         \/ /\ prober[i].pc = "token" /\ prober[i].key = q
            /\ zeroed'[q] = zeroed[q] + 1 /\ excused'[q] = excused[q] + 1
         \/ zeroed'[q] = zeroed[q] /\ excused'[q] = excused[q] + 1
<1>0. /\ prober \in [Prober -> ProberType] /\ prober[i] \in ProberType
      /\ zeroed \in [Key -> Nat] /\ excused \in [Key -> Nat]
  BY DEF TypeOK
<1>1. ASSUME NEW r, Set(i, r) PROVE prober'[i] = r
  BY <1>0, <1>1 DEF Set
<1> DEFINE Same == zeroed'[q] = zeroed[q] /\ excused'[q] = excused[q]
           Keeping == prober[i].state[q] = "confirmed" => prober'[i].state[q] = "confirmed"
<1>2. CASE Begin(i)
  <2>1. Same /\ prober[i].pc = "wait"
    BY <1>2 DEF Begin, ledger
  <2>2. CASE ~InWindow(now) /\ Set(i, AfterWindow(prober[i]))
    <3>1. AfterWindow(prober[i]).pc = "wait"
      BY <1>0, <2>1 DEF AfterWindow, ProberType
    <3> QED
      BY <1>1, <2>1, <2>2, <3>1
  <2>3. ASSUME InWindow(now), NEW L \in SUBSET Key,
               Set(i, [prober[i] EXCEPT !.pc = "keys", !.began = now, !.list = L, !.todo = L])
        PROVE  prober'[i].state = prober[i].state
    BY <1>0, <1>1, <2>3 DEF ProberType
  <2> QED
    BY <1>2, <2>1, <2>2, <2>3 DEF Begin
<1>3. CASE \E k \in Key : Consider(i, k)
  <2> PICK k \in Key : Consider(i, k)
    BY <1>3
  <2> DEFINE r == [prober[i] EXCEPT !.todo = @ \ {k}]
             a == [r EXCEPT !.pc = "probe", !.key = k, !.state[k] = "probing",
                            !.last[k] = r.began]
             b == [r EXCEPT !.state[k] = IF @ = "idle" THEN "pending" ELSE @]
  <2>1. r \in ProberType /\ r.state = prober[i].state
    BY <1>0 DEF ProberType
  <2>2. (MustProbe(r, k) /\ Set(i, a)) \/ Set(i, b)
    BY DEF Consider
  <2>3. MustProbe(r, k) => r.state[k] # "confirmed"
    BY DEF MustProbe
  <2> HIDE DEF r
  <2>4. /\ r.state[q] = "confirmed" => b.state[q] = "confirmed"
        /\ r.state[q] = "confirmed" /\ q # k => a.state[q] = "confirmed"
    BY <2>1 DEF ProberType
  <2> HIDE DEF a, b
  <2>5. Keeping
    BY <1>1, <2>1, <2>2, <2>3, <2>4
  <2>6. Same /\ prober[i].pc = "keys"
    BY DEF Consider, ledger
  <2> QED
    BY <2>5, <2>6
<1>4. NextKey(prober[i]).state = prober[i].state
  BY <1>0 DEF NextKey, ProberType
<1>5. CASE Probe(i)
  <2> DEFINE a == [prober[i] EXCEPT !.pc = "token"]
  <2>1. a.state = prober[i].state
    BY <1>0 DEF ProberType
  <2>2. Set(i, a) \/ Set(i, NextKey(prober[i]))
    BY <1>5 DEF Probe
  <2> HIDE DEF a
  <2>3. Keeping
    BY <1>1, <1>4, <2>1, <2>2
  <2>4. Same /\ prober[i].pc = "probe"
    BY <1>5 DEF Probe
  <2> QED
    BY <2>3, <2>4
<1>6. CASE ResetToken(i)
  <2> DEFINE k == prober[i].key
             a == [prober[i] EXCEPT !.pc = "count", !.other = prober[i].limit]
             Zero == zeroed' = [zeroed EXCEPT ![k] = @ + 1]
  <2>1. prober[i].pc = "token" /\ k \in Key /\ prober[i].state[k] = "probing"
    BY <1>6 DEF ResetToken, Rounds
  <2>2. a.pc = "count" /\ a.key = k /\ a.state = prober[i].state
    BY <1>0 DEF ProberType
  <2>3. \/ prober[i].alive /\ Zero /\ Set(i, a) /\ UNCHANGED excused
        \/ Set(i, NextKey(prober[i])) /\ Zero /\ excused' = [excused EXCEPT ![k] = @ + 1]
        \/ Set(i, NextKey(prober[i])) /\ UNCHANGED <<zeroed, excused>>
    BY <1>6 DEF ResetToken, Zeroed
  <2> HIDE DEF a
  <2>4. Keeping
    BY <1>1, <1>4, <2>2, <2>3
  <2>5. CASE q = k
    BY <1>0, <1>1, <2>1, <2>2, <2>3, <2>4, <2>5
  <2>6. CASE q # k
    <3>1. Same
      BY <1>0, <2>1, <2>3, <2>6
    <3> QED
      BY <2>1, <2>4, <3>1
  <2> QED
    BY <2>5, <2>6
<1>7. CASE ResetCount(i)
  <2> DEFINE n == NextKey(prober[i])
             k == prober[i].key
             a == [n EXCEPT !.state[k] = "confirmed"]
  <2>1. prober[i].pc = "count" /\ k \in Key /\ UNCHANGED zeroed
    BY <1>7 DEF ResetCount, Rounds, Zeroed
  <2>2. \/ Set(i, a) /\ UNCHANGED excused
        \/ Set(i, n) /\ excused' = [excused EXCEPT ![k] = @ + 1]
    BY <1>7 DEF ResetCount
  <2>3. n \in ProberType /\ n.state = prober[i].state
    BY <1>0, <1>4, RecordTyped
  <2> HIDE DEF n
  <2>4. /\ q = k => a.state[q] = "confirmed"
        /\ q # k => a.state[q] = n.state[q]
    BY <2>1, <2>3 DEF ProberType
  <2> HIDE DEF a
  <2>5. CASE Set(i, a) /\ UNCHANGED excused
    BY <1>1, <2>1, <2>3, <2>4, <2>5
  <2>6. CASE Set(i, n) /\ excused' = [excused EXCEPT ![k] = @ + 1]
    <3>1. CASE q = k
      BY <1>0, <2>1, <2>6, <3>1
    <3>2. CASE q # k
      BY <1>0, <1>1, <2>1, <2>3, <2>6, <3>2
    <3> QED
      BY <3>1, <3>2
  <2> QED
    BY <2>2, <2>5, <2>6
<1>8. CASE End(i)
  <2> DEFINE r == [prober[i] EXCEPT !.pc = "wait", !.list = {}, !.began = 0]
             st == [k \in Key |-> IF k \in prober[i].list
                                     /\ r.state[k] \in {"pending", "probing"}
                                  THEN "failed" ELSE r.state[k]]
             e == [r EXCEPT !.state = st]
  <2>1. Set(i, r) \/ Set(i, e)
    BY <1>0, <1>8 DEF End, ProberType
  <2>2. r.state = prober[i].state /\ e.state = st
    BY <1>0 DEF ProberType
  <2>3. r.state[q] = "confirmed" => st[q] = "confirmed"
    OBVIOUS
  <2> HIDE DEF r, e, st
  <2>4. Keeping
    BY <1>1, <2>1, <2>2, <2>3
  <2>5. Same /\ prober[i].pc = "keys"
    BY <1>8 DEF End, ledger
  <2> QED
    BY <2>4, <2>5
<1>9. CASE Exit(i)
  <2>1. Same /\ prober'[i].alive = FALSE
    BY <1>1, <1>9 DEF Exit, Unused, ledger
  <2> QED
    BY <2>1
<1> QED
  BY <1>2, <1>3, <1>5, <1>6, <1>7, <1>8, <1>9 DEF ProberStep

\* A round stays in the quota day in whose window it began.
LEMMA RoundDay ==
  ASSUME WindowInDay, NEW b \in Nat, NEW t \in Nat, InWindow(b), b <= t, t - b <= RoundTime
  PROVE  QuotaDay(t) = QuotaDay(b) /\ Opened(t)
<1>1. /\ Opened(b) /\ ~Passed(b) /\ WindowEnd + Shift + RoundTime <= DayLen
      /\ Elapsed(b) \in Int /\ Shift \in Int /\ RoundTime \in Int /\ WindowEnd \in Int
      /\ WindowStart \in Int /\ DayLen \in Int
  BY WindowOfDay, Clock, Days DEF Shift
<1>2. Elapsed(b) + (t - b) < DayLen
  BY <1>1 DEF Passed
<1>3. QuotaDay(t) = QuotaDay(b)
  BY <1>2, StillThatDay
<1>4. Elapsed(t) = Elapsed(b) + (t - b)
  BY <1>3, SameDay
<1> QED
  BY <1>1, <1>3, <1>4 DEF Opened

LEMMA TimingStep ==
  ASSUME WindowInDay, IInv, TInv, Next
  PROVE  TInv'
<1>0. /\ TypeOK /\ Rounds /\ RoundTimed /\ Asked /\ ResetNeedsAnswer
      /\ now \in Nat /\ prober \in [Prober -> ProberType] /\ RoundTime \in Nat
      /\ \A i \in Prober : prober[i].began \in Nat
      /\ zeroed \in [Key -> Nat]
  <2>1. prober \in [Prober -> ProberType] /\ now \in Nat
    BY Assumed DEF IInv, TypeOK
  <2>2. \A i \in Prober : prober[i].began \in Nat
    BY <2>1, Assumed DEF ProberType
  <2> QED
    BY <2>1, <2>2, Days DEF IInv, TInv, TypeOK
<1>1. ASSUME UNCHANGED <<now, zeroed, answered>>,
             \A i \in Prober : \/ /\ prober'[i].pc = prober[i].pc
                                  /\ prober'[i].key = prober[i].key
                                  /\ prober'[i].began = prober[i].began
                               \/ prober'[i].pc \in {"unused", "wait"}
      PROVE  TInv'
  BY <1>0, <1>1 DEF TInv, RoundTimed, InRound, Asked, ResetNeedsAnswer
<1>2. CASE Tick
  <2>1. /\ now' = now + 1 /\ UNCHANGED prober
        /\ \A i \in Prober : InRound(i) => now - prober[i].began < RoundTime
    BY <1>2 DEF Tick
  <2>2. RoundTimed'
    BY <1>0, <2>1 DEF RoundTimed, InRound
  <2>3. CASE UNCHANGED ledger
    BY <1>0, <2>1, <2>2, <2>3 DEF TInv, Asked, ResetNeedsAnswer, ledger
  <2>4. CASE QuotaDay(now') # QuotaDay(now) /\ zeroed' = [k \in Key |-> 0]
    <3>1. ASSUME NEW i \in Prober, InRound(i) PROVE FALSE
      <4>1. /\ InWindow(prober[i].began) /\ prober[i].began <= now
            /\ now - prober[i].began <= RoundTime /\ now + 1 - prober[i].began <= RoundTime
            /\ prober[i].began \in Nat /\ now + 1 \in Nat /\ prober[i].began <= now + 1
        BY <1>0, <2>1, <3>1 DEF RoundTimed
      <4>2. QuotaDay(now) = QuotaDay(prober[i].began)
        BY <1>0, <4>1, RoundDay
      <4>3. QuotaDay(now + 1) = QuotaDay(prober[i].began)
        BY <1>0, <4>1, RoundDay
      <4> QED
        BY <2>1, <2>4, <4>2, <4>3
    <3>2. Asked'
      BY <2>1, <3>1 DEF Asked, InRound
    <3>3. ResetNeedsAnswer'
      BY <2>4 DEF ResetNeedsAnswer
    <3> QED
      BY <2>2, <3>2, <3>3 DEF TInv
  <2> QED
    BY <1>2, <2>3, <2>4 DEF Tick
<1>3. CASE \E k \in Key : Renew(k) \/ Use(k)
  BY <1>1, <1>3 DEF Renew, Use
<1>4. CASE \E h \in Handler, c \in Conf : Change(h, c)
  BY <1>1, <1>4 DEF Change, ledger
<1>5. ASSUME NEW h \in Handler, HandlerStep(h) PROVE TInv'
  <2>1. UNCHANGED <<now, zeroed, answered>>
    BY <1>5 DEF HandlerStep, ReadSnapshot, Apply, Start, Answer, ledger
  <2> QED
    BY <1>0, <1>1, <1>5, <2>1, HandledProbers
<1>6. CASE Restart
  <2>1. UNCHANGED <<now, zeroed, answered>>
    BY <1>6 DEF Restart
  <2> QED
    BY <1>1, <1>6, <2>1, BootedWrites DEF Restart
<1>7. ASSUME NEW i \in Prober, ProberStep(i) PROVE TInv'
  <2>1. UNCHANGED now
    BY <1>0, <1>7, ProberTyped
  <2>2. /\ \A j \in Prober : j # i => prober'[j] = prober[j]
        /\ InRound(i)' => \/ InRound(i) /\ prober'[i].began = prober[i].began
                          \/ InWindow(now) /\ prober'[i].began = now
        /\ answered \subseteq answered'
        /\ prober'[i].pc = "token" => prober'[i].key \in answered'
        /\ prober'[i].pc = "count" =>
             prober[i].pc = "token" /\ prober'[i].key = prober[i].key
    BY <1>0, <1>7, ProberRound
  <2>3. RoundTimed'
    <3>1. ASSUME NEW j \in Prober, InRound(j)'
          PROVE  /\ InWindow(prober'[j].began) /\ prober'[j].began <= now
                 /\ now - prober'[j].began <= RoundTime
      <4>1. CASE j = i
        BY <1>0, <2>2, <3>1, <4>1 DEF RoundTimed
      <4>2. CASE j # i
        BY <1>0, <2>2, <3>1, <4>2 DEF RoundTimed, InRound
      <4> QED
        BY <4>1, <4>2
    <3> QED
      BY <2>1, <3>1 DEF RoundTimed
  <2>4. Asked'
    BY <1>0, <2>2 DEF Asked
  <2>5. ResetNeedsAnswer'
    <3>1. ASSUME NEW q \in Key, zeroed'[q] > 0 PROVE q \in answered'
      <4>1. \/ zeroed'[q] = zeroed[q]
            \/ prober[i].pc = "token" /\ prober[i].key = q
        BY <1>0, <1>7, ProberCounts
      <4> QED
        BY <1>0, <2>2, <3>1, <4>1 DEF Asked, ResetNeedsAnswer
    <3> QED
      BY <3>1 DEF ResetNeedsAnswer
  <2> QED
    BY <2>3, <2>4, <2>5 DEF TInv
<1> QED
  BY <1>2, <1>3, <1>4, <1>5, <1>6, <1>7 DEF Next

LEMMA TimingInit == Init => TInv
BY DEF Init, NewRefresher, Unused, TInv, RoundTimed, InRound, Asked, ResetNeedsAnswer

LEMMA TimingStutter == TInv /\ UNCHANGED vars => TInv'
BY DEF vars, TInv, RoundTimed, InRound, Asked, ResetNeedsAnswer

(* Tick and confirm (refresh.go:57): no counter is set to zero in a quota  *)
(* day before the upstream has served a probe of that key in it, however   *)
(* late the answer, if the window lies within one quota day.               *)
THEOREM ResetAfterAnswer ==
  ASSUME WindowInDay
  PROVE  Spec => []ResetNeedsAnswer
<1>1. IInv /\ TInv /\ [Next]_vars => TInv'
  BY TimingStep, TimingStutter
<1>2. TInv => ResetNeedsAnswer
  BY DEF TInv
<1> QED
  BY <1>1, <1>2, TimingInit, Invariant, PTL DEF Spec

-----------------------------------------------------------------------------
(* What a repetition of a reset needs.                                     *)

(* What has been set to zero in this quota day was so in its window.       *)
ResetInWindow == \A k \in Key : zeroed[k] > 0 => Opened(now)

(* A prober that will not reset the key again in this quota day: it keeps  *)
(* the key as confirmed, is about to do so, or has forgotten it after the  *)
(* window.                                                                 *)
Done(i, k) ==
  \/ prober[i].state[k] = "confirmed"
  \/ prober[i].pc = "count" /\ prober[i].key = k
  \/ prober[i].pc = "wait" /\ Passed(now)

(* Beyond what is excused, a key is reset once, and then the prober that   *)
(* runs is done with it; without a handle nothing is left to be excused.   *)
Once ==
  ~overlap => \A k \in Key :
    /\ zeroed[k] <= 1 + excused[k]
    /\ handle = None => zeroed[k] <= excused[k]
    /\ \A i \in Prober : prober[i].alive /\ zeroed[k] > excused[k] => Done(i, k)

OInv == ResetInWindow /\ Once

\* What a handler does to the counts of the resets.
LEMMA HandledCounts ==
  ASSUME TypeOK, NEW h \in Handler, HandlerStep(h)
  PROVE  \/ UNCHANGED <<handle, excused>> /\ \A i \in Prober : prober'[i].alive =>
              /\ prober[i].alive /\ prober'[i].pc = prober[i].pc
              /\ prober'[i].key = prober[i].key /\ prober'[i].state = prober[i].state
         \/ \A q \in Key : zeroed[q] <= excused'[q]
         \/ hand[h].pc = "start" /\ UNCHANGED excused
<1>0. /\ prober \in [Prober -> ProberType] /\ handle \in Prober \cup {None}
      /\ zeroed \in [Key -> Nat] /\ excused \in [Key -> Nat]
  BY DEF TypeOK
<1>1. CASE ReadSnapshot(h)
  BY <1>1 DEF ReadSnapshot, ledger
<1>2. CASE Answer(h)
  BY <1>0, <1>2 DEF Answer, ProberType, ledger
<1>3. CASE Start(h)
  BY <1>3 DEF Start, ledger
<1>4. CASE Apply(h)
  <2>1. CASE Stop
    <3>1. CASE Forgotten
      BY <1>0, <3>1 DEF Forgotten
    <3> QED
      BY <2>1, <3>1 DEF Stop
  <2>2. CASE ~Missing /\ UpdateLimits(hand[h].snap) /\ UNCHANGED <<handle, excused>>
    BY <1>0, <2>2 DEF Missing, UpdateLimits, Set, ProberType
  <2> QED
    BY <1>4, <2>1, <2>2 DEF Apply
<1> QED
  BY <1>1, <1>2, <1>3, <1>4 DEF HandlerStep

LEMMA OnceStep ==
  ASSUME WindowInDay, IInv, TInv, OInv, Next
  PROVE  OInv'
<1>0. /\ TypeOK /\ Rounds /\ Alone /\ RoundTimed /\ ResetInWindow /\ Once /\ now \in Nat
      /\ prober \in [Prober -> ProberType] /\ handle \in Prober \cup {None}
      /\ zeroed \in [Key -> Nat] /\ excused \in [Key -> Nat]
      /\ \A i \in Prober : i # None
  BY Assumed DEF IInv, TInv, OInv, TypeOK
\* Nothing is reset, and no prober goes on with another record.
<1>1. ASSUME UNCHANGED <<now, zeroed, handle, excused>>, ~overlap' => ~overlap,
             \A i \in Prober : prober'[i].alive =>
               /\ prober[i].alive /\ prober'[i].pc = prober[i].pc
               /\ prober'[i].key = prober[i].key /\ prober'[i].state = prober[i].state
      PROVE  OInv'
  <2>1. ResetInWindow'
    BY <1>0, <1>1 DEF ResetInWindow, Opened
  <2>2. Once'
    BY <1>0, <1>1 DEF Once, Done
  <2> QED
    BY <2>1, <2>2 DEF OInv
\* Or everything that was reset is excused.
<1>2. ASSUME UNCHANGED <<now, zeroed>>, ~overlap' => \A q \in Key : zeroed[q] <= excused'[q],
             excused' \in [Key -> Nat]
      PROVE  OInv'
  <2>1. ResetInWindow'
    BY <1>0, <1>2 DEF ResetInWindow, Opened
  <2>2. Once'
    BY <1>0, <1>2 DEF Once
  <2> QED
    BY <2>1, <2>2 DEF OInv
<1>3. CASE Tick
  <2>1. now' = now + 1 /\ now + 1 \in Nat /\ UNCHANGED <<prober, handle, overlap>>
    BY <1>0, <1>3 DEF Tick, fleet
  <2>2. CASE QuotaDay(now') = QuotaDay(now) /\ UNCHANGED ledger
    <3>1. /\ Elapsed(now + 1) = Elapsed(now) + 1 /\ Elapsed(now) \in Int
          /\ WindowStart + Shift \in Int /\ WindowEnd + Shift \in Int
      <4>1. Elapsed(now + 1) = Elapsed(now) + (now + 1 - now)
        BY <1>0, <2>1, <2>2, SameDay
      <4> QED
        BY <1>0, <4>1, Clock, Days DEF Shift
    <3>2. (Opened(now) => Opened(now + 1)) /\ (Passed(now) => Passed(now + 1))
      BY <3>1 DEF Opened, Passed
    <3>3. ResetInWindow'
      BY <1>0, <2>1, <2>2, <3>2 DEF ResetInWindow, ledger, Opened
    <3>4. \A i \in Prober, k \in Key : Done(i, k) => Done(i, k)'
      BY <2>1, <3>2 DEF Done, Passed
    <3>5. Once'
      BY <1>0, <2>1, <2>2, <3>4 DEF Once, ledger
    <3> QED
      BY <3>3, <3>5 DEF OInv
  <2>3. CASE zeroed' = [k \in Key |-> 0] /\ excused' = [k \in Key |-> 0]
    BY <2>3 DEF OInv, ResetInWindow, Once
  <2> QED
    BY <1>3, <2>2, <2>3 DEF Tick
<1>4. CASE \E k \in Key : Renew(k) \/ Use(k)
  BY <1>1, <1>4 DEF Renew, Use, fleet
<1>5. CASE \E h \in Handler, c \in Conf : Change(h, c)
  <2>1. ~overlap' => ~overlap
    BY <1>5 DEF Change
  <2> QED
    BY <1>1, <1>5, <2>1 DEF Change, ledger
<1>6. ASSUME NEW h \in Handler, HandlerStep(h) PROVE OInv'
  <2>1. UNCHANGED <<now, zeroed, overlap>>
    BY <1>6 DEF HandlerStep, ReadSnapshot, Apply, Start, Answer, ledger
  <2>2. excused' \in [Key -> Nat]
    BY <1>0, <1>6, ApplyTyped DEF HandlerStep, ReadSnapshot, Start, Answer, ledger
  <2>3. CASE hand[h].pc = "start" /\ UNCHANGED excused
    <3>1. ~overlap => handle = None
      BY <1>0, <2>3 DEF Alone
    <3>2. ~overlap => \A q \in Key : zeroed[q] <= excused[q]
      BY <1>0, <3>1 DEF Once
    <3> QED
      BY <1>2, <2>1, <2>2, <2>3, <3>2
  <2> QED
    BY <1>0, <1>1, <1>2, <1>6, <2>1, <2>2, <2>3, HandledCounts
<1>7. CASE Restart
  <2>1. UNCHANGED <<now, zeroed>> /\ Forgotten
    BY <1>7 DEF Restart
  <2>2. excused' \in [Key -> Nat] /\ \A q \in Key : zeroed[q] <= excused'[q]
    BY <1>0, <2>1 DEF Forgotten
  <2> QED
    BY <1>2, <2>1, <2>2
<1>8. ASSUME NEW i \in Prober, ProberStep(i) PROVE OInv'
  <2>1. UNCHANGED <<now, handle, overlap>>
    BY <1>0, <1>8, ProberTyped DEF fleet
  <2>2. /\ \A j \in Prober : prober'[j].alive => prober[j].alive
        /\ \A j \in Prober : j # i => prober'[j] = prober[j]
    BY <1>0, <1>8, ProberKeeps, ProberRound
  <2>3. prober[i].pc = "token" => Opened(now)
    <3>1. ASSUME prober[i].pc = "token" PROVE Opened(now)
      <4>1. /\ InWindow(prober[i].began) /\ prober[i].began <= now
            /\ now - prober[i].began <= RoundTime
        BY <1>0, <3>1 DEF RoundTimed, InRound
      <4>2. prober[i].began \in Nat
        BY <1>0, Assumed DEF ProberType
      <4> QED
        BY <1>0, <4>1, <4>2, RoundDay
    <3> QED
      BY <3>1
  <2>4. ASSUME NEW q \in Key
        PROVE  /\ zeroed'[q] > 0 => Opened(now)
               /\ ~overlap =>
                    /\ zeroed'[q] <= 1 + excused'[q]
                    /\ handle = None => zeroed'[q] <= excused'[q]
                    /\ \A j \in Prober :
                         prober'[j].alive /\ zeroed'[q] > excused'[q] => Done(j, q)'
    <3>1. zeroed[q] \in Nat /\ excused[q] \in Nat
      BY <1>0
    <3>2. zeroed[q] > 0 => Opened(now)
      BY <1>0 DEF ResetInWindow
    <3>3. ASSUME ~overlap
          PROVE  /\ zeroed[q] <= 1 + excused[q]
                 /\ handle = None => zeroed[q] <= excused[q]
                 /\ \A j \in Prober : prober[j].alive =>
                      j = handle /\ (zeroed[q] > excused[q] => Done(j, q))
      BY <1>0, <3>3 DEF Once, Alone
    <3>4. \A j \in Prober : j # i /\ Done(j, q) => Done(j, q)'
      BY <2>1, <2>2 DEF Done, Passed
    <3>5. prober[i].pc = "token" /\ prober[i].key = q => ~Done(i, q)
      BY <1>0 DEF Rounds, Done
    \* The step neither resets the key nor excuses anything, ...
    <3>6. CASE /\ zeroed'[q] = zeroed[q] /\ excused'[q] = excused[q]
               /\ prober'[i].alive =>
                    /\ prober[i].state[q] = "confirmed" =>
                         \/ prober'[i].state[q] = "confirmed"
                         \/ prober'[i].pc = "wait" /\ ~InWindow(now)
                    /\ prober[i].pc = "count" /\ prober[i].key = q =>
                         prober'[i].state[q] = "confirmed"
                    /\ prober[i].pc = "wait" => prober'[i].pc = "wait" \/ InWindow(now)
      <4>1. ASSUME prober'[i].alive, Done(i, q), Opened(now) PROVE Done(i, q)'
        <5>1. InWindow(now) <=> ~Passed(now)
          BY <1>0, <4>1, WindowOfDay
        <5> QED
          BY <2>1, <3>6, <4>1, <5>1 DEF Done, Passed
      <4>2. ASSUME ~overlap, NEW j \in Prober, prober'[j].alive, zeroed[q] > excused[q]
            PROVE  Done(j, q)'
        <5>1. Done(j, q) /\ Opened(now)
          BY <2>2, <3>1, <3>2, <3>3, <4>2
        <5> QED
          BY <3>4, <4>1, <4>2, <5>1
      <4> QED
        BY <3>2, <3>3, <3>6, <4>2
    \* ... or it resets the key for the first time, ...
    <3>7. CASE /\ prober[i].pc = "token" /\ prober[i].key = q /\ prober[i].alive
               /\ zeroed'[q] = zeroed[q] + 1 /\ excused'[q] = excused[q]
               /\ prober'[i].pc = "count" /\ prober'[i].key = q
      <4>1. Done(i, q)' /\ Opened(now)
        BY <2>3, <3>7 DEF Done
      <4>2. ASSUME ~overlap PROVE zeroed[q] <= excused[q] /\ handle = i
        BY <3>1, <3>3, <3>5, <3>7, <4>2
      <4>3. ASSUME ~overlap, NEW j \in Prober, prober'[j].alive PROVE Done(j, q)'
        BY <2>2, <3>3, <4>1, <4>2, <4>3
      <4> QED
        BY <1>0, <3>1, <3>7, <4>1, <4>2, <4>3
    \* ... or it excuses a repetition, with or without a reset.
    <3>8. CASE /\ prober[i].pc = "token" /\ prober[i].key = q
               /\ zeroed'[q] = zeroed[q] + 1 /\ excused'[q] = excused[q] + 1
      <4>1. ASSUME ~overlap, NEW j \in Prober, prober'[j].alive, zeroed[q] > excused[q]
            PROVE  Done(j, q)'
        BY <2>2, <3>3, <3>4, <3>5, <3>8, <4>1
      <4> QED
        BY <2>3, <3>1, <3>3, <3>8, <4>1
    <3>9. CASE zeroed'[q] = zeroed[q] /\ excused'[q] = excused[q] + 1
      BY <3>1, <3>2, <3>3, <3>9
    <3> QED
      BY <1>0, <1>8, <3>6, <3>7, <3>8, <3>9, ProberCounts
  <2>5. ResetInWindow'
    BY <2>1, <2>4 DEF ResetInWindow, Opened
  <2>6. Once'
    BY <2>1, <2>4 DEF Once
  <2> QED
    BY <2>5, <2>6 DEF OInv
<1> QED
  BY <1>3, <1>4, <1>5, <1>6, <1>7, <1>8 DEF Next

LEMMA OnceInit == Init => OInv
BY DEF Init, OInv, ResetInWindow, Once

LEMMA OnceStutter == OInv /\ UNCHANGED vars => OInv'
BY DEF vars, OInv, ResetInWindow, Opened, Once, Done, Passed

(* Tick and confirm (refresh.go): what was used after the quota of a key   *)
(* had been set to zero is not forgotten again in that quota day, without  *)
(* one of the known reasons, if the window lies within one quota day.      *)
THEOREM ResetOncePerDay ==
  ASSUME WindowInDay
  PROVE  Spec => []ResetOnce
<1>1. IInv /\ TInv /\ [Next]_vars => TInv'
  BY TimingStep, TimingStutter
<1>2. IInv /\ TInv /\ OInv /\ [Next]_vars => OInv'
  BY OnceStep, OnceStutter
<1>3. OInv => ResetOnce
  BY DEF OInv, Once, ResetOnce
<1> QED
  BY <1>1, <1>2, <1>3, TimingInit, OnceInit, Invariant, PTL DEF Spec
=============================================================================
