--------------------------- MODULE KeyPoolProofs ---------------------------
(***************************************************************************)
(* Proofs about KeyPool, for every number of keys, workers and operators:  *)
(* the list of keys has no key twice, and what keeps a banned key from     *)
(* being served.                                                           *)
(***************************************************************************)
EXTENDS KeyPool, SequenceTheorems, TLAPS

-----------------------------------------------------------------------------
(* The inductive invariant.                                                *)

Counters == [requests : Nat, ops : Nat, faults : Nat, restarts : Nat]

(* The types of what is shared: the rows, the list, the health table and   *)
(* the goroutines of the operator.                                         *)
Tables ==
  /\ row \in [Key -> RowType] /\ health \in [Key -> HealthOrNone]
  /\ cells \in Seq(Entry) /\ size \in 0 .. Len(cells)
  /\ task \in [Task -> TaskType] /\ now \in Nat /\ used \in Counters

Distinct(s) == \A i, j \in 1 .. Len(s) : i # j => s[i].key # s[j].key

(* What a goroutine carries from a read to the write it is for.            *)
Sound(r) == /\ r.pc \in {"seedAll", "swap"} => Distinct(r.list)
            /\ r.pc \in {"seed", "put"} => r.row \in RowType \ {NoRow}
            /\ r.pc = "put" => r.row.status = "active"
Carries == \A t \in Task : Sound(task[t])

(* The operator has banned the key, SetKeyStatus is done, and nothing is   *)
(* recorded that took the record of the key elsewhere.                     *)
Banned(k) == /\ row[k].status \in Terminal /\ k \notin drift
             /\ \A t \in Task : ~At(t, "status", k)

InList(s, k) == \E i \in 1 .. Len(s) : s[i].key = k

(* The key is not on the list, and nobody is about to put it there.        *)
Brings(r, k) == \/ r.pc \in {"seed", "put"} /\ r.key = k /\ r.row.status = "active"
                \/ r.pc \in {"seedAll", "swap"} /\ InList(r.list, k)
Gone(k) == k \notin PoolKeys /\ \A t \in Task : ~Brings(task[t], k)

(* Then its record has a terminal status; or, if the process started       *)
(* after the ban, the key was not loaded.                                  *)
Final(h) == h # None /\ h.status \in Terminal
BanKept == \A k \in Key : Banned(k) => Gone(k) \/ Final(health[k])

IInv == Tables /\ Carries /\ PoolDistinct /\ BanKept

-----------------------------------------------------------------------------
(* The list.                                                               *)

KeysOf(c, n) == {c[i].key : i \in 1 .. n}

LEMMA Assumed ==
  /\ NumKeys \in Nat /\ MaxRequests \in Nat /\ MaxOps \in Nat /\ MaxFaults \in Nat
  /\ MaxRestarts \in Nat /\ MaxTime \in Nat /\ MaxAttempts \in Nat \ {0}
  /\ PatchStatus \subseteq KeyStatus /\ "active" \in PatchStatus
  /\ RowAtStart \subseteq RowType /\ None \notin Key /\ None \notin HealthType
  /\ Sharded \in BOOLEAN
  /\ HealthMax \in Nat /\ CooldownFloor \in Nat /\ RecoverSuccess \in Nat
  /\ ThawScore \in 0 .. HealthMax /\ CooldownTime \in Nat \ {0}
  /\ Penalty \in [FailureKind -> Nat]
BY PoolAssumption, ShardAssumption, NamesAssumption, HealthAssumption, NoneAssumption
   DEF PoolAssumption, ShardAssumption, NamesAssumption, HealthAssumption, NoneAssumption

\* An array is a sequence.
LEMMA ArrayIsSeq ==
  ASSUME NEW n \in Nat, NEW f \in [1 .. n -> Entry]
  PROVE  f \in Seq(Entry) /\ Len(f) = n
<1>1. f \in Seq(Entry)
  BY SeqDef
<1>2. Len(f) \in Nat /\ DOMAIN f = 1 .. Len(f)
  BY <1>1, LenProperties
<1>3. DOMAIN f = 1 .. n
  OBVIOUS
<1>4. Len(f) = n
  <2>1. CASE Len(f) < n
    <3>1. n \in 1 .. n /\ n \notin 1 .. Len(f)
      BY <1>2, <2>1
    <3> QED
      BY <1>2, <1>3, <3>1
  <2>2. CASE n < Len(f)
    <3>1. Len(f) \in 1 .. Len(f) /\ Len(f) \notin 1 .. n
      BY <1>2, <2>2
    <3> QED
      BY <1>2, <1>3, <3>1
  <2> QED
    BY <1>2, <2>1, <2>2
<1> QED
  BY <1>1, <1>4

LEMMA PrefixKeys ==
  ASSUME NEW c \in Seq(Entry), NEW n \in 0 .. Len(c)
  PROVE  {SubSeq(c, 1, n)[i].key : i \in 1 .. n} = KeysOf(c, n)
<1>1. Len(c) \in Nat /\ \A i \in 1 .. Len(c) : c[i] \in Entry
  BY LenProperties, ElementOfSeq
<1>2. \A i \in 1 .. n : SubSeq(c, 1, n)[i] = c[i]
  <2>1. n \in Int /\ 1 \in Int /\ \A i \in 1 .. n : c[i] \in Entry
    BY <1>1
  <2>2. \A i \in 1 .. n - 1 + 1 : SubSeq(c, 1, n)[i] = c[1 + i - 1]
    BY <2>1, SubSeqProperties
  <2>3. ASSUME NEW i \in 1 .. n PROVE SubSeq(c, 1, n)[i] = c[i]
    <3>1. i \in 1 .. n - 1 + 1 /\ 1 + i - 1 = i
      BY <1>1
    <3> QED
      BY <2>2, <3>1
  <2> QED
    BY <2>3
<1> QED
  BY <1>2 DEF KeysOf

Shape == cells \in Seq(Entry) /\ size \in 0 .. Len(cells)

LEMMA PoolKeysAre ==
  ASSUME Shape
  PROVE  PoolKeys = KeysOf(cells, size)
BY PrefixKeys DEF Shape, PoolKeys, Pool

LEMMA PoolKeysAreNext ==
  ASSUME Shape'
  PROVE  PoolKeys' = KeysOf(cells', size')
BY PrefixKeys DEF Shape, PoolKeys, Pool

\* upsertKey adds at most its key, and none twice.
LEMMA UpsertList ==
  ASSUME Shape, NEW e \in Entry, Upsert(e)
  PROVE  /\ Shape' /\ PoolKeys' \subseteq PoolKeys \cup {e.key}
         /\ PoolDistinct => PoolDistinct'
<1>0. /\ cells \in Seq(Entry) /\ size \in 0 .. Len(cells) /\ Len(cells) \in Nat
      /\ PoolKeys = KeysOf(cells, size)
  BY LenProperties, PoolKeysAre DEF Shape
<1>1. ASSUME NEW i \in 1 .. size, cells[i].key = e.key,
             cells' = [cells EXCEPT ![i] = e], UNCHANGED size
      PROVE  /\ Shape' /\ KeysOf(cells', size') \subseteq PoolKeys \cup {e.key}
             /\ PoolDistinct => PoolDistinct'
  <2>1. /\ cells' \in Seq(Entry) /\ Len(cells') = Len(cells)
        /\ \A j \in 1 .. Len(cells) : cells'[j] = IF j = i THEN e ELSE cells[j]
    BY <1>0, <1>1, ExceptSeq
  <2>2. \A j \in 1 .. size : cells'[j].key = cells[j].key
    BY <1>0, <1>1, <2>1
  <2> QED
    BY <1>0, <1>1, <2>1, <2>2 DEF Shape, KeysOf, PoolDistinct
<1>2. ASSUME e.key \notin PoolKeys, size' = size + 1, size < Len(cells),
             cells' = [cells EXCEPT ![size + 1] = e]
      PROVE  /\ Shape' /\ KeysOf(cells', size') \subseteq PoolKeys \cup {e.key}
             /\ PoolDistinct => PoolDistinct'
  <2>1. size + 1 \in 1 .. Len(cells)
    BY <1>0, <1>2
  <2>2. /\ cells' \in Seq(Entry) /\ Len(cells') = Len(cells)
        /\ \A j \in 1 .. Len(cells) : cells'[j] = IF j = size + 1 THEN e ELSE cells[j]
    BY <1>0, <1>2, <2>1, ExceptSeq
  <2>3. /\ \A j \in 1 .. size : cells'[j] = cells[j] /\ cells[j].key # e.key
        /\ cells'[size + 1] = e
    BY <1>0, <1>2, <2>1, <2>2 DEF KeysOf
  <2>4. \A j \in 1 .. size + 1 : j \in 1 .. size \/ j = size + 1
    BY <1>0
  <2> QED
    BY <1>0, <1>2, <2>1, <2>2, <2>3, <2>4 DEF Shape, KeysOf, PoolDistinct
<1>3. ASSUME e.key \notin PoolKeys, size' = size + 1, ~(size < Len(cells)),
             cells' = Append(cells, e)
      PROVE  /\ Shape' /\ KeysOf(cells', size') \subseteq PoolKeys \cup {e.key}
             /\ PoolDistinct => PoolDistinct'
  <2>1. size = Len(cells)
    BY <1>0, <1>3
  <2>2. /\ cells' \in Seq(Entry) /\ Len(cells') = size + 1
        /\ cells'[size + 1] = e /\ \A j \in 1 .. size : cells'[j] = cells[j]
    BY <1>0, <1>3, <2>1, AppendProperties
  <2>3. \A j \in 1 .. size : cells[j].key # e.key
    BY <1>0, <1>3 DEF KeysOf
  <2>4. \A j \in 1 .. size + 1 : j \in 1 .. size \/ j = size + 1
    BY <1>0
  <2> QED
    BY <1>0, <1>3, <2>2, <2>3, <2>4 DEF Shape, KeysOf, PoolDistinct
<1>4. /\ Shape' /\ KeysOf(cells', size') \subseteq PoolKeys \cup {e.key}
      /\ PoolDistinct => PoolDistinct'
  BY <1>1, <1>2, <1>3 DEF Upsert
<1> QED
  BY <1>4, PoolKeysAreNext

\* removeKey adds nothing, and none twice.
LEMMA RemoveList ==
  ASSUME Shape, NEW k \in Key, Remove(k)
  PROVE  /\ Shape' /\ PoolKeys' \subseteq PoolKeys
         /\ PoolDistinct => PoolDistinct'
<1>0. /\ cells \in Seq(Entry) /\ size \in 0 .. Len(cells) /\ Len(cells) \in Nat
      /\ PoolKeys = KeysOf(cells, size) /\ \A j \in 1 .. Len(cells) : cells[j] \in Entry
  BY LenProperties, ElementOfSeq, PoolKeysAre DEF Shape
<1>1. CASE UNCHANGED <<cells, size>>
  BY <1>1 DEF Shape, PoolKeys, Pool, PoolDistinct
<1>2. ASSUME NEW i \in 1 .. size, size' = size - 1,
             cells' = [j \in 1 .. Len(cells) |->
                         IF j \in i .. size - 1 THEN cells[j + 1] ELSE cells[j]]
      PROVE  /\ Shape' /\ KeysOf(cells', size') \subseteq PoolKeys
             /\ PoolDistinct => PoolDistinct'
  <2>1. cells' \in [1 .. Len(cells) -> Entry]
    BY <1>0, <1>2
  <2>2. cells' \in Seq(Entry) /\ Len(cells') = Len(cells)
    BY <1>0, <2>1, ArrayIsSeq
  <2> DEFINE old(j) == IF j < i THEN j ELSE j + 1
  <2>3. \A j \in 1 .. size - 1 : old(j) \in 1 .. size /\ cells'[j] = cells[old(j)]
    BY <1>0, <1>2
  <2>4. \A j, l \in 1 .. size - 1 : j # l => old(j) # old(l)
    BY <1>0, <1>2
  <2> HIDE DEF old
  <2>5. Shape'
    BY <1>0, <1>2, <2>2 DEF Shape
  <2>6. KeysOf(cells', size') \subseteq PoolKeys
    BY <1>0, <1>2, <2>3 DEF KeysOf
  <2>7. PoolDistinct => PoolDistinct'
    <3>1. size \in Nat /\ size' = size - 1
      BY <1>0, <1>2
    <3>2. ASSUME PoolDistinct, NEW j \in 1 .. size - 1, NEW l \in 1 .. size - 1, j # l
          PROVE  cells'[j].key # cells'[l].key
      BY <2>3, <2>4, <3>2 DEF PoolDistinct
    <3> QED
      BY <3>1, <3>2 DEF PoolDistinct
  <2> QED
    BY <2>5, <2>6, <2>7
<1> QED
  BY <1>1, <1>2, PoolKeysAreNext DEF Remove

\* A new list.
LEMMA InstallList ==
  ASSUME NEW s \in Seq(Entry), cells' = s, size' = Len(s)
  PROVE  /\ Shape' /\ \A k : k \in PoolKeys' <=> InList(s, k)
         /\ Distinct(s) => PoolDistinct'
<1>1. Len(s) \in Nat
  BY LenProperties
<1>2. Shape'
  BY <1>1 DEF Shape
<1>3. PoolKeys' = KeysOf(s, Len(s))
  BY <1>2, PoolKeysAreNext
<1> QED
  BY <1>2, <1>3 DEF KeysOf, InList, Distinct, PoolDistinct

\* What the database lists is active, and no key is listed twice.
LEMMA ListingDistinct ==
  ASSUME row \in [Key -> RowType], NEW s, s \in Lists, IsListing(s) \/ s = <<>>
  PROVE  /\ s \in Seq(Entry) /\ Distinct(s)
         /\ \A k : InList(s, k) => row[k].status = "active"
<1>1. PICK n \in 0 .. NumKeys : s \in [1 .. n -> Entry]
  BY DEF Lists
<1>2. n \in Nat
  BY <1>1, Assumed
<1>3. s \in Seq(Entry) /\ Len(s) = n /\ \A i \in 1 .. n : s[i].key \in Nat
  <2>1. s \in Seq(Entry) /\ Len(s) = n
    BY <1>1, <1>2, ArrayIsSeq
  <2>2. \A i \in 1 .. n : s[i] \in Entry
    BY <1>1
  <2>3. \A e \in Entry : e.key \in Nat
    BY Assumed DEF Entry, Key
  <2> QED
    BY <2>1, <2>2, <2>3
<1>4. CASE s = <<>>
  <2>1. Len(s) = 0
    BY <1>4
  <2> QED
    BY <1>3, <2>1 DEF Distinct, InList
<1>5. CASE IsListing(s)
  <2>1. Distinct(s)
    BY <1>2, <1>3, <1>5 DEF IsListing, Distinct
  <2>2. \A k : InList(s, k) => row[k].status = "active"
    BY <1>5 DEF IsListing, InList, Loadable
  <2> QED
    BY <1>3, <2>1, <2>2
<1> QED
  BY <1>4, <1>5

-----------------------------------------------------------------------------
(* The health table.                                                       *)

\* Every operation makes a record of a record, or of none.
LEMMA HealthTyped ==
  ASSUME NEW h \in HealthOrNone, NEW t \in Nat
  PROVE  /\ \A s \in KeyStatus : Fresh(s) \in HealthType
         /\ Succeeded(h) \in HealthType /\ Checked(h, t) \in HealthType
         /\ \A s \in KeyStatus : Seeded(h, s) \in HealthType /\ SetTo(h, s) \in HealthType
         /\ \A kind \in FailureKind : Failed(h, kind, t) \in HealthType
<1>1. \A s \in KeyStatus : Fresh(s) \in HealthType
  BY Assumed DEF Fresh, HealthType
<1>2. "active" \in KeyStatus
  BY DEF KeyStatus
<1>3. Ensured(h) \in HealthType
  BY <1>1, <1>2 DEF Ensured, HealthOrNone
<1>4. PICK e \in HealthType : e = Ensured(h)
  BY <1>3
<1>5. /\ e.status \in KeyStatus /\ e.score \in 0 .. HealthMax /\ e.streak \in Nat
      /\ e.until \in Nat
  BY DEF HealthType
<1>6. Thawed(e) \in HealthType
  BY <1>2, <1>5, Assumed DEF Thawed, HealthType, AtLeast
<1>7. \A s \in KeyStatus : [e EXCEPT !.status = s] \in HealthType
  BY <1>5 DEF HealthType
<1>8. Succeeded(h) \in HealthType
  <2>1. AtMost(e.score + RecoverSuccess, HealthMax) \in 0 .. HealthMax
    BY <1>5, Assumed DEF AtMost
  <2>2. \A n \in 0 .. HealthMax :
          /\ [status |-> "active", score |-> n, streak |-> 0, until |-> 0] \in HealthType
          /\ [e EXCEPT !.score = n, !.streak = 0] \in HealthType
    BY <1>2, <1>5 DEF HealthType
  <2> QED
    BY <1>4, <2>1, <2>2 DEF Succeeded
<1>9. \A kind \in FailureKind : Failed(h, kind, t) \in HealthType
  <2> SUFFICES ASSUME NEW kind \in FailureKind PROVE Failed(h, kind, t) \in HealthType
    OBVIOUS
  <2>1. Penalty[kind] \in Nat
    BY Assumed
  <2>2. \A n \in Nat : Penalty[kind] * n \in Nat
    BY <2>1
  <2>3. ScoreAfter(e, kind) \in 0 .. HealthMax
    BY <1>5, <2>2, Assumed DEF ScoreAfter, AtLeast
  <2>4. StreakAfter(e, kind) \in Nat
    BY <1>5 DEF StreakAfter
  <2> DEFINE st == IF kind = "auth" THEN "invalid"
                   ELSE IF MustCool(e, kind) THEN "cooldown" ELSE e.status
             un == IF MustCool(e, kind) THEN t + CooldownTime ELSE e.until
  <2>5. st \in KeyStatus
    BY <1>5 DEF KeyStatus
  <2>6. un \in Nat
    BY <1>5, Assumed
  <2>7. Failed(h, kind, t) = [status |-> st, score |-> ScoreAfter(e, kind),
                              streak |-> StreakAfter(e, kind), until |-> un]
    BY <1>4 DEF Failed
  <2> HIDE DEF st, un
  <2> QED
    BY <2>3, <2>4, <2>5, <2>6, <2>7 DEF HealthType
<1>10. Checked(h, t) \in HealthType
  BY <1>4, <1>6 DEF Checked
<1>11. \A s \in KeyStatus : Seeded(h, s) \in HealthType /\ SetTo(h, s) \in HealthType
  BY <1>1, <1>4, <1>6, <1>7 DEF Seeded, SetTo, HealthOrNone
<1> QED
  BY <1>1, <1>8, <1>9, <1>10, <1>11

\* Asking for a key and seeding it leave a final status as it is.
LEMMA FinalStays ==
  ASSUME NEW h, Final(h), NEW t, NEW s
  PROVE  Checked(h, t) = h /\ Seeded(h, s) = h
BY DEF Final, Checked, Seeded, Ensured, Terminal

\* Which records a step takes out of a final status.
Leaves(k) == Final(health[k]) /\ ~Final(health'[k])

LEMMA MarkStep ==
  ASSUME Tables, NEW k, NEW h, k \in Key => h \in HealthType, Mark(k, h)
  PROVE  /\ health' \in [Key -> HealthOrNone] /\ drift \subseteq drift'
         /\ \A x \in Key : Leaves(x) => x = k /\ x \in drift'
<1>1. \A x \in Key : health'[x] = IF x = k THEN h ELSE health[x]
  BY DEF Tables, Mark
<1>2. health' \in [Key -> HealthOrNone]
  BY DEF Tables, Mark, HealthOrNone
<1>3. ASSUME NEW x \in Key, Leaves(x) PROVE x = k /\ x \in drift'
  <2>1. x = k
    BY <1>1, <1>3 DEF Leaves
  <2>2. h # None
    BY <2>1, Assumed
  <2> QED
    BY <1>1, <1>3, <2>1, <2>2 DEF Leaves, Final, Mark, Drifted
<1>4. drift \subseteq drift'
  BY DEF Mark, Drifted
<1> QED
  BY <1>2, <1>3, <1>4

\* A counter of a bound grows.
LEMMA Spent ==
  ASSUME used \in Counters
  PROVE  /\ \A b : Spend("requests", b) => used' \in Counters
         /\ \A b : Spend("ops", b) => used' \in Counters
         /\ \A b : Spend("faults", b) => used' \in Counters
         /\ \A b : Spend("restarts", b) => used' \in Counters /\ used'.restarts > used.restarts
BY DEF Spend, Counters

\* A request leaves rows, list and goroutines alone; it takes a key out of a
\* final status only by reporting an answer, and that is recorded.
LEMMA WorkerFrame ==
  ASSUME Tables, NEW w \in Worker, WorkerStep(w)
  PROVE  /\ UNCHANGED <<row, cells, size, task, now>> /\ used' \in Counters
         /\ health' \in [Key -> HealthOrNone] /\ drift \subseteq drift'
         /\ \A x \in Key : Leaves(x) =>
              wk[w].key = x /\ wk[w].pc \in {"flight", "body"} /\ x \in drift'
<1> DEFINE Health == /\ health' \in [Key -> HealthOrNone] /\ drift \subseteq drift'
                     /\ \A x \in Key : Leaves(x) =>
                          wk[w].key = x /\ wk[w].pc \in {"flight", "body"} /\ x \in drift'
<1>a. UNCHANGED <<row, cells, size, task, now>>
  BY DEF WorkerStep, Request, Retry, ReadKey, Visit, Pick, Answer, Body
<1>b. used' \in Counters
  <2>1. used \in Counters
    BY DEF Tables
  <2>2. UNCHANGED used \/ Spend("requests", MaxRequests)
    BY DEF WorkerStep, Request, Retry, ReadKey, Visit, Pick, Answer, Body
  <2> QED
    BY <2>1, <2>2, Spent
<1> SUFFICES Health
  BY <1>a, <1>b
<1>1. CASE Request(w) \/ Retry(w) \/ ReadKey(w) \/ Pick(w)
  <2>1. UNCHANGED <<health, drift>>
    BY <1>1 DEF Request, Retry, ReadKey, Pick
  <2> QED
    BY <2>1 DEF Tables, Leaves
<1>2. CASE Visit(w)
  <2>1. CASE UNCHANGED health
    BY <1>2, <2>1 DEF Visit, Tables, Leaves
  <2>2. ASSUME NEW k, health' = [health EXCEPT ![k] = Checked(@, now)]
        PROVE  health' \in [Key -> HealthOrNone] /\ \A x \in Key : ~Leaves(x)
    <3>1. \A x \in Key : health'[x] = IF x = k THEN Checked(health[x], now) ELSE health[x]
      BY <2>2 DEF Tables
    <3>2. \A x \in Key : health[x] \in HealthOrNone /\ Checked(health[x], now) \in HealthType
      BY HealthTyped DEF Tables
    <3>3. health' \in [Key -> HealthOrNone]
      BY <2>2, <3>2 DEF Tables, HealthOrNone
    <3>4. \A x \in Key : ~Leaves(x)
      BY <3>1, FinalStays DEF Leaves
    <3> QED
      BY <3>3, <3>4
  <2>3. UNCHANGED drift /\ (UNCHANGED health \/ health' = [health EXCEPT ![wk[w].half] = Checked(@, now)])
    BY <1>2 DEF Visit
  <2> QED
    BY <2>1, <2>2, <2>3
<1>3. CASE Answer(w)
  <2>1. CASE UNCHANGED <<health, drift>>
    BY <1>3, <2>1 DEF Answer, Tables, Leaves
  <2>2. CASE \E kind \in FailureKind : Mark(wk[w].key, Failed(health[wk[w].key], kind, now))
    <3>1. PICK kind \in FailureKind : Mark(wk[w].key, Failed(health[wk[w].key], kind, now))
      BY <2>2
    <3>2. wk[w].key \in Key => Failed(health[wk[w].key], kind, now) \in HealthType
      BY HealthTyped DEF Tables
    <3> QED
      <4>1. wk[w].pc \in {"flight", "body"}
        BY <1>3 DEF Answer
      <4> QED
        BY <3>1, <3>2, <4>1, MarkStep
  <2>3. CASE Mark(wk[w].key, Succeeded(health[wk[w].key]))
    <3>1. wk[w].key \in Key => Succeeded(health[wk[w].key]) \in HealthType
      BY HealthTyped DEF Tables
    <3> QED
      <4>1. wk[w].pc = "flight"
        BY <1>3 DEF Answer
      <4> QED
        BY <2>3, <3>1, <4>1, MarkStep
  <2> QED
    BY <1>3, <2>1, <2>2, <2>3 DEF Answer
<1>4. CASE Body(w)
  <2>1. CASE UNCHANGED <<health, drift>>
    BY <1>4, <2>1 DEF Body, Tables, Leaves
  <2>2. CASE \E kind \in FailureKind : Mark(wk[w].key, Failed(health[wk[w].key], kind, now))
    <3>1. PICK kind \in FailureKind : Mark(wk[w].key, Failed(health[wk[w].key], kind, now))
      BY <2>2
    <3>2. wk[w].key \in Key => Failed(health[wk[w].key], kind, now) \in HealthType
      BY HealthTyped DEF Tables
    <3> QED
      <4>1. wk[w].pc \in {"flight", "body"}
        BY <1>4 DEF Body
      <4> QED
        BY <3>1, <3>2, <4>1, MarkStep
  <2> QED
    BY <1>4, <2>1, <2>2 DEF Body, FailureKind
<1> QED
  BY <1>1, <1>2, <1>3, <1>4 DEF WorkerStep

-----------------------------------------------------------------------------
(* The goroutines of the operator and key_reload.                          *)

\* What the records of the goroutines may become.
LEMMA TaskTyped ==
  ASSUME NEW k \in Key, NEW s \in KeyStatus
  PROVE  /\ IdleTask \in TaskType /\ IdleTask.pc = "idle"
         /\ ToReload \in TaskType /\ ToReload.pc = "list"
         /\ [IdleTask EXCEPT !.pc = "read", !.key = k] \in TaskType
         /\ [IdleTask EXCEPT !.pc = "read", !.key = k].pc = "read"
         /\ AfterPatch(k, s) \in TaskType
         /\ AfterPatch(k, s).pc = "status" /\ AfterPatch(k, s).key = k
<1>1. IdleTask \in TaskType /\ IdleTask.pc = "idle"
  BY DEF IdleTask, TaskType, KeyStatus
<1>2. \A r \in TaskType : \A c \in {"list", "read", "status"} :
        /\ [r EXCEPT !.pc = c] \in TaskType /\ [r EXCEPT !.pc = c].pc = c
        /\ [r EXCEPT !.pc = c, !.key = k] \in TaskType
        /\ [r EXCEPT !.pc = c, !.key = k].pc = c
        /\ [r EXCEPT !.pc = c, !.key = k, !.status = s] \in TaskType
        /\ [r EXCEPT !.pc = c, !.key = k, !.status = s].pc = c
        /\ [r EXCEPT !.pc = c, !.key = k, !.status = s].key = k
  BY DEF TaskType
<1> QED
  BY <1>1, <1>2 DEF ToReload, AfterPatch

\* A goroutine that is not between a read and its write carries nothing.
Empty(r) == r.pc \notin {"seed", "put", "seedAll", "swap"}

LEMMA EmptySound ==
  ASSUME NEW r, Empty(r)
  PROVE  Sound(r) /\ \A q : ~Brings(r, q)
BY DEF Empty, Sound, Brings

LEMMA PoolSame ==
  ASSUME Shape, UNCHANGED <<cells, size>>
  PROVE  Shape' /\ PoolKeys' = PoolKeys /\ (PoolDistinct => PoolDistinct')
BY DEF Shape, PoolKeys, Pool, PoolDistinct

\* What a step of goroutine t has to show for the invariant.
StillBanned(q, t, r) ==
  \/ Final(health'[q])
  \/ /\ row[q].status \in Terminal /\ q \notin drift /\ ~At(t, "status", q)
     /\ Final(health[q]) => Final(health'[q])
     /\ Gone(q) => q \notin PoolKeys' /\ ~Brings(r, q)

LEMMA Kept ==
  ASSUME IInv, NEW t \in Task, NEW r \in TaskType, Sound(r), Goto(t, r),
         row' \in [Key -> RowType], health' \in [Key -> HealthOrNone],
         Shape', PoolDistinct', UNCHANGED now, used' \in Counters,
         \A q \in Key : Banned(q)' => StillBanned(q, t, r)
  PROVE  IInv'
<1>1. task \in [Task -> TaskType] /\ now \in Nat
  BY DEF IInv, Tables
<1>2. task' \in [Task -> TaskType] /\ task'[t] = r
  BY <1>1 DEF Goto
<1>3. \A u \in Task : u # t => task'[u] = task[u]
  BY <1>1 DEF Goto
<1>4. Tables'
  BY <1>1, <1>2 DEF Tables, Shape
<1>5. Carries'
  BY <1>2, <1>3 DEF IInv, Carries, Sound
<1>6. ASSUME NEW q \in Key, Banned(q)', ~Final(health'[q]) PROVE Gone(q)'
  <2>1. /\ row[q].status \in Terminal /\ q \notin drift /\ ~At(t, "status", q)
        /\ ~Final(health[q]) /\ (Gone(q) => q \notin PoolKeys' /\ ~Brings(r, q))
    BY <1>6 DEF StillBanned
  <2>2. \A u \in Task : ~At(u, "status", q)
    <3> SUFFICES ASSUME NEW u \in Task, u # t PROVE ~At(u, "status", q)
      BY <2>1
    <3>1. ~At(u, "status", q)'
      BY <1>6 DEF Banned
    <3> QED
      BY <1>3, <3>1 DEF At
  <2>3. Gone(q)
    BY <2>1, <2>2 DEF IInv, BanKept, Banned
  <2>4. \A u \in Task : ~Brings(task'[u], q)
    <3> SUFFICES ASSUME NEW u \in Task PROVE ~Brings(task'[u], q)
      OBVIOUS
    <3>1. CASE u = t
      BY <1>2, <2>1, <2>3, <3>1
    <3>2. CASE u # t
      BY <1>3, <2>3, <3>2 DEF Gone
    <3> QED
      BY <3>1, <3>2
  <2> QED
    BY <2>1, <2>3, <2>4 DEF Gone, Brings, InList
<1>7. BanKept'
  BY <1>6 DEF BanKept, Final
<1> QED
  BY <1>4, <1>5, <1>7 DEF IInv

\* The rows.
LEMMA RowTyped ==
  ASSUME row \in [Key -> RowType], NEW k \in Key
  PROVE  /\ Present(k) => row[k] \in [status : PatchStatus, tier : Tier, mine : BOOLEAN]
         /\ \A v \in RowType : row' = [row EXCEPT ![k] = v] =>
              /\ row' \in [Key -> RowType] /\ row'[k] = v
              /\ \A q \in Key : q # k => row'[q] = row[q]
BY DEF Present, RowType, NoRow

\* The operator's handlers first write the row.
LEMMA CommandStep ==
  ASSUME IInv, NEW t \in Admin, NEW k \in Key, Command(t, k)
  PROVE  IInv'
<1>1. /\ row \in [Key -> RowType] /\ health \in [Key -> HealthOrNone] /\ used \in Counters
      /\ Shape /\ PoolDistinct /\ t \in Task /\ task \in [Task -> TaskType]
  BY DEF IInv, Tables, Shape, Task
<1>2. UNCHANGED <<cells, size, health, now>> /\ task[t].pc = "idle" /\ Spend("ops", MaxOps)
  BY DEF Command, Patch, PatchTier, Import, ImportStatus, Assign, Delete, Operation
<1>3. used' \in Counters
  BY <1>1, <1>2, Spent
<1>4. Shape' /\ PoolKeys' = PoolKeys /\ PoolDistinct'
  BY <1>1, <1>2, PoolSame
<1>5. \A q : ~At(t, "status", q)
  BY <1>2 DEF At
<1>6. ASSUME NEW r \in TaskType, Empty(r), Goto(t, r), row' \in [Key -> RowType],
             \A q \in Key : Banned(q)' => row[q].status \in Terminal /\ q \notin drift
      PROVE  IInv'
  <2>1. Sound(r) /\ \A q : ~Brings(r, q)
    BY <1>6, EmptySound
  <2>2. \A q \in Key : Banned(q)' => StillBanned(q, t, r)
    BY <1>2, <1>4, <1>5, <1>6, <2>1 DEF StillBanned, Gone
  <2> QED
    BY <1>1, <1>2, <1>3, <1>4, <1>6, <2>1, <2>2, Kept
<1>7. ASSUME NEW s \in PatchStatus, NEW force \in BOOLEAN, Patch(t, k, s, force)
      PROVE  IInv'
  <2>1. PICK r \in TaskType : r = AfterPatch(k, s)
    BY TaskTyped, Assumed
  <2>2. r.pc = "status" /\ r.key = k /\ Empty(r) /\ Goto(t, r)
    <3>1. r.pc = "status" /\ r.key = k
      <4>1. s \in KeyStatus
        BY Assumed
      <4>2. AfterPatch(k, s).pc = "status" /\ AfterPatch(k, s).key = k
        BY <4>1, TaskTyped
      <4> QED
        BY <2>1, <4>2
    <3>2. Goto(t, r)
      BY <1>7, <2>1 DEF Patch
    <3> QED
      BY <3>1, <3>2 DEF Empty
  <2>3. task'[t] = r
    BY <1>1, <2>2 DEF Goto
  <2>4. PICK v \in RowType : v = [row[k] EXCEPT !.status = s]
    BY <1>1, <1>7, RowTyped DEF Patch, RowType
  <2>5. row' = [row EXCEPT ![k] = v]
    BY <1>7, <2>4 DEF Patch
  <2>6. row' \in [Key -> RowType] /\ \A q \in Key : q # k => row'[q] = row[q]
    BY <1>1, <2>5, RowTyped
  <2>7. UNCHANGED drift
    BY <1>7 DEF Patch
  <2>8. ~Banned(k)'
    BY <1>1, <2>2, <2>3 DEF Banned, At
  <2>9. ASSUME NEW q \in Key, Banned(q)' PROVE row[q].status \in Terminal /\ q \notin drift
    BY <2>6, <2>7, <2>8, <2>9 DEF Banned
  <2> QED
    BY <1>6, <2>2, <2>6, <2>9
<1>8. ASSUME NEW tier \in Tier, PatchTier(t, k, tier) PROVE IInv'
  <2>1. PICK r \in TaskType : r = [IdleTask EXCEPT !.pc = "read", !.key = k]
    BY TaskTyped DEF KeyStatus
  <2>2. Empty(r) /\ Goto(t, r)
    BY <1>8, <2>1, TaskTyped DEF PatchTier, Empty, KeyStatus
  <2>3. PICK v \in RowType : v = [row[k] EXCEPT !.tier = tier] /\ v.status = row[k].status
    BY <1>1, <1>8, RowTyped DEF PatchTier, RowType
  <2>4. row' = [row EXCEPT ![k] = v] /\ UNCHANGED drift
    BY <1>8, <2>3 DEF PatchTier
  <2>5. row' \in [Key -> RowType] /\ \A q \in Key : row'[q].status = row[q].status
    BY <1>1, <2>3, <2>4, RowTyped
  <2>6. ASSUME NEW q \in Key, Banned(q)' PROVE row[q].status \in Terminal /\ q \notin drift
    BY <2>4, <2>5, <2>6 DEF Banned
  <2> QED
    BY <1>6, <2>2, <2>5, <2>6
<1>9. ASSUME ToReload \in TaskType PROVE Empty(ToReload)
  BY TaskTyped DEF Empty, KeyStatus
<1>10. ToReload \in TaskType
  BY TaskTyped DEF KeyStatus
<1>11. ASSUME NEW tier \in Tier, NEW s \in PatchStatus, Imported(k, tier, s)
       PROVE  /\ row' \in [Key -> RowType] /\ row'[k].status = s
              /\ \A q \in Key : q # k => row'[q] = row[q]
  <2> DEFINE m == IF Present(k) THEN row[k].mine ELSE ~Sharded
             v == [status |-> s, tier |-> tier, mine |-> m]
  <2>1. m \in BOOLEAN
    BY <1>1, RowTyped, Assumed
  <2>2. row' = [row EXCEPT ![k] = v]
    BY <1>11 DEF Imported
  <2>3. v.status = s
    OBVIOUS
  <2> HIDE DEF m
  <2>4. v \in RowType
    BY <2>1 DEF RowType
  <2> HIDE DEF v
  <2> QED
    BY <1>1, <2>2, <2>3, <2>4, RowTyped
<1>12. ASSUME NEW tier \in Tier, Import(t, k, tier) PROVE IInv'
  <2> DEFINE s == IF Present(k) THEN row[k].status ELSE "active"
  <2>1. Goto(t, ToReload) /\ UNCHANGED drift /\ Imported(k, tier, s)
    BY <1>12 DEF Import
  <2>2. s \in PatchStatus
    BY <1>1, RowTyped, Assumed
  <2>3. s \in Terminal => row[k].status = s
    BY DEF Terminal
  <2> HIDE DEF s
  <2>4. /\ row' \in [Key -> RowType] /\ row'[k].status = s
        /\ \A q \in Key : q # k => row'[q] = row[q]
    BY <1>11, <2>1, <2>2
  <2>5. ASSUME NEW q \in Key, Banned(q)' PROVE row[q].status \in Terminal /\ q \notin drift
    BY <2>1, <2>3, <2>4, <2>5 DEF Banned
  <2> QED
    BY <1>6, <1>9, <1>10, <2>1, <2>4, <2>5
<1>13. ASSUME NEW tier \in Tier, NEW s \in PatchStatus, ImportStatus(t, k, tier, s)
       PROVE  IInv'
  <2>1. Goto(t, ToReload) /\ drift' = drift \cup {k} /\ Imported(k, tier, s)
    BY <1>13 DEF ImportStatus
  <2>2. row' \in [Key -> RowType] /\ \A q \in Key : q # k => row'[q] = row[q]
    BY <1>11, <2>1
  <2>3. ASSUME NEW q \in Key, Banned(q)' PROVE row[q].status \in Terminal /\ q \notin drift
    BY <2>1, <2>2, <2>3 DEF Banned
  <2> QED
    BY <1>6, <1>9, <1>10, <2>1, <2>2, <2>3
<1>14. ASSUME NEW b \in BOOLEAN, Assign(t, k, b) PROVE IInv'
  <2>1. task[t] \in TaskType /\ Empty(task[t]) /\ Goto(t, task[t])
    BY <1>1, <1>2, <1>14 DEF Assign, Empty, Goto
  <2>2. PICK v \in RowType : v = [row[k] EXCEPT !.mine = b] /\ v.status = row[k].status
    BY <1>1, <1>14, RowTyped DEF Assign, RowType
  <2>3. row' = [row EXCEPT ![k] = v] /\ UNCHANGED drift
    BY <1>14, <2>2 DEF Assign
  <2>4. row' \in [Key -> RowType] /\ \A q \in Key : row'[q].status = row[q].status
    BY <1>1, <2>2, <2>3, RowTyped
  <2>5. ASSUME NEW q \in Key, Banned(q)' PROVE row[q].status \in Terminal /\ q \notin drift
    BY <2>3, <2>4, <2>5 DEF Banned
  <2> QED
    BY <1>6, <2>1, <2>4, <2>5
<1>15. ASSUME Delete(t, k) PROVE IInv'
  <2>1. Goto(t, ToReload) /\ drift' = drift \ {k} /\ row' = [row EXCEPT ![k] = NoRow]
    BY <1>15 DEF Delete
  <2>2. NoRow \in RowType /\ NoRow.status \notin Terminal
    BY DEF RowType, NoRow, Terminal
  <2>3. /\ row' \in [Key -> RowType] /\ row'[k] = NoRow
        /\ \A q \in Key : q # k => row'[q] = row[q]
    BY <1>1, <2>1, <2>2, RowTyped
  <2>4. ASSUME NEW q \in Key, Banned(q)' PROVE row[q].status \in Terminal /\ q \notin drift
    BY <2>1, <2>2, <2>3, <2>4 DEF Banned
  <2> QED
    BY <1>6, <1>9, <1>10, <2>1, <2>3, <2>4
<1> QED
  BY <1>7, <1>8, <1>12, <1>13, <1>14, <1>15 DEF Command

\* SetKeyStatus, RefreshKey and Reload carry what they read to the table and
\* to the list.
LEMMA TaskStepInv ==
  ASSUME IInv, NEW t \in Task, TaskStep(t)
  PROVE  IInv'
<1>1. /\ row \in [Key -> RowType] /\ health \in [Key -> HealthOrNone] /\ used \in Counters
      /\ Shape /\ PoolDistinct /\ task \in [Task -> TaskType] /\ task[t] \in TaskType
      /\ now \in Nat
  BY DEF IInv, Tables, Shape
<1> DEFINE T == task[t]
<1>2. /\ T.pc \in {"idle", "status", "read", "drop", "seed", "put", "list", "seedAll", "swap"}
      /\ T.key \in Key \cup {None} /\ T.row \in RowType \cup {None}
      /\ T.status \in KeyStatus /\ T.list \in Seq(Entry) /\ Sound(T)
  BY <1>1 DEF TaskType, IInv, Carries
<1>3. IdleTask \in TaskType /\ Sound(IdleTask) /\ \A q : ~Brings(IdleTask, q)
  <2>1. IdleTask \in TaskType /\ Empty(IdleTask)
    BY DEF IdleTask, TaskType, KeyStatus, Empty
  <2> QED
    BY <2>1, EmptySound
<1>4. ASSUME NEW k \in Key, SetStatus(t, k) PROVE IInv'
  <2>1. T.pc = "status" /\ T.key = k /\ UNCHANGED <<row, cells, size, now, used>>
    BY <1>4 DEF SetStatus, At
  <2>2. PICK r \in TaskType : r = [IdleTask EXCEPT !.pc = "read", !.key = k]
    BY TaskTyped DEF KeyStatus
  <2>3. Empty(r) /\ Goto(t, r)
    BY <1>4, <2>2, TaskTyped DEF SetStatus, Empty, KeyStatus
  <2>4. PICK h \in HealthType : h = SetTo(health[k], T.status)
    BY <1>1, <1>2, HealthTyped
  <2>5. health' = [health EXCEPT ![k] = h]
    BY <1>4, <2>4 DEF SetStatus
  <2>6. /\ health' \in [Key -> HealthOrNone] /\ health'[k] = h
        /\ \A q \in Key : q # k => health'[q] = health[q]
    BY <1>1, <2>5 DEF HealthOrNone
  <2>7. drift' = IF Present(k) /\ row[k].status # T.status THEN drift \cup {k} ELSE drift \ {k}
    BY <1>4 DEF SetStatus
  <2>8. T.status \in Terminal => Final(h)
    BY <1>1, <2>4, HealthTyped, Assumed DEF SetTo, Final, Terminal, Ensured, HealthOrNone, HealthType, Fresh, KeyStatus
  <2>9. Banned(k)' => Final(health'[k])
    BY <2>1, <2>6, <2>7, <2>8 DEF Banned, Present, Terminal
  <2>10. ASSUME NEW q \in Key, Banned(q)' PROVE StillBanned(q, t, r)
    <3>1. CASE q = k
      BY <2>9, <2>10, <3>1 DEF StillBanned
    <3>2. CASE q # k
      <4>1. row[q].status \in Terminal /\ q \notin drift /\ ~At(t, "status", q)
        BY <2>1, <2>7, <2>10, <3>2 DEF Banned, At
      <4>2. PoolKeys' = PoolKeys /\ ~Brings(r, q)
        BY <1>1, <2>1, <2>3, PoolSame, EmptySound
      <4> QED
        BY <2>6, <3>2, <4>1, <4>2 DEF StillBanned, Gone
    <3> QED
      BY <3>1, <3>2
  <2>11. Shape' /\ PoolDistinct'
    BY <1>1, <2>1, PoolSame
  <2>12. Sound(r)
    BY <2>3, EmptySound
  <2> QED
    BY <1>1, <2>1, <2>3, <2>6, <2>10, <2>11, <2>12, Kept
<1>5. ASSUME NEW r \in TaskType, Sound(r), Goto(t, r), T.pc # "status",
             UNCHANGED <<row, drift, now>>, used' \in Counters,
             health' \in [Key -> HealthOrNone], Shape', PoolDistinct',
             \A q \in Key : Final(health[q]) => Final(health'[q]),
             \A q \in Key : Banned(q)' /\ Gone(q) => q \notin PoolKeys' /\ ~Brings(r, q)
      PROVE  IInv'
  <2>1. \A q \in Key : Banned(q)' => StillBanned(q, t, r)
    BY <1>5 DEF StillBanned, Banned, At
  <2> QED
    BY <1>1, <1>5, <2>1, Kept
<1>6. ASSUME UNCHANGED <<cells, size>>
      PROVE  Shape' /\ PoolDistinct' /\ PoolKeys' = PoolKeys
  BY <1>1, <1>6, PoolSame
<1>7. UNCHANGED used => used' \in Counters
  BY <1>1
<1>8. UNCHANGED health => /\ health' \in [Key -> HealthOrNone]
                          /\ \A q \in Key : Final(health[q]) => Final(health'[q])
  BY <1>1
<1>9. \A b : Spend("faults", b) => used' \in Counters
  BY <1>1, Spent
<1>10. ASSUME NEW k \in Key, ReadRow(t, k) PROVE IInv'
  <2>1. T.pc = "read" /\ UNCHANGED <<row, cells, size, health, now, drift>>
        /\ used' \in Counters
    BY <1>7, <1>9, <1>10 DEF ReadRow, At
  <2>2. CASE Goto(t, [T EXCEPT !.pc = "seed", !.row = row[k]]) /\ Present(k)
    <3>1. PICK r \in TaskType : r = [T EXCEPT !.pc = "seed", !.row = row[k]]
      BY <1>1 DEF TaskType
    <3>2. r.pc = "seed" /\ r.row = row[k] /\ r.key = T.key
      BY <1>1, <3>1 DEF TaskType
    <3>3. row[k] \in RowType \ {NoRow}
      BY <1>1, <2>2 DEF Present, NoRow
    <3>4. Sound(r)
      BY <3>2, <3>3 DEF Sound
    <3>5. \A q \in Key : Banned(q)' => ~Brings(r, q)
      BY <1>10, <2>1, <3>2 DEF Brings, Banned, Terminal, ReadRow, At
    <3>6. \A q \in Key : Banned(q)' /\ Gone(q) => q \notin PoolKeys' /\ ~Brings(r, q)
      BY <1>6, <2>1, <3>5 DEF Gone
    <3> QED
      BY <1>5, <1>6, <1>8, <2>1, <2>2, <3>1, <3>4, <3>6
  <2>3. CASE Goto(t, [T EXCEPT !.pc = "drop"])
    <3>1. PICK r \in TaskType : r = [T EXCEPT !.pc = "drop"]
      BY <1>1 DEF TaskType
    <3>2. Sound(r) /\ \A q : ~Brings(r, q)
      BY <1>1, <3>1, EmptySound DEF Empty, TaskType
    <3>3. \A q \in Key : Banned(q)' /\ Gone(q) => q \notin PoolKeys' /\ ~Brings(r, q)
      BY <1>6, <2>1, <3>2 DEF Gone
    <3> QED
      BY <1>5, <1>6, <1>8, <2>1, <2>3, <3>1, <3>2, <3>3
  <2>4. CASE Goto(t, IdleTask)
    <3>1. \A q \in Key : Banned(q)' /\ Gone(q) => q \notin PoolKeys' /\ ~Brings(IdleTask, q)
      BY <1>3, <1>6, <2>1 DEF Gone
    <3> QED
      BY <1>3, <1>5, <1>6, <1>8, <2>1, <2>4, <3>1
  <2> QED
    BY <1>10, <2>2, <2>3, <2>4 DEF ReadRow
<1>11. ASSUME NEW k \in Key, DropKey(t, k) PROVE IInv'
  <2>1. T.pc = "drop" /\ Remove(k) /\ Goto(t, IdleTask) /\ UNCHANGED <<row, health, now, used, drift>>
    BY <1>11 DEF DropKey, At
  <2>2. Shape' /\ PoolKeys' \subseteq PoolKeys /\ PoolDistinct'
    BY <1>1, <2>1, RemoveList
  <2>3. \A q \in Key : Banned(q)' /\ Gone(q) => q \notin PoolKeys' /\ ~Brings(IdleTask, q)
    BY <1>3, <2>2 DEF Gone
  <2> QED
    BY <1>3, <1>5, <1>7, <1>8, <2>1, <2>2, <2>3
<1>12. ASSUME NEW k \in Key, SeedKey(t, k) PROVE IInv'
  <2>1. T.pc = "seed" /\ T.key = k /\ UNCHANGED <<row, cells, size, now, used, drift>>
    BY <1>12 DEF SeedKey, At
  <2>2. T.row \in RowType \ {NoRow}
    BY <1>2, <2>1 DEF Sound
  <2>3. T.row.status \in KeyStatus
    BY <2>2, Assumed DEF RowType
  <2>4. PICK h \in HealthType : h = Seeded(health[k], T.row.status)
    BY <1>1, <2>3, HealthTyped
  <2>5. health' = [health EXCEPT ![k] = h]
    BY <1>12, <2>4 DEF SeedKey
  <2>6. health' \in [Key -> HealthOrNone]
    BY <1>1, <2>5 DEF HealthOrNone
  <2>7. \A q \in Key : Final(health[q]) => Final(health'[q])
    BY <1>1, <2>4, <2>5, FinalStays
  <2>8. CASE T.row.status = "active" /\ Goto(t, [T EXCEPT !.pc = "put"])
    <3>1. PICK r \in TaskType : r = [T EXCEPT !.pc = "put"]
      BY <1>1 DEF TaskType
    <3>2. r.pc = "put" /\ r.key = T.key /\ r.row = T.row
      BY <1>1, <3>1 DEF TaskType
    <3>3. Sound(r)
      BY <2>2, <2>8, <3>2 DEF Sound
    <3>4. \A q : Brings(r, q) => Brings(T, q)
      BY <2>1, <3>2 DEF Brings
    <3>5. \A q \in Key : Banned(q)' /\ Gone(q) => q \notin PoolKeys' /\ ~Brings(r, q)
      BY <1>6, <2>1, <3>4 DEF Gone
    <3> QED
      BY <1>5, <1>6, <1>7, <2>1, <2>6, <2>7, <2>8, <3>1, <3>3, <3>5
  <2>9. CASE Goto(t, IdleTask)
    <3>1. \A q \in Key : Banned(q)' /\ Gone(q) => q \notin PoolKeys' /\ ~Brings(IdleTask, q)
      BY <1>3, <1>6, <2>1 DEF Gone
    <3> QED
      BY <1>3, <1>5, <1>6, <1>7, <2>1, <2>6, <2>7, <2>9, <3>1
  <2> QED
    BY <1>12, <2>8, <2>9 DEF SeedKey
<1>13. ASSUME NEW k \in Key, PutKey(t, k) PROVE IInv'
  <2>1. T.pc = "put" /\ T.key = k /\ UNCHANGED <<row, health, now, used, drift>>
        /\ Goto(t, IdleTask)
    BY <1>13 DEF PutKey, At
  <2>2. T.row \in RowType \ {NoRow} /\ T.row.status = "active"
    BY <1>2, <2>1 DEF Sound
  <2>3. PICK e \in Entry : e = EntryOf(k, T.row) /\ e.key = k
    <3>1. T.row.tier \in Tier
      BY <2>2 DEF RowType
    <3>2. EntryOf(k, T.row) = [key |-> k, tier |-> T.row.tier]
      BY DEF EntryOf
    <3> QED
      BY <3>1, <3>2 DEF Entry
  <2>4. Upsert(e)
    BY <1>13, <2>3 DEF PutKey
  <2>5. Shape' /\ PoolKeys' \subseteq PoolKeys \cup {k} /\ PoolDistinct'
    BY <1>1, <2>3, <2>4, UpsertList
  <2>6. Brings(T, k)
    BY <2>1, <2>2 DEF Brings
  <2>7. \A q \in Key : Banned(q)' /\ Gone(q) => q \notin PoolKeys' /\ ~Brings(IdleTask, q)
    BY <1>3, <2>5, <2>6 DEF Gone
  <2> QED
    BY <1>3, <1>5, <1>7, <1>8, <2>1, <2>5, <2>7
<1>14. ASSUME ListRows(t) PROVE IInv'
  <2>1. T.pc = "list" /\ UNCHANGED <<row, cells, size, health, now, drift>>
        /\ used' \in Counters
    BY <1>7, <1>9, <1>14 DEF ListRows
  <2>2. ASSUME NEW s \in Lists, IsListing(s), Goto(t, [T EXCEPT !.pc = "seedAll", !.list = s])
        PROVE  IInv'
    <3>1. /\ s \in Seq(Entry) /\ Distinct(s)
          /\ \A k : InList(s, k) => row[k].status = "active"
      BY <1>1, <2>2, ListingDistinct
    <3>2. PICK r \in TaskType : r = [T EXCEPT !.pc = "seedAll", !.list = s]
      BY <1>1, <3>1 DEF TaskType
    <3>3. r.pc = "seedAll" /\ r.list = s
      BY <1>1, <3>2 DEF TaskType
    <3>4. Sound(r)
      BY <3>1, <3>3 DEF Sound
    <3>5. \A q \in Key : Banned(q)' => ~Brings(r, q)
      BY <2>1, <3>1, <3>3 DEF Brings, Banned, Terminal
    <3>6. \A q \in Key : Banned(q)' /\ Gone(q) => q \notin PoolKeys' /\ ~Brings(r, q)
      BY <1>6, <2>1, <3>5 DEF Gone
    <3> QED
      BY <1>5, <1>6, <1>8, <2>1, <2>2, <3>2, <3>4, <3>6
  <2>3. CASE Goto(t, IdleTask)
    <3>1. \A q \in Key : Banned(q)' /\ Gone(q) => q \notin PoolKeys' /\ ~Brings(IdleTask, q)
      BY <1>3, <1>6, <2>1 DEF Gone
    <3> QED
      BY <1>3, <1>5, <1>6, <1>8, <2>1, <2>3, <3>1
  <2> QED
    BY <1>14, <2>2, <2>3 DEF ListRows
<1>15. ASSUME SeedList(t) PROVE IInv'
  <2>1. T.pc = "seedAll" /\ UNCHANGED <<row, cells, size, now, used, drift>>
    BY <1>15 DEF SeedList
  <2>2. \A k \in Key : /\ health'[k] = Seeded(health[k], "active") \/ health'[k] = health[k]
    BY <1>15 DEF SeedList
  <2>3. \A k \in Key : health[k] \in HealthOrNone /\ Seeded(health[k], "active") \in HealthType
    BY <1>1, HealthTyped DEF KeyStatus
  <2>4. health' \in [Key -> HealthOrNone]
    BY <1>15, <2>3 DEF SeedList, HealthOrNone
  <2>5. \A q \in Key : Final(health[q]) => Final(health'[q])
    BY <2>2, FinalStays
  <2>6. PICK r \in TaskType : r = [T EXCEPT !.pc = "swap"]
    BY <1>1 DEF TaskType
  <2>7. r.pc = "swap" /\ r.list = T.list /\ Goto(t, r)
    BY <1>1, <1>15, <2>6 DEF TaskType, SeedList
  <2>8. Sound(r) /\ \A q : Brings(r, q) => Brings(T, q)
    BY <1>2, <2>1, <2>7 DEF Sound, Brings
  <2>9. \A q \in Key : Banned(q)' /\ Gone(q) => q \notin PoolKeys' /\ ~Brings(r, q)
    BY <1>6, <2>1, <2>8 DEF Gone
  <2> QED
    BY <1>5, <1>6, <1>7, <2>1, <2>4, <2>5, <2>7, <2>8, <2>9
<1>16. ASSUME Swap(t) PROVE IInv'
  <2>1. /\ T.pc = "swap" /\ cells' = T.list /\ size' = Len(T.list) /\ Goto(t, IdleTask)
        /\ UNCHANGED <<row, health, now, used, drift>>
    BY <1>16 DEF Swap, Install
  <2>2. Distinct(T.list)
    BY <1>2, <2>1 DEF Sound
  <2>3. Shape' /\ PoolDistinct' /\ \A k : k \in PoolKeys' <=> InList(T.list, k)
    BY <1>2, <2>1, <2>2, InstallList
  <2>4. \A q \in Key : Banned(q)' /\ Gone(q) => q \notin PoolKeys' /\ ~Brings(IdleTask, q)
    BY <1>3, <2>1, <2>3 DEF Gone, Brings
  <2> QED
    BY <1>3, <1>5, <1>7, <1>8, <2>1, <2>3, <2>4
<1> QED
  BY <1>4, <1>10, <1>11, <1>12, <1>13, <1>14, <1>15, <1>16 DEF TaskStep

-----------------------------------------------------------------------------
(* The specification.                                                      *)

\* A process that starts has loaded active rows only, and nobody is at work.
LEMMA StartedInv ==
  row \in [Key -> RowType] /\ Started /\ now \in Nat /\ used \in Counters => IInv
<1> SUFFICES ASSUME row \in [Key -> RowType], Started, now \in Nat, used \in Counters
             PROVE  IInv
  OBVIOUS
<1>1. /\ cells \in Seq(Entry) /\ Distinct(cells) /\ size = Len(cells)
      /\ \A k : InList(cells, k) => row[k].status = "active"
  BY ListingDistinct DEF Started, Loaded
<1>2. Shape
  <2>1. Len(cells) \in Nat
    BY <1>1, LenProperties
  <2> QED
    BY <1>1, <2>1 DEF Shape
<1>3. health \in [Key -> HealthOrNone]
  <2>1. Fresh("active") \in HealthOrNone /\ None \in HealthOrNone
    BY Assumed DEF Fresh, HealthType, HealthOrNone, KeyStatus
  <2> QED
    BY <2>1 DEF Started
<1>4. IdleTask \in TaskType /\ Empty(IdleTask)
  BY DEF IdleTask, TaskType, KeyStatus, Empty
<1>5. task \in [Task -> TaskType] /\ \A t \in Task : task[t] = IdleTask
  BY <1>4 DEF Started
<1>6. Sound(IdleTask) /\ \A q : ~Brings(IdleTask, q)
  BY <1>4, EmptySound
<1>7. PoolDistinct
  BY <1>1 DEF Distinct, PoolDistinct
<1>8. ASSUME NEW q \in Key, Banned(q) PROVE Gone(q)
  <2>1. ~InList(cells, q)
    BY <1>1, <1>8 DEF Banned, Terminal
  <2>2. q \notin PoolKeys
    BY <1>1, <1>2, <2>1, PoolKeysAre DEF KeysOf, InList
  <2> QED
    BY <1>5, <1>6, <2>2 DEF Gone
<1> QED
  BY <1>2, <1>3, <1>5, <1>6, <1>7, <1>8 DEF IInv, Tables, Shape, Carries, BanKept

\* The same of the state a restart leads to.
LEMMA StartedNext ==
  (row \in [Key -> RowType] /\ Started /\ now \in Nat /\ used \in Counters)' => IInv'
BY StartedInv, PTL

LEMMA InitInv == Init => IInv
<1> SUFFICES ASSUME Init PROVE IInv
  OBVIOUS
<1>1. row \in [Key -> RowType]
  BY Assumed DEF Init
<1>2. used \in Counters /\ now \in Nat /\ Started
  BY DEF Init, Counters
<1> QED
  BY <1>1, <1>2, StartedInv

LEMMA StutterInv == IInv /\ UNCHANGED vars => IInv'
BY DEF vars, IInv, Tables, Carries, Sound, PoolDistinct, BanKept, Banned, Gone, Brings,
       InList, At, PoolKeys, Pool, Final

LEMMA WorkerStepInv ==
  ASSUME IInv, NEW w \in Worker, WorkerStep(w)
  PROVE  IInv'
<1>1. /\ UNCHANGED <<row, cells, size, task, now>> /\ used' \in Counters
      /\ health' \in [Key -> HealthOrNone] /\ drift \subseteq drift'
      /\ \A x \in Key : Leaves(x) => x \in drift'
  BY WorkerFrame DEF IInv
<1>2. Tables'
  BY <1>1 DEF IInv, Tables
<1>3. Carries' /\ PoolDistinct'
  BY <1>1 DEF IInv, Carries, Sound, Distinct, PoolDistinct
<1>4. ASSUME NEW q \in Key, Banned(q)' PROVE Gone(q)' \/ Final(health'[q])
  <2>1. Banned(q) /\ q \notin drift'
    BY <1>1, <1>4 DEF Banned, At
  <2>2. CASE Gone(q)
    BY <1>1, <2>2 DEF Gone, Brings, InList, PoolKeys, Pool
  <2>3. CASE Final(health[q])
    BY <1>1, <2>1, <2>3 DEF Leaves
  <2> QED
    BY <2>1, <2>2, <2>3 DEF IInv, BanKept
<1> QED
  BY <1>2, <1>3, <1>4 DEF IInv, BanKept, Final

LEMMA NextInv == IInv /\ Next => IInv'
<1> SUFFICES ASSUME IInv, Next PROVE IInv'
  OBVIOUS
<1>1. ASSUME StartReload PROVE IInv'
  <2>1. /\ row \in [Key -> RowType] /\ health \in [Key -> HealthOrNone] /\ used \in Counters
        /\ Shape /\ PoolDistinct /\ Periodic \in Task
    BY DEF IInv, Tables, Shape, Task
  <2>2. PICK r \in TaskType : r = ToReload /\ Empty(r)
    <3>1. ToReload = [pc |-> "list", key |-> None, row |-> None, status |-> "active",
                      list |-> <<>>]
      BY DEF ToReload, IdleTask
    <3>2. ToReload.pc = "list"
      BY <3>1
    <3>3. ToReload \in TaskType
      BY <3>1 DEF TaskType, KeyStatus
    <3> QED
      BY <3>2, <3>3 DEF Empty
  <2>3. /\ Goto(Periodic, r) /\ task[Periodic].pc = "idle"
        /\ UNCHANGED <<row, cells, size, health, now, used, drift>>
    BY <1>1, <2>2 DEF StartReload
  <2>4. Shape' /\ PoolDistinct' /\ PoolKeys' = PoolKeys
    BY <2>1, <2>3, PoolSame
  <2>5. Sound(r) /\ \A q : ~Brings(r, q)
    BY <2>2, EmptySound
  <2>6. \A q \in Key : Banned(q)' => StillBanned(q, Periodic, r)
    BY <2>3, <2>4, <2>5 DEF StillBanned, Banned, At, Gone
  <2> QED
    BY <2>1, <2>3, <2>4, <2>5, <2>6, Kept
<1>2. ASSUME Tick PROVE IInv'
  <2>1. now' \in Nat /\ UNCHANGED <<row, cells, size, health, wk, task, used, drift>>
    BY <1>2 DEF Tick, IInv, Tables
  <2>2. Tables'
    BY <2>1 DEF IInv, Tables
  <2>3. Carries' /\ PoolDistinct'
    BY <2>1 DEF IInv, Carries, Sound, Distinct, PoolDistinct
  <2>4. ASSUME NEW q \in Key, Banned(q)' PROVE Gone(q)' \/ Final(health'[q])
    <3>1. Banned(q)
      BY <2>1, <2>4 DEF Banned, At
    <3>2. Gone(q) => Gone(q)'
      BY <2>1 DEF Gone, Brings, InList, PoolKeys, Pool
    <3> QED
      BY <2>1, <3>1, <3>2 DEF IInv, BanKept
  <2> QED
    BY <2>2, <2>3, <2>4 DEF IInv, BanKept, Final
<1>3. ASSUME Restart PROVE IInv'
  <2>1. row' \in [Key -> RowType] /\ now' \in Nat /\ used' \in Counters
    BY <1>3, Spent DEF Restart, IInv, Tables
  <2>2. Started'
    BY <1>3 DEF Restart, Started, Loaded, IsListing, Loadable
  <2> QED
    BY <2>1, <2>2, StartedNext
<1> QED
  BY <1>1, <1>2, <1>3, WorkerStepInv, CommandStep, TaskStepInv DEF Next

\* The inductive invariant: every fact the theorems below rest on.
THEOREM Invariant == Spec => []IInv
BY InitInv, NextInv, StutterInv, PTL DEF Spec

(* upsertKey, removeKey and Reload (scheduler.go) keep the list free of    *)
(* twins, whatever the goroutines carry between their reads and writes.    *)
THEOREM PoolHasNoTwins == Spec => []PoolDistinct
<1>1. IInv => PoolDistinct
  BY DEF IInv
<1> QED
  BY <1>1, Invariant, PTL

(* A key the operator has banned is not served, apart from the recorded    *)
(* exceptions: no reload, refresh or import that read the row before the   *)
(* ban brings it back (scheduler.go, health.go, the adminapi).             *)
THEOREM BanObserved == Spec => []BanHolds
<1>1. IInv => BanHolds
  <2> SUFFICES ASSUME IInv, NEW k \in Key, Banned(k) PROVE ~Serves(k)
    BY DEF BanHolds, Banned
  <2>1. CASE Gone(k)
    BY <2>1 DEF Gone, Serves
  <2>2. CASE Final(health[k])
    BY <2>2 DEF Final, Serves, Usable, Ensured, Terminal
  <2> QED
    BY <2>1, <2>2 DEF IInv, BanKept
<1> QED
  BY <1>1, Invariant, PTL

(* The health table (health.go) never takes a key out of a final status by *)
(* itself: only SetKeyStatus, the report of a request that had selected    *)
(* the key, or a new process does.                                         *)
THEOREM RevivalNeedsCause == Spec => NoQuietRevival
<1> DEFINE Cause(k) == \/ \E t \in Task : At(t, "status", k)
                       \/ \E w \in Worker : wk[w].key = k /\ wk[w].pc \in {"flight", "body"}
                       \/ used'.restarts > used.restarts
<1>1. ASSUME IInv, Next, NEW k \in Key, Leaves(k) PROVE Cause(k)
  <2>1. health \in [Key -> HealthOrNone] /\ used \in Counters /\ Tables
    BY <1>1 DEF IInv, Tables
  <2>2. ASSUME NEW w \in Worker, WorkerStep(w) PROVE Cause(k)
    BY <1>1, <2>1, <2>2, WorkerFrame
  <2>3. ASSUME NEW t \in Admin, NEW q \in Key, Command(t, q) PROVE Cause(k)
    <3>1. UNCHANGED health
      BY <2>3 DEF Command, Patch, PatchTier, Import, ImportStatus, Assign, Delete
    <3> QED
      BY <1>1, <3>1 DEF Leaves
  <2>4. ASSUME NEW t \in Task, TaskStep(t) PROVE Cause(k)
    <3>1. ASSUME NEW q \in Key, SetStatus(t, q) PROVE Cause(k)
      <4>1. health' = [health EXCEPT ![q] = SetTo(@, task[t].status)]
        BY <3>1 DEF SetStatus
      <4>2. k = q
        BY <1>1, <2>1, <4>1 DEF Leaves
      <4> QED
        BY <2>4, <3>1, <4>2 DEF SetStatus
    <3>2. ASSUME NEW q \in Key, SeedKey(t, q) PROVE Cause(k)
      <4>1. health' = [health EXCEPT ![q] = Seeded(@, task[t].row.status)]
        BY <3>2 DEF SeedKey
      <4> QED
        BY <1>1, <2>1, <4>1, FinalStays DEF Leaves
    <3>3. ASSUME SeedList(t) PROVE Cause(k)
      <4>1. health'[k] = Seeded(health[k], "active") \/ health'[k] = health[k]
        BY <3>3 DEF SeedList
      <4> QED
        BY <1>1, <4>1, FinalStays DEF Leaves
    <3>4. CASE UNCHANGED health
      BY <1>1, <3>4 DEF Leaves
    <3> QED
      BY <2>4, <3>1, <3>2, <3>3, <3>4 DEF TaskStep, ReadRow, DropKey, PutKey, ListRows, Swap
  <2>5. CASE StartReload \/ Tick
    BY <1>1, <2>5 DEF StartReload, Tick, Leaves
  <2>6. CASE Restart
    BY <2>1, <2>6, Spent DEF Restart
  <2> QED
    BY <1>1, <2>2, <2>3, <2>4, <2>5, <2>6 DEF Next
<1>2. IInv /\ [Next]_vars => [\A k \in Key : Leaves(k) => Cause(k)]_vars
  BY <1>1
<1>3. (\A k \in Key : Leaves(k) => Cause(k)) =>
        \A k \in Key :
          /\ health[k] # None /\ health[k].status \in Terminal
          /\ health'[k] = None \/ health'[k].status \notin Terminal
          => Cause(k)
  BY DEF Leaves, Final
<1>4. IInv /\ [Next]_vars =>
        [\A k \in Key :
          /\ health[k] # None /\ health[k].status \in Terminal
          /\ health'[k] = None \/ health'[k].status \notin Terminal
          => Cause(k)]_vars
  BY <1>2, <1>3
<1> QED
  BY <1>4, Invariant, PTL DEF Spec, NoQuietRevival
=============================================================================
