--------------------------- MODULE KeyScanProofs ---------------------------
(***************************************************************************)
(* Proofs about KeyPool: what a Select reads while the list is written     *)
(* under it, and the type of the whole state.                              *)
(*                                                                         *)
(* A worker that scans the array of the list has read a prefix of it.      *)
(* Upsert writes an entry in place but never changes its key, and appends  *)
(* behind what the worker reads; Install leaves the worker alone with the  *)
(* old array.  Only Remove moves entries, and it marks those who look on.  *)
(***************************************************************************)
EXTENDS KeyPoolProofs

-----------------------------------------------------------------------------
(* The inductive invariant, in addition to that of KeyPoolProofs.          *)

BoundedCounters == [requests : 0 .. MaxRequests, ops : 0 .. MaxOps,
                    faults : 0 .. MaxFaults, restarts : 0 .. MaxRestarts]
Bounded == now \in 0 .. MaxTime /\ used \in BoundedCounters /\ drift \in SUBSET Key

Scanning(r) == r.pc \in {"scan", "copy"}

(* A worker that asks the upstream has a key, one that scans is at an      *)
(* entry of what it took, or behind the last.                              *)
Under(r) == /\ r.pc \in {"flight", "body"} => r.key \in Key
            /\ Scanning(r) => r.at >= 1
            /\ r.pc = "copy" => r.at <= Len(r.view) /\ r.half \in Key

(* What a worker sees that shares the array of the list: array c, of which *)
(* the list has n entries.                                                 *)
Follows(r, c, n) ==
  Scanning(r) /\ r.shared =>
    /\ Len(r.view) <= Len(c)
    /\ ~r.shifted => /\ Len(r.view) <= n
                     /\ \A i \in 1 .. Len(r.view) : r.view[i] = c[i]

(* What a worker has found, as long as no entry moved under it: each       *)
(* candidate still is the key of the entry it was found at.                *)
Found(r, c) == /\ c.at \in 1 .. r.at - 1 /\ c.at <= Len(r.view)
               /\ c.key = r.view[c.at].key /\ c.secret = c.key
Whole(r) ==
  Scanning(r) /\ ~r.shifted =>
    /\ Distinct(r.view)
    /\ \A c \in r.cand : Found(r, c)
    /\ \A c, d \in r.cand : c.at = d.at => c = d
    /\ r.pc = "copy" => r.half = r.view[r.at].key

Reader(r, c, n) == Under(r) /\ Follows(r, c, n) /\ Whole(r)
Readers == wk \in [Worker -> WorkerType] /\ \A w \in Worker : Reader(wk[w], cells, size)

SInv == IInv /\ Bounded /\ Readers

-----------------------------------------------------------------------------
(* The workers.                                                            *)

LEMMA BoundedSpent ==
  ASSUME used \in BoundedCounters
  PROVE  /\ Spend("requests", MaxRequests) => used' \in BoundedCounters
         /\ Spend("ops", MaxOps) => used' \in BoundedCounters
         /\ Spend("faults", MaxFaults) => used' \in BoundedCounters
         /\ Spend("restarts", MaxRestarts) => used' \in BoundedCounters
BY Assumed DEF Spend, BoundedCounters

\* Who does not scan has nothing to see.
LEMMA NoScan ==
  ASSUME NEW r, r.pc \in {"idle", "select", "flight", "body"},
         r.pc \in {"flight", "body"} => r.key \in Key
  PROVE  \A c, n : Reader(r, c, n)
BY DEF Reader, Under, Follows, Whole, Scanning

LEMMA IdleTyped == IdleWorker \in WorkerType /\ \A c, n : Reader(IdleWorker, c, n)
<1>1. IdleWorker \in WorkerType
  <2>1. <<>> \in Seq(Entry)
    BY EmptySeq
  <2> QED
    BY <2>1, Assumed DEF IdleWorker, WorkerType
<1>2. IdleWorker.pc = "idle"
  BY DEF IdleWorker
<1> QED
  BY <1>1, <1>2, NoScan

\* One worker moves, and the list stays as it is.
LEMMA OneMoves ==
  ASSUME Readers, NEW w \in Worker, NEW r \in WorkerType, Reader(r, cells, size),
         wk' = [wk EXCEPT ![w] = r], UNCHANGED <<cells, size>>
  PROVE  Readers'
<1>1. wk' \in [Worker -> WorkerType]
  BY DEF Readers
<1>2. ASSUME NEW x \in Worker PROVE Reader(wk'[x], cells', size')
  <2>1. wk'[x] = IF x = w THEN r ELSE wk[x]
    BY DEF Readers
  <2>2. Reader(wk'[x], cells, size)
    BY <2>1 DEF Readers
  <2> QED
    BY <2>2 DEF Reader, Under, Follows, Whole, Scanning, Found, Distinct
<1> QED
  BY <1>1, <1>2 DEF Readers

\* The list that a Select takes.
LEMMA PoolTyped ==
  ASSUME Shape
  PROVE  /\ Pool \in Seq(Entry) /\ Len(Pool) = size
         /\ \A i \in 1 .. size : Pool[i] = cells[i]
<1>1. Len(cells) \in Nat /\ \A i \in 1 .. Len(cells) : cells[i] \in Entry
  BY LenProperties, ElementOfSeq DEF Shape
<1>2. size \in Int /\ 1 \in Int /\ \A i \in 1 .. size : cells[i] \in Entry
  BY <1>1 DEF Shape
<1>3. /\ Pool \in Seq(Entry) /\ Len(Pool) = IF 1 <= size THEN size - 1 + 1 ELSE 0
      /\ \A i \in 1 .. size - 1 + 1 : Pool[i] = cells[1 + i - 1]
  BY <1>2, SubSeqProperties DEF Pool
<1>4. size \in Nat
  BY <1>1 DEF Shape
<1>5. Len(Pool) = size
  BY <1>3, <1>4
<1>6. ASSUME NEW i \in 1 .. size PROVE Pool[i] = cells[i]
  <2>1. i \in 1 .. size - 1 + 1 /\ 1 + i - 1 = i
    BY <1>4
  <2> QED
    BY <1>3, <2>1
<1> QED
  BY <1>3, <1>5, <1>6

LEMMA TakeStep ==
  ASSUME Shape, PoolDistinct, Readers, NEW w \in Worker, NEW tried \in SUBSET Key,
         NEW attempt \in 0 .. MaxAttempts, Take(w, tried, attempt), UNCHANGED <<cells, size>>
  PROVE  Readers'
<1> DEFINE r == [IdleWorker EXCEPT !.pc = "scan", !.view = Pool, !.shared = TRUE,
                                   !.at = 1, !.tried = tried, !.attempt = attempt]
<1>1. /\ Pool \in Seq(Entry) /\ Len(Pool) = size
      /\ \A i \in 1 .. size : Pool[i] = cells[i]
  BY PoolTyped
<1>2. r = [IdleWorker EXCEPT !.pc = "scan", !.view = Pool, !.shared = TRUE,
                             !.at = 1, !.tried = tried, !.attempt = attempt]
  OBVIOUS
<1>3. wk' = [wk EXCEPT ![w] = r]
  BY DEF Take
<1> HIDE DEF r
<1>4. r \in WorkerType
  BY <1>1, <1>2, IdleTyped DEF WorkerType
<1>5. /\ r.pc = "scan" /\ r.view = Pool /\ r.shared = TRUE /\ r.shifted = FALSE
      /\ r.at = 1 /\ r.cand = {}
  BY <1>2 DEF IdleWorker
<1>6. Under(r)
  BY <1>5 DEF Under, Scanning
<1>7. Follows(r, cells, size)
  <2>1. size <= Len(cells) /\ size \in Nat
    BY LenProperties DEF Shape
  <2> QED
    BY <1>1, <1>5, <2>1 DEF Follows
<1>8. Whole(r)
  <2>1. Distinct(Pool)
    BY <1>1 DEF Distinct, PoolDistinct
  <2> QED
    BY <1>5, <2>1 DEF Whole
<1> QED
  BY <1>3, <1>4, <1>6, <1>7, <1>8, OneMoves DEF Reader

\* The next attempt, or the end of the request.
LEMMA AgainTyped ==
  ASSUME wk \in [Worker -> WorkerType], NEW w \in Worker, NEW tried \in SUBSET Key
  PROVE  Again(w, tried) \in WorkerType /\ Reader(Again(w, tried), cells, size)
<1>1. wk[w].attempt \in 0 .. MaxAttempts
  BY DEF WorkerType
<1>2. CASE wk[w].attempt < MaxAttempts
  <2> DEFINE r == [IdleWorker EXCEPT !.pc = "select", !.tried = tried,
                                     !.attempt = wk[w].attempt + 1]
  <2>1. r = [IdleWorker EXCEPT !.pc = "select", !.tried = tried,
                               !.attempt = wk[w].attempt + 1]
    OBVIOUS
  <2>2. Again(w, tried) = r
    BY <1>2 DEF Again
  <2>3. wk[w].attempt + 1 \in 0 .. MaxAttempts
    BY <1>1, <1>2, Assumed
  <2> HIDE DEF r
  <2>4. r \in WorkerType /\ r.pc = "select"
    BY <2>1, <2>3, IdleTyped DEF WorkerType
  <2> QED
    BY <2>2, <2>4, NoScan
<1>3. CASE ~(wk[w].attempt < MaxAttempts)
  BY <1>3, IdleTyped DEF Again
<1> QED
  BY <1>2, <1>3

LEMMA ReadKeyStep ==
  ASSUME Readers, NEW w \in Worker, ReadKey(w)
  PROVE  Readers'
<1> DEFINE o == wk[w]
           r == [o EXCEPT !.pc = "copy", !.half = o.view[o.at].key]
<1>1. o \in WorkerType /\ Reader(o, cells, size) /\ o.pc = "scan" /\ o.at <= Len(o.view)
  BY DEF Readers, ReadKey
<1>2. wk' = [wk EXCEPT ![w] = r]
  <2>1. wk' = [wk EXCEPT ![w].pc = "copy", ![w].half = o.view[o.at].key]
    BY DEF ReadKey
  <2> QED
    BY <2>1 DEF Readers
<1>3. o.at \in 1 .. Len(o.view)
  BY <1>1, LenProperties DEF Reader, Under, Scanning, WorkerType
<1>4. o.view[o.at].key \in Key
  <2>1. o.view \in Seq(Entry)
    BY <1>1 DEF WorkerType
  <2>2. o.view[o.at] \in Entry
    BY <1>3, <2>1, ElementOfSeq
  <2> QED
    BY <2>2 DEF Entry
<1>5. r = [o EXCEPT !.pc = "copy", !.half = o.view[o.at].key]
  OBVIOUS
<1> HIDE DEF r
<1>6. /\ r \in WorkerType /\ r.pc = "copy" /\ r.half = o.view[o.at].key
      /\ r.view = o.view /\ r.shared = o.shared /\ r.shifted = o.shifted
      /\ r.at = o.at /\ r.cand = o.cand
  BY <1>1, <1>4, <1>5 DEF WorkerType
<1> HIDE DEF o
<1>7. Under(r)
  BY <1>1, <1>3, <1>4, <1>6 DEF Under, Reader, Scanning
<1>8. Follows(r, cells, size)
  BY <1>1, <1>6 DEF Follows, Reader, Scanning
<1>9. Whole(r)
  BY <1>1, <1>6 DEF Whole, Reader, Scanning, Found
<1>10. UNCHANGED <<cells, size>>
  BY DEF ReadKey
<1> QED
  BY <1>2, <1>6, <1>7, <1>8, <1>9, <1>10, OneMoves DEF Reader

\* A candidate carries the secret of its key: the entry may be rewritten
\* between the two reads, but it keeps its key.
LEMMA VisitStep ==
  ASSUME Readers, NEW w \in Worker, Visit(w)
  PROVE  Readers'
<1> DEFINE o == wk[w]
           found == [at |-> o.at, key |-> o.half, secret |-> o.view[o.at].key,
                     tier |-> o.view[o.at].tier]
<1>1. o \in WorkerType /\ Reader(o, cells, size) /\ o.pc = "copy"
  BY DEF Readers, Visit
<1>2. o.at \in 1 .. Len(o.view) /\ o.half \in Key
  BY <1>1, LenProperties DEF Reader, Under, Scanning, WorkerType
<1>3. PICK f \in Candidate : f = found /\ f.at = o.at /\ f.key = o.half
                             /\ f.secret = o.view[o.at].key
  <2>1. o.view \in Seq(Entry)
    BY <1>1 DEF WorkerType
  <2>2. o.view[o.at] \in Entry
    BY <1>2, <2>1, ElementOfSeq
  <2>3. o.at \in Nat
    BY <1>1 DEF WorkerType
  <2>4. found \in Candidate
    BY <1>2, <2>2, <2>3 DEF Candidate, Entry
  <2> QED
    BY <2>4
<1> DEFINE n == [o EXCEPT !.pc = "scan", !.half = None, !.at = @ + 1]
           m == [n EXCEPT !.cand = @ \cup {f}]
<1>4. /\ n \in WorkerType /\ n.pc = "scan" /\ n.at = o.at + 1 /\ n.cand = o.cand
      /\ n.view = o.view /\ n.shared = o.shared /\ n.shifted = o.shifted
  <2>1. o.at + 1 \in Nat
    BY <1>2
  <2> QED
    BY <1>1, <2>1 DEF WorkerType
<1>5. /\ m \in WorkerType /\ m.pc = "scan" /\ m.at = o.at + 1
      /\ m.cand = o.cand \cup {f}
      /\ m.view = o.view /\ m.shared = o.shared /\ m.shifted = o.shifted
  <2>1. m = [n EXCEPT !.cand = @ \cup {f}]
    OBVIOUS
  <2> HIDE DEF m, n
  <2> QED
    BY <1>4, <2>1 DEF WorkerType
<1>6. wk' = [wk EXCEPT ![w] = n] \/ wk' = [wk EXCEPT ![w] = m]
  BY <1>3 DEF Visit
<1>7. UNCHANGED <<cells, size>>
  BY DEF Visit
<1> HIDE DEF n, m
<1>8. ASSUME NEW r \in WorkerType, r.pc = "scan", r.at = o.at + 1,
             r.cand = o.cand \/ r.cand = o.cand \cup {f},
             r.view = o.view, r.shared = o.shared, r.shifted = o.shifted
      PROVE  Reader(r, cells, size)
  <2> HIDE DEF o, found
  <2>1. Under(r)
    BY <1>2, <1>8 DEF Under, Scanning
  <2>2. Follows(r, cells, size)
    BY <1>1, <1>8 DEF Follows, Reader, Scanning
  <2>3. Whole(r)
    <3> SUFFICES ASSUME ~r.shifted PROVE Whole(r)
      BY DEF Whole
    <3>1. /\ Distinct(o.view) /\ \A c \in o.cand : Found(o, c)
          /\ \A c, d \in o.cand : c.at = d.at => c = d
          /\ o.half = o.view[o.at].key
      BY <1>1, <1>8 DEF Reader, Whole, Scanning
    <3>2. \A c \in o.cand : Found(r, c) /\ c.at # o.at
      BY <1>2, <1>8, <3>1 DEF Found
    <3>3. Found(r, f)
      <4>1. f.at \in 1 .. r.at - 1 /\ f.at <= Len(r.view)
        BY <1>2, <1>3, <1>8
      <4>2. f.key = r.view[f.at].key /\ f.secret = f.key
        BY <1>3, <1>8, <3>1
      <4> QED
        BY <4>1, <4>2 DEF Found
    <3>4. \A c \in r.cand : Found(r, c) /\ (c \in o.cand \/ c = f)
      BY <1>8, <3>2, <3>3
    <3>5. \A c, d \in r.cand : c.at = d.at => c = d
      BY <1>3, <3>1, <3>2, <3>4
    <3> QED
      BY <1>8, <3>1, <3>4, <3>5 DEF Whole
  <2> QED
    BY <2>1, <2>2, <2>3 DEF Reader
<1>9. Reader(n, cells, size)
  BY <1>4, <1>8
<1>10. Reader(m, cells, size)
  BY <1>5, <1>8
<1> QED
  BY <1>4, <1>5, <1>6, <1>7, <1>9, <1>10, OneMoves

LEMMA PickStep ==
  ASSUME Readers, NEW w \in Worker, Pick(w)
  PROVE  Readers'
<1>1. wk \in [Worker -> WorkerType] /\ UNCHANGED <<cells, size>>
  BY DEF Readers, Pick
<1>2. wk[w].tried \in SUBSET Key /\ wk[w].cand \in SUBSET Candidate
      /\ wk[w].attempt \in 0 .. MaxAttempts
  BY <1>1 DEF WorkerType
<1>3. CASE wk' = [wk EXCEPT ![w] = Again(w, wk[w].tried)]
  BY <1>1, <1>2, <1>3, AgainTyped, OneMoves
<1>4. ASSUME NEW c \in Choices(wk[w].cand) \ {None},
             wk' = [wk EXCEPT ![w] = [IdleWorker EXCEPT !.pc = "flight", !.key = c.key,
                                !.tried = wk[w].tried, !.attempt = wk[w].attempt]]
      PROVE  Readers'
  <2>1. c \in Candidate
    BY <1>2, <1>4 DEF Choices
  <2>2. c.key \in Key
    BY <2>1 DEF Candidate
  <2> DEFINE r == [IdleWorker EXCEPT !.pc = "flight", !.key = c.key,
                     !.tried = wk[w].tried, !.attempt = wk[w].attempt]
  <2>3. r = [IdleWorker EXCEPT !.pc = "flight", !.key = c.key,
               !.tried = wk[w].tried, !.attempt = wk[w].attempt]
    OBVIOUS
  <2>4. wk' = [wk EXCEPT ![w] = r]
    BY <1>4
  <2> HIDE DEF r
  <2>5. r \in WorkerType /\ r.pc = "flight" /\ r.key = c.key
    BY <1>2, <2>2, <2>3, IdleTyped DEF WorkerType
  <2>6. Reader(r, cells, size)
    BY <2>2, <2>5, NoScan
  <2> QED
    BY <1>1, <2>4, <2>5, <2>6, OneMoves
<1> QED
  BY <1>3, <1>4 DEF Pick

\* What becomes of a request that was answered.
LEMMA AnswerStep ==
  ASSUME Readers, drift \in SUBSET Key, NEW w \in Worker, Answer(w) \/ Body(w)
  PROVE  Readers' /\ drift' \in SUBSET Key
<1>1. wk \in [Worker -> WorkerType] /\ UNCHANGED <<cells, size>>
  BY DEF Readers, Answer, Body
<1>2. wk[w].key \in Key
  BY DEF Readers, Reader, Under, Answer, Body
<1>3. wk[w].tried \cup {wk[w].key} \in SUBSET Key
  BY <1>1, <1>2 DEF WorkerType
<1>4. drift' \in SUBSET Key
  <2>1. \A h : Mark(wk[w].key, h) => drift' \in SUBSET Key
    BY <1>2 DEF Mark, Drifted
  <2> QED
    BY <2>1 DEF Answer, Body
<1>5. CASE wk' = [wk EXCEPT ![w] = Again(w, wk[w].tried \cup {wk[w].key})]
  BY <1>1, <1>3, <1>4, <1>5, AgainTyped, OneMoves
<1>6. CASE wk' = [wk EXCEPT ![w] = IdleWorker]
  BY <1>1, <1>4, <1>6, IdleTyped, OneMoves
<1>7. CASE wk' = [wk EXCEPT ![w].pc = "body"]
  <2> DEFINE r == [wk[w] EXCEPT !.pc = "body"]
  <2>1. r \in WorkerType /\ r.pc = "body" /\ r.key = wk[w].key
    BY <1>1 DEF WorkerType
  <2>2. wk' = [wk EXCEPT ![w] = r]
    BY <1>1, <1>7
  <2> HIDE DEF r
  <2>3. Reader(r, cells, size)
    BY <1>2, <2>1, NoScan
  <2> QED
    BY <1>1, <1>4, <2>1, <2>2, <2>3, OneMoves
<1> QED
  BY <1>5, <1>6, <1>7 DEF Answer, Body

LEMMA WorkerStepReads ==
  ASSUME SInv, NEW w \in Worker, WorkerStep(w)
  PROVE  Bounded' /\ Readers'
<1>1. Shape /\ PoolDistinct /\ Readers /\ Bounded /\ wk[w] \in WorkerType
  BY DEF SInv, IInv, Tables, Shape, Readers
<1>2. UNCHANGED now /\ used' \in BoundedCounters
  <2>1. UNCHANGED now /\ (UNCHANGED used \/ Spend("requests", MaxRequests))
    BY DEF WorkerStep, Request, Retry, ReadKey, Visit, Pick, Answer, Body
  <2> QED
    BY <1>1, <2>1, BoundedSpent DEF Bounded
<1>3. CASE Request(w)
  <2>1. 1 \in 0 .. MaxAttempts /\ {} \in SUBSET Key
    BY Assumed
  <2>2. Take(w, {}, 1) /\ UNCHANGED <<cells, size, drift>>
    BY <1>3 DEF Request
  <2> QED
    BY <1>1, <1>2, <2>1, <2>2, TakeStep DEF Bounded
<1>4. CASE Retry(w)
  <2>1. wk[w].tried \in SUBSET Key /\ wk[w].attempt \in 0 .. MaxAttempts
    BY <1>1 DEF WorkerType
  <2>2. /\ Take(w, wk[w].tried, wk[w].attempt) \/ wk' = [wk EXCEPT ![w] = IdleWorker]
        /\ UNCHANGED <<cells, size, drift>>
    BY <1>4 DEF Retry
  <2>3. Readers'
    BY <1>1, <2>1, <2>2, TakeStep, IdleTyped, OneMoves
  <2> QED
    BY <1>1, <1>2, <2>2, <2>3 DEF Bounded
<1>5. CASE ReadKey(w) \/ Visit(w) \/ Pick(w)
  <2>1. UNCHANGED drift
    BY <1>5 DEF ReadKey, Visit, Pick
  <2> QED
    BY <1>1, <1>2, <1>5, <2>1, ReadKeyStep, VisitStep, PickStep DEF Bounded
<1>6. CASE Answer(w) \/ Body(w)
  BY <1>1, <1>2, <1>6, AnswerStep DEF Bounded
<1> QED
  BY <1>3, <1>4, <1>5, <1>6 DEF WorkerStep

-----------------------------------------------------------------------------
(* The writers of the list.                                                *)

\* The list is written in place, and those who look on are told of a shift.
LEMMA ReseenStep ==
  ASSUME Shape, Readers, NEW shift \in BOOLEAN, NEW keep \in BOOLEAN,
         Shape', Reseen(shift, keep), Len(cells) <= Len(cells'),
         ~shift => size <= size' /\ \A i \in 1 .. size : cells'[i].key = cells[i].key
  PROVE  Readers'
<1> DEFINE to(w) == [wk[w] EXCEPT !.view = SubSeq(cells', 1, Len(wk[w].view)),
                                  !.shifted = @ \/ shift, !.shared = keep]
<1>1. /\ cells' \in Seq(Entry) /\ Len(cells) \in Nat /\ Len(cells') \in Nat
      /\ size \in 0 .. Len(cells) /\ size' \in 0 .. Len(cells')
      /\ \A i \in 1 .. Len(cells') : cells'[i] \in Entry
  <2>1. cells \in Seq(Entry) /\ cells' \in Seq(Entry)
    BY DEF Shape
  <2> QED
    BY <2>1, LenProperties, ElementOfSeq DEF Shape
<1>2. wk' = [w \in Worker |-> IF wk[w].pc \in {"scan", "copy"} /\ wk[w].shared
                              THEN to(w) ELSE wk[w]]
  BY DEF Reseen
<1>3. ASSUME NEW w \in Worker, Scanning(wk[w]), wk[w].shared
      PROVE  to(w) \in WorkerType /\ Reader(to(w), cells', size')
  <2> DEFINE o == wk[w]
             v == SubSeq(cells', 1, Len(o.view))
             r == [o EXCEPT !.view = v, !.shifted = @ \/ shift, !.shared = keep]
  <2>1. o \in WorkerType /\ Reader(o, cells, size)
    BY DEF Readers
  <2>2. Len(o.view) \in Nat /\ Len(o.view) <= Len(cells)
    BY <1>3, <2>1, LenProperties DEF Reader, Follows, WorkerType
  <2>3. /\ v \in Seq(Entry) /\ Len(v) = Len(o.view)
        /\ \A i \in 1 .. Len(o.view) : v[i] = cells'[i]
    <3> DEFINE n == Len(o.view)
    <3>1. n \in Nat /\ n <= Len(cells')
      BY <1>1, <2>2
    <3> HIDE DEF o, n
    <3>2. n \in Int /\ 1 \in Int /\ \A i \in 1 .. n : cells'[i] \in Entry
      BY <1>1, <3>1
    <3>3. /\ SubSeq(cells', 1, n) \in Seq(Entry)
          /\ Len(SubSeq(cells', 1, n)) = IF 1 <= n THEN n - 1 + 1 ELSE 0
          /\ \A i \in 1 .. n - 1 + 1 : SubSeq(cells', 1, n)[i] = cells'[1 + i - 1]
      BY <3>2, SubSeqProperties
    <3>4. Len(SubSeq(cells', 1, n)) = n
      BY <3>1, <3>3
    <3>5. ASSUME NEW i \in 1 .. n PROVE SubSeq(cells', 1, n)[i] = cells'[i]
      <4>1. i \in 1 .. n - 1 + 1 /\ 1 + i - 1 = i
        BY <3>1
      <4> QED
        BY <3>3, <4>1
    <3> QED
      BY <3>3, <3>4, <3>5 DEF n
  <2> HIDE DEF v
  <2>4. /\ r \in WorkerType /\ r.pc = o.pc /\ r.at = o.at /\ r.half = o.half
        /\ r.cand = o.cand /\ r.view = v /\ r.shifted = (o.shifted \/ shift)
    BY <2>1, <2>3 DEF WorkerType
  <2>5. to(w) = r
    BY DEF v
  <2> HIDE DEF r, to
  <2>6. o.at \in Nat
    BY <2>1 DEF WorkerType
  <2>7. Scanning(o) /\ o.shared
    BY <1>3
  <2> HIDE DEF o
  <2>8. Under(r)
    BY <2>1, <2>3, <2>4, <2>7 DEF Reader, Under, Scanning
  <2>9. ASSUME ~r.shifted
        PROVE  /\ Len(v) <= size' /\ Distinct(v) /\ ~o.shifted
               /\ \A i \in 1 .. Len(v) : v[i].key = o.view[i].key
    <3>1. ~o.shifted /\ ~shift
      BY <2>4, <2>9
    <3>2. Len(o.view) <= size /\ \A i \in 1 .. Len(o.view) : o.view[i] = cells[i]
      BY <2>1, <2>7, <3>1 DEF Reader, Follows
    <3>3. Len(v) <= size'
      BY <1>1, <2>2, <2>3, <3>1, <3>2
    <3>4. ASSUME NEW i \in 1 .. Len(v) PROVE v[i].key = o.view[i].key
      <4>1. i \in 1 .. size
        BY <1>1, <2>2, <2>3, <3>2
      <4> QED
        BY <2>3, <3>1, <3>2, <4>1
    <3>5. Distinct(o.view)
      BY <2>1, <2>7, <3>1 DEF Reader, Whole
    <3> QED
      BY <2>3, <3>1, <3>3, <3>4, <3>5 DEF Distinct
  <2>10. Follows(r, cells', size')
    <3>1. Len(v) <= Len(cells')
      BY <1>1, <2>2, <2>3
    <3> QED
      BY <2>3, <2>4, <2>9, <3>1 DEF Follows
  <2>11. Whole(r)
    <3> SUFFICES ASSUME ~r.shifted PROVE Whole(r)
      BY DEF Whole
    <3>1. Whole(o) /\ ~o.shifted /\ Scanning(o)
      BY <2>1, <2>7, <2>9 DEF Reader
    <3>2. \A c \in o.cand : Found(o, c) /\ Found(r, c)
      <4>1. ASSUME NEW c \in o.cand, Found(o, c) PROVE Found(r, c)
        <5>1. c.at \in 1 .. Len(v)
          BY <2>2, <2>3, <2>6, <4>1 DEF Found
        <5> QED
          BY <2>3, <2>4, <2>9, <4>1, <5>1 DEF Found
      <4> QED
        BY <3>1, <4>1 DEF Whole
    <3>3. r.pc = "copy" => r.half = r.view[r.at].key
      <4>1. r.pc = "copy" => o.at \in 1 .. Len(v)
        BY <2>1, <2>2, <2>3, <2>4, <2>6 DEF Reader, Under, Scanning
      <4> QED
        BY <2>4, <2>9, <3>1, <4>1 DEF Whole
    <3> QED
      BY <2>4, <2>9, <3>1, <3>2, <3>3 DEF Whole
  <2> QED
    BY <2>4, <2>5, <2>8, <2>10, <2>11 DEF Reader
<1> HIDE DEF to
<1>4. ASSUME NEW w \in Worker, ~(Scanning(wk[w]) /\ wk[w].shared)
      PROVE  wk[w] \in WorkerType /\ Reader(wk[w], cells', size')
  BY <1>4 DEF Readers, Reader, Follows
<1>5. \A w \in Worker : wk'[w] \in WorkerType /\ Reader(wk'[w], cells', size')
  BY <1>2, <1>3, <1>4 DEF Scanning
<1>6. wk' \in [Worker -> WorkerType]
  BY <1>2, <1>5
<1> QED
  BY <1>5, <1>6 DEF Readers, Reader, Under, Follows, Whole, Scanning, Found, Distinct

LEMMA UpsertReads ==
  ASSUME Shape, Readers, NEW e \in Entry, Upsert(e)
  PROVE  Readers'
<1>0. /\ cells \in Seq(Entry) /\ size \in 0 .. Len(cells) /\ Len(cells) \in Nat
      /\ Shape'
  BY LenProperties, UpsertList DEF Shape
<1>1. ASSUME NEW i \in 1 .. size, cells[i].key = e.key,
             cells' = [cells EXCEPT ![i] = e], UNCHANGED size, Reseen(FALSE, TRUE)
      PROVE  Readers'
  <2>1. i \in 1 .. Len(cells)
    BY <1>0
  <2>2. /\ Len(cells') = Len(cells)
        /\ \A j \in 1 .. Len(cells) : cells'[j] = IF j = i THEN e ELSE cells[j]
    BY <1>0, <1>1, <2>1, ExceptSeq
  <2>3. \A j \in 1 .. size : cells'[j].key = cells[j].key
    BY <1>0, <1>1, <2>2
  <2> QED
    <3>1. Len(cells) <= Len(cells') /\ size <= size'
      BY <1>0, <1>1, <2>2
    <3> QED
      BY <1>0, <1>1, <2>3, <3>1, ReseenStep, Zenon
<1>2. ASSUME size' = size + 1, size < Len(cells), Reseen(FALSE, TRUE),
             cells' = [cells EXCEPT ![size + 1] = e]
      PROVE  Readers'
  <2>1. size + 1 \in 1 .. Len(cells)
    BY <1>0, <1>2
  <2>2. /\ Len(cells') = Len(cells)
        /\ \A j \in 1 .. Len(cells) : cells'[j] = IF j = size + 1 THEN e ELSE cells[j]
    BY <1>0, <1>2, <2>1, ExceptSeq
  <2>3. \A j \in 1 .. size : cells'[j].key = cells[j].key
    BY <1>0, <2>2
  <2> QED
    <3>1. Len(cells) <= Len(cells') /\ size <= size'
      BY <1>0, <1>2, <2>2
    <3> QED
      BY <1>0, <1>2, <2>3, <3>1, ReseenStep, Zenon
<1>3. ASSUME size' = size + 1, cells' = Append(cells, e),
             NEW room \in BOOLEAN, Reseen(FALSE, room)
      PROVE  Readers'
  <2>1. /\ Len(cells') = Len(cells) + 1
        /\ \A j \in 1 .. Len(cells) : cells'[j] = cells[j]
    BY <1>0, <1>3, AppendProperties
  <2>2. \A j \in 1 .. size : cells'[j].key = cells[j].key
    BY <1>0, <2>1
  <2> QED
    <3>1. Len(cells) <= Len(cells') /\ size <= size'
      BY <1>0, <1>3, <2>1
    <3> QED
      BY <1>0, <1>3, <2>2, <3>1, ReseenStep, Zenon
<1> QED
  BY <1>1, <1>2, <1>3 DEF Upsert

LEMMA RemoveReads ==
  ASSUME Shape, Readers, NEW k \in Key, Remove(k)
  PROVE  Readers'
<1>0. /\ cells \in Seq(Entry) /\ size \in 0 .. Len(cells) /\ Len(cells) \in Nat
      /\ Shape' /\ \A j \in 1 .. Len(cells) : cells[j] \in Entry
  BY LenProperties, ElementOfSeq, RemoveList DEF Shape
<1>1. CASE UNCHANGED <<cells, size, wk>>
  BY <1>1 DEF Readers, Reader, Under, Follows, Whole, Scanning, Found, Distinct
<1>2. ASSUME NEW i \in 1 .. size, Reseen(TRUE, TRUE),
             cells' = [j \in 1 .. Len(cells) |->
                         IF j \in i .. size - 1 THEN cells[j + 1] ELSE cells[j]]
      PROVE  Readers'
  <2>1. cells' \in [1 .. Len(cells) -> Entry]
    BY <1>0, <1>2
  <2>2. Len(cells') = Len(cells)
    BY <1>0, <2>1, ArrayIsSeq
  <2> QED
    <3>1. Len(cells) <= Len(cells')
      BY <1>0, <2>2
    <3> QED
      BY <1>0, <1>2, <3>1, ReseenStep, Zenon
<1> QED
  BY <1>1, <1>2 DEF Remove

\* Who is left alone with the old array keeps what it has.
LEMMA InstallReads ==
  ASSUME Readers, NEW s, Install(s)
  PROVE  Readers'
<1>1. wk' = [w \in Worker |-> [wk[w] EXCEPT !.shared = FALSE]]
  BY DEF Install
<1>2. ASSUME NEW w \in Worker
      PROVE  wk'[w] \in WorkerType /\ Reader(wk'[w], cells', size')
  <2> DEFINE o == wk[w]
             r == [o EXCEPT !.shared = FALSE]
  <2>1. o \in WorkerType /\ Reader(o, cells, size) /\ wk'[w] = r
    BY <1>1 DEF Readers
  <2>2. /\ r \in WorkerType /\ r.pc = o.pc /\ r.at = o.at /\ r.half = o.half
        /\ r.key = o.key /\ r.cand = o.cand /\ r.view = o.view
        /\ r.shifted = o.shifted /\ r.shared = FALSE
    BY <2>1 DEF WorkerType
  <2> HIDE DEF o, r
  <2>3. Follows(r, cells', size')
    BY <2>2 DEF Follows
  <2>4. Under(r) /\ Whole(r)
    BY <2>1, <2>2 DEF Reader, Under, Whole, Scanning, Found
  <2> QED
    BY <2>1, <2>2, <2>3, <2>4 DEF Reader
<1>3. wk' \in [Worker -> WorkerType]
  BY <1>1, <1>2
<1> QED
  BY <1>2, <1>3 DEF Readers, Reader, Under, Follows, Whole, Scanning, Found, Distinct

LEMMA ReadersSame == Readers /\ UNCHANGED <<cells, size, wk>> => Readers'
BY DEF Readers, Reader, Under, Follows, Whole, Scanning, Found, Distinct

LEMMA TaskStepReads ==
  ASSUME SInv, NEW t \in Task, TaskStep(t)
  PROVE  Bounded' /\ Readers'
<1>1. /\ Shape /\ Readers /\ Bounded /\ task[t] \in TaskType /\ Sound(task[t])
  BY DEF SInv, IInv, Tables, Shape, Carries
<1>2. UNCHANGED now /\ (UNCHANGED used \/ Spend("faults", MaxFaults))
  BY DEF TaskStep, SetStatus, ReadRow, DropKey, SeedKey, PutKey, ListRows, SeedList, Swap
<1>3. drift' \in SUBSET Key
  <2>1. \A k \in Key : drift' \in {drift, drift \cup {k}, drift \ {k}} => drift' \in SUBSET Key
    BY <1>1 DEF Bounded
  <2>2. \A k \in Key : SetStatus(t, k) => drift' \in {drift, drift \cup {k}, drift \ {k}}
    BY DEF SetStatus
  <2>3. UNCHANGED drift \/ \E k \in Key : SetStatus(t, k)
    BY DEF TaskStep, ReadRow, DropKey, SeedKey, PutKey, ListRows, SeedList, Swap
  <2> QED
    BY <1>1, <2>1, <2>2, <2>3 DEF Bounded
<1>4. Bounded'
  BY <1>1, <1>2, <1>3, BoundedSpent DEF Bounded
<1>5. ASSUME NEW k \in Key, PutKey(t, k) PROVE Readers'
  <2>1. task[t].row \in RowType \ {NoRow}
    BY <1>1, <1>5 DEF PutKey, At, Sound
  <2>2. PICK e \in Entry : e = EntryOf(k, task[t].row)
    <3>1. task[t].row.tier \in Tier
      BY <2>1 DEF RowType
    <3> QED
      BY <3>1 DEF EntryOf, Entry
  <2>3. Upsert(e)
    BY <1>5, <2>2 DEF PutKey
  <2> QED
    BY <1>1, <2>3, UpsertReads
<1>6. ASSUME NEW k \in Key, DropKey(t, k) PROVE Readers'
  <2>1. Remove(k)
    BY <1>6 DEF DropKey
  <2> QED
    BY <1>1, <2>1, RemoveReads
<1>7. ASSUME Swap(t) PROVE Readers'
  <2>1. Install(task[t].list)
    BY <1>7 DEF Swap
  <2> QED
    BY <1>1, <2>1, InstallReads
<1>8. CASE UNCHANGED <<cells, size, wk>>
  BY <1>1, <1>4, <1>8, ReadersSame
<1> QED
  BY <1>4, <1>5, <1>6, <1>7, <1>8
  DEF TaskStep, SetStatus, ReadRow, SeedKey, ListRows, SeedList

LEMMA CommandReads ==
  ASSUME SInv, NEW t \in Admin, NEW k \in Key, Command(t, k)
  PROVE  Bounded' /\ Readers'
<1>1. /\ UNCHANGED <<cells, size, wk, now>> /\ Spend("ops", MaxOps)
      /\ drift' \in {drift, drift \cup {k}, drift \ {k}}
  BY DEF Command, Patch, PatchTier, Import, ImportStatus, Assign, Delete, Operation
<1>2. Bounded'
  BY <1>1, BoundedSpent DEF SInv, Bounded
<1> QED
  BY <1>1, <1>2, ReadersSame DEF SInv

-----------------------------------------------------------------------------
(* The specification.                                                      *)

\* When the process starts, nobody reads.
LEMMA StartedReads == wk = [w \in Worker |-> IdleWorker] => Readers
BY IdleTyped DEF Readers

LEMMA StartedReadsNext == (wk = [w \in Worker |-> IdleWorker])' => Readers'
BY StartedReads, PTL

LEMMA InitReads == Init => SInv
<1> SUFFICES ASSUME Init PROVE SInv
  OBVIOUS
<1>1. Bounded
  BY Assumed DEF Init, Started, Bounded, BoundedCounters
<1>2. Readers
  BY StartedReads DEF Init, Started
<1> QED
  BY <1>1, <1>2, InitInv DEF SInv

LEMMA NextReads == SInv /\ [Next]_vars => SInv'
<1> SUFFICES ASSUME SInv, [Next]_vars PROVE SInv'
  OBVIOUS
<1>1. IInv'
  BY NextInv, StutterInv DEF SInv
<1>2. CASE StartReload
  <2>1. UNCHANGED <<cells, size, wk, now, used, drift>>
    BY <1>2 DEF StartReload
  <2> QED
    BY <1>1, <2>1, ReadersSame DEF SInv, Bounded
<1>3. CASE Tick
  <2>1. UNCHANGED <<cells, size, wk, used, drift>> /\ now' \in 0 .. MaxTime
    BY <1>3, Assumed DEF Tick, SInv, Bounded
  <2> QED
    BY <1>1, <2>1, ReadersSame DEF SInv, Bounded
<1>4. CASE Restart
  <2>1. UNCHANGED now /\ Spend("restarts", MaxRestarts) /\ drift' = {}
    BY <1>4 DEF Restart
  <2>2. Readers'
    BY <1>4, StartedReadsNext DEF Restart
  <2> QED
    BY <1>1, <2>1, <2>2, BoundedSpent DEF SInv, Bounded
<1>5. CASE UNCHANGED vars
  <2>1. UNCHANGED <<cells, size, wk, now, used, drift>>
    BY <1>5 DEF vars
  <2> QED
    BY <1>1, <2>1, ReadersSame DEF SInv, Bounded
<1> QED
  BY <1>1, <1>2, <1>3, <1>4, <1>5, WorkerStepReads, CommandReads, TaskStepReads DEF Next, SInv

\* The inductive invariant: every fact the theorems below rest on.
THEOREM ReaderInvariant == Spec => []SInv
BY InitReads, NextReads, PTL DEF Spec

(* The state of the scheduler, of the requests and of the operator's       *)
(* goroutines keeps its type: no request reads behind the slice it took in *)
(* Select, and every attempt and report is about a known key.              *)
THEOREM TypeCorrect == Spec => []TypeOK
<1>1. SInv => TypeOK
  BY DEF SInv, IInv, Tables, Bounded, BoundedCounters, Readers, TypeOK
<1> QED
  BY <1>1, ReaderInvariant, PTL

(* Select (scheduler.go) reads the list after the lock is released, while  *)
(* upsertKey and Reload write it: unless removeKey shifted the array under *)
(* it, it finds no key twice and gives each candidate its own secret.      *)
THEOREM ScanFindsOnce == Spec => []ScanWhole
<1>1. ASSUME SInv, NEW w \in Worker, Scanning(wk[w]), ~wk[w].shifted
      PROVE  /\ \A c \in wk[w].cand : c.secret = c.key
             /\ \A c, d \in wk[w].cand : c.key = d.key => c = d
  <2> DEFINE o == wk[w]
  <2>1. o \in WorkerType /\ Whole(o)
    BY <1>1 DEF SInv, Readers, Reader
  <2>2. /\ Distinct(o.view) /\ \A c \in o.cand : Found(o, c)
        /\ \A c, d \in o.cand : c.at = d.at => c = d
    BY <1>1, <2>1 DEF Whole
  <2>3. Len(o.view) \in Nat /\ o.at \in Nat
    BY <2>1, LenProperties DEF WorkerType
  <2> HIDE DEF o
  <2>4. \A c \in o.cand : c.at \in 1 .. Len(o.view) /\ c.key = o.view[c.at].key
                          /\ c.secret = c.key
    BY <2>2, <2>3 DEF Found
  <2>5. \A c, d \in o.cand : c.key = d.key => c = d
    BY <2>2, <2>4 DEF Distinct
  <2> QED
    BY <2>4, <2>5 DEF o
<1>2. SInv => ScanWhole
  BY <1>1 DEF ScanWhole, Scanning
<1> QED
  BY <1>2, ReaderInvariant, PTL
=============================================================================
