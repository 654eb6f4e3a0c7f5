------------------------------ MODULE KeyPool ------------------------------
(***************************************************************************)
(* Which upstream keys the gateway may use: the rows of upstream_keys, the *)
(* scheduler's list of keys and its health table, written by different     *)
(* goroutines without a common lock:                                       *)
(*   - workers: requests (gateway/proxy.go: execute, attempt), which scan  *)
(*     the list in Select and report to the health table,                  *)
(*   - the operator's handlers: POST, PATCH and DELETE of keys and         *)
(*     POST /admin/keys/shard (adminapi),                                  *)
(*   - the task key_reload (cmd/gateway/background.go).                    *)
(* The list is a Go slice.  Reload installs a new array; PATCH and DELETE  *)
(* of single entries write the array in place, under the scheduler's lock, *)
(* while a Select that took the slice before reads it without the lock.    *)
(* One action is one critical section or one statement of the database;    *)
(* a Select reads the list entry by entry, and an entry in two parts.      *)
(***************************************************************************)
EXTENDS KeyHealth, Sequences, FiniteSets

CONSTANTS
  NumKeys,         \* keys are numbered in the order of key_id
  Tier,            \* hot, warm, cold
  Shares,          \* the tiers with a share in pool_shares
  PoolFallback,    \* scheduler.pool_fallback
  ActivePoolSize,  \* scheduler.active_pool_size, 0: no limit
  MaxAttempts,     \* upstream.max_retries + 1
  Sharded,         \* server.shard_id is set: this process has its own keys
  RowAtStart,      \* rows an earlier process may have left
  Worker,          \* goroutines that serve requests
  Admin,           \* goroutines that serve the operator
  Periodic,        \* the goroutine of key_reload
  PatchStatus,     \* statuses the operator sets
  MaxRequests,     \* bound: requests in a behaviour
  MaxOps,          \* bound: operations of the operator
  MaxFaults,       \* bound: failed database reads
  MaxRestarts,     \* bound: restarts of the process
  MaxTime          \* bound: the clock

Key == 1 .. NumKeys
Task == Admin \cup {Periodic}

\* Only the operator writes a status into a row, and "active" is its default.
NoRow == [status |-> "absent"]
RowType == {NoRow} \cup [status : PatchStatus, tier : Tier, mine : BOOLEAN]

ASSUME PoolAssumption ==
  /\ NumKeys \in Nat /\ ActivePoolSize \in Nat /\ MaxAttempts \in Nat \ {0}
  /\ Shares \subseteq Tier /\ PoolFallback \in BOOLEAN
  /\ PatchStatus \subseteq KeyStatus /\ "active" \in PatchStatus
  /\ MaxRequests \in Nat /\ MaxOps \in Nat /\ MaxFaults \in Nat
  /\ MaxRestarts \in Nat /\ MaxTime \in Nat

ASSUME ShardAssumption ==
  /\ Sharded \in BOOLEAN /\ RowAtStart \subseteq RowType
  /\ \A r \in RowAtStart : ~Sharded /\ r # NoRow => r.mine

ASSUME NamesAssumption == Periodic \notin Admin /\ None \notin Key

VARIABLES
  row,     \* upstream_keys: status ("absent": no row), tier, and whether its
           \* shard is the one of this process
  cells,   \* the array under the scheduler's list of keys
  size,    \* the length of the list
  health,  \* healthTable
  wk,      \* wk[w]: where request w is
  task,    \* task[t]: where goroutine t is
  now,     \* the clock
  used,    \* counters of the bounds
  drift    \* history: keys whose health record is known to have left the
           \* status the operator gave them

vars == <<row, cells, size, health, wk, task, now, used, drift>>

Entry == [key : Key, tier : Tier]

Pool == SubSeq(cells, 1, size)
PoolKeys == {Pool[i].key : i \in 1 .. size}
Present(k) == row[k].status # "absent"
\* The rows that ListUpstreamKeys returns to Reload (shardScopedStore).
Loadable(k) == row[k].status = "active" /\ row[k].mine
EntryOf(k, r) == [key |-> k, tier |-> r.tier]

\* A candidate remembers where in the scan it was found and whose secret it
\* carries.
Candidate == [at : Nat, key : Key, secret : Key, tier : Tier]
IdleWorker == [pc |-> "idle", view |-> <<>>, shared |-> FALSE, shifted |-> FALSE,
               at |-> 0, half |-> None, cand |-> {}, key |-> None,
               tried |-> {}, attempt |-> 0]
IdleTask == [pc |-> "idle", key |-> None, row |-> None, status |-> "active",
             list |-> <<>>]

WorkerType ==
  [pc : {"idle", "select", "scan", "copy", "flight", "body"}, view : Seq(Entry),
   shared : BOOLEAN, shifted : BOOLEAN, at : Nat, half : Key \cup {None},
   cand : SUBSET Candidate, key : Key \cup {None}, tried : SUBSET Key,
   attempt : 0 .. MaxAttempts]
TaskType ==
  [pc : {"idle", "status", "read", "drop", "seed", "put", "list", "seedAll", "swap"},
   key : Key \cup {None}, row : RowType \cup {None}, status : KeyStatus,
   list : Seq(Entry)]

TypeOK ==
  /\ row \in [Key -> RowType]
  /\ cells \in Seq(Entry) /\ size \in 0 .. Len(cells)
  /\ health \in [Key -> HealthOrNone]
  /\ wk \in [Worker -> WorkerType] /\ task \in [Task -> TaskType]
  /\ now \in 0 .. MaxTime
  /\ used \in [requests : 0 .. MaxRequests, ops : 0 .. MaxOps,
               faults : 0 .. MaxFaults, restarts : 0 .. MaxRestarts]
  /\ drift \in SUBSET Key

-----------------------------------------------------------------------------
\* Mutant of IsListing: without the condition on the status.
IsListingOfAll(s) ==
  /\ \A i \in 1 .. Len(s) : Present(s[i].key) /\ s[i] = EntryOf(s[i].key, row[s[i].key])
  /\ \A i, j \in 1 .. Len(s) : i < j => s[i].key < s[j].key
  /\ \A k \in Key : Present(k) => \E i \in 1 .. Len(s) : s[i].key = k

\* ListUpstreamKeys with status active: in the order of key_id, at most
\* ActivePoolSize of them.
IsListing(s) ==
  /\ \A i \in 1 .. Len(s) : Loadable(s[i].key) /\ s[i] = EntryOf(s[i].key, row[s[i].key])
  /\ \A i, j \in 1 .. Len(s) : i < j => s[i].key < s[j].key
  /\ ActivePoolSize > 0 => Len(s) <= ActivePoolSize
  /\ \A k \in Key : Loadable(k) =>
       \/ \E i \in 1 .. Len(s) : s[i].key = k
       \/ /\ ActivePoolSize > 0 /\ Len(s) = ActivePoolSize
          /\ \A i \in 1 .. Len(s) : s[i].key < k
Lists == UNION {[1 .. n -> Entry] : n \in 0 .. NumKeys}

\* main.go reloads before the server listens; a reload that fails does not keep
\* the process from starting, without a key.
Loaded(s) == s \in Lists /\ (IsListing(s) \/ s = <<>>)

\* The process starts with that list and an empty health table.
Started ==
  /\ cells \in Lists /\ Loaded(cells) /\ size = Len(cells)
  /\ health = [k \in Key |-> IF \E i \in 1 .. Len(cells) : cells[i].key = k
                             THEN Fresh("active") ELSE None]
  /\ wk = [w \in Worker |-> IdleWorker] /\ task = [t \in Task |-> IdleTask]
  /\ drift = {}

Init ==
  /\ row \in [Key -> RowAtStart]
  /\ Started
  /\ now = 0
  /\ used = [requests |-> 0, ops |-> 0, faults |-> 0, restarts |-> 0]

Spend(what, bound) == used[what] < bound /\ used' = [used EXCEPT ![what] = @ + 1]

-----------------------------------------------------------------------------
(* The list as a slice.  A scanning worker keeps the slice it took: while  *)
(* it shares the array of the list it sees what is written in place.       *)

Reseen(shift, keep) ==
  wk' = [w \in Worker |->
           IF wk[w].pc \in {"scan", "copy"} /\ wk[w].shared
           THEN [wk[w] EXCEPT !.view = SubSeq(cells', 1, Len(wk[w].view)),
                              !.shifted = @ \/ shift, !.shared = keep]
           ELSE wk[w]]

\* Mutant of Upsert: always append.
Appended(e) ==
  /\ cells' = Append(Pool, e) /\ size' = size + 1
  /\ wk' = [w \in Worker |-> [wk[w] EXCEPT !.shared = FALSE]]

\* upsertKey: in place where the key is found; otherwise append, which writes
\* behind the list if the array has room and copies it to a new one if not.
Upsert(e) ==
  \/ \E i \in 1 .. size :
       /\ cells[i].key = e.key /\ \A j \in 1 .. i - 1 : cells[j].key # e.key
       /\ cells' = [cells EXCEPT ![i] = e]
       /\ Reseen(FALSE, TRUE) /\ UNCHANGED size
  \/ /\ e.key \notin PoolKeys
     /\ size' = size + 1
     /\ IF size < Len(cells)
        THEN cells' = [cells EXCEPT ![size + 1] = e] /\ Reseen(FALSE, TRUE)
        ELSE cells' = Append(cells, e) /\ \E room \in BOOLEAN : Reseen(FALSE, room)

\* removeKey: the entries behind the key move one place to the front, and the
\* last place keeps its content.
Remove(k) ==
  \/ \E i \in 1 .. size :
       /\ cells[i].key = k /\ \A j \in 1 .. i - 1 : cells[j].key # k
       /\ cells' = [j \in 1 .. Len(cells) |->
                      IF j \in i .. size - 1 THEN cells[j + 1] ELSE cells[j]]
       /\ size' = size - 1
       /\ Reseen(TRUE, TRUE)
  \/ k \notin PoolKeys /\ UNCHANGED <<cells, size, wk>>

\* Mutant of Install: the new list is written into the old array.
InstallInPlace(s) ==
  /\ cells' = [j \in 1 .. (IF Len(cells) < Len(s) THEN Len(s) ELSE Len(cells)) |->
                 IF j <= Len(s) THEN s[j] ELSE cells[j]]
  /\ size' = Len(s)
  /\ Reseen(FALSE, TRUE)

\* s.keys = entries
Install(s) ==
  /\ cells' = s /\ size' = Len(s)
  /\ wk' = [w \in Worker |-> [wk[w] EXCEPT !.shared = FALSE]]

-----------------------------------------------------------------------------
(* Requests.                                                               *)

\* Begin of Select: the slice is taken under the lock, and read without it.
Take(w, tried, attempt) ==
  wk' = [wk EXCEPT ![w] = [IdleWorker EXCEPT
           !.pc = "scan", !.view = Pool, !.shared = TRUE, !.at = 1,
           !.tried = tried, !.attempt = attempt]]

Request(w) ==
  /\ wk[w].pc = "idle" /\ Spend("requests", MaxRequests)
  /\ Take(w, {}, 1)
  /\ UNCHANGED <<row, cells, size, health, task, now, drift>>

\* The next attempt of execute, or the client is gone in the backoff.
Retry(w) ==
  /\ wk[w].pc = "select"
  /\ \/ Take(w, wk[w].tried, wk[w].attempt)
     \/ wk' = [wk EXCEPT ![w] = IdleWorker]
  /\ UNCHANGED <<row, cells, size, health, task, now, used, drift>>

\* After an attempt that failed with a retryable error.
Again(w, tried) ==
  IF wk[w].attempt < MaxAttempts
  THEN [IdleWorker EXCEPT !.pc = "select", !.tried = tried,
                          !.attempt = wk[w].attempt + 1]
  ELSE IdleWorker

\* The loop of Select copies the entry; the key comes first ...
ReadKey(w) ==
  /\ wk[w].pc = "scan" /\ wk[w].at <= Len(wk[w].view)
  /\ wk' = [wk EXCEPT ![w].pc = "copy", ![w].half = wk[w].view[wk[w].at].key]
  /\ UNCHANGED <<row, cells, size, health, task, now, used, drift>>

\* ... and then the rest; then the filters.  Asking the health table ends a
\* cooldown that is over.  The filters on intervals, watermarks and hours,
\* which read the clock and other tables, may drop any usable key.
Visit(w) ==
  /\ wk[w].pc = "copy"
  /\ LET k == wk[w].half
         e == wk[w].view[wk[w].at]
         found == [at |-> wk[w].at, key |-> k, secret |-> e.key, tier |-> e.tier]
         next == [wk[w] EXCEPT !.pc = "scan", !.half = None, !.at = @ + 1]
     IN \/ /\ k \in wk[w].tried
           /\ wk' = [wk EXCEPT ![w] = next] /\ UNCHANGED health
        \/ /\ k \notin wk[w].tried
           /\ health' = [health EXCEPT ![k] = Checked(@, now)]
           /\ \/ wk' = [wk EXCEPT ![w] = next]
              \/ /\ Usable(health[k], now)
                 /\ wk' = [wk EXCEPT ![w] = [next EXCEPT !.cand = @ \cup {found}]]
  /\ UNCHANGED <<row, cells, size, task, now, used, drift>>

\* pick: a tier is drawn by its share; if no candidate has it, another tier
\* with a share takes over, or the attempt fails.  Candidates of tiers without
\* a share count only if there is no other.
Choices(C) ==
  LET shared == {c \in C : c.tier \in Shares}
      of(t) == {c \in C : c.tier = t}
  IN IF shared = {} THEN C
     ELSE IF PoolFallback THEN shared
     ELSE shared \cup (IF \E t \in Shares : of(t) = {} THEN {None} ELSE {})

Pick(w) ==
  /\ wk[w].pc = "scan" /\ wk[w].at > Len(wk[w].view)
  /\ \/ /\ wk[w].cand = {} \/ None \in Choices(wk[w].cand)
        /\ wk' = [wk EXCEPT ![w] = Again(w, wk[w].tried)]
     \/ \E c \in Choices(wk[w].cand) \ {None} :
          wk' = [wk EXCEPT ![w] = [IdleWorker EXCEPT !.pc = "flight", !.key = c.key,
                             !.tried = wk[w].tried, !.attempt = wk[w].attempt]]
  /\ UNCHANGED <<row, cells, size, health, task, now, used, drift>>

\* A report takes a key out of a terminal status.
Drifted(k, h) == IF /\ health[k] # None /\ health[k].status \in Terminal
                    /\ h.status \notin Terminal
                 THEN drift \cup {k} ELSE drift

Mark(k, h) == health' = [health EXCEPT ![k] = h] /\ drift' = Drifted(k, h)

\* The upstream answered with an error or not at all (reportFailure), with
\* success, with an error of the client, or was not asked: the lease was
\* refused, or the client is gone.
Answer(w) ==
  /\ wk[w].pc = "flight"
  /\ LET k == wk[w].key
     IN \/ \E kind \in FailureKind :
             /\ Mark(k, Failed(health[k], kind, now))
             /\ wk' = [wk EXCEPT ![w] = Again(w, wk[w].tried \cup {k})]
        \/ /\ Mark(k, Succeeded(health[k]))
           /\ wk' = [wk EXCEPT ![w].pc = "body"]
        \/ /\ wk' = [wk EXCEPT ![w] = Again(w, wk[w].tried \cup {k})]
           /\ UNCHANGED <<health, drift>>
        \/ /\ wk' = [wk EXCEPT ![w] = IdleWorker]
           /\ UNCHANGED <<health, drift>>
  /\ UNCHANGED <<row, cells, size, task, now, used>>

\* The body of a successful answer: forwarded, broken off or too large.
Body(w) ==
  /\ wk[w].pc = "body"
  /\ LET k == wk[w].key
     IN \/ /\ wk' = [wk EXCEPT ![w] = IdleWorker] /\ UNCHANGED <<health, drift>>
        \/ \E kind \in {"timeout", "server"} :
             /\ Mark(k, Failed(health[k], kind, now))
             /\ wk' = [wk EXCEPT ![w] = Again(w, wk[w].tried \cup {k})]
  /\ UNCHANGED <<row, cells, size, task, now, used>>

-----------------------------------------------------------------------------
(* The operator.                                                           *)

At(t, pc, k) == task[t].pc = pc /\ task[t].key = k
Goto(t, r) == task' = [task EXCEPT ![t] = r]
ToReload == [IdleTask EXCEPT !.pc = "list"]
Operation(t) == task[t].pc = "idle" /\ Spend("ops", MaxOps)

\* Mutant of AfterPatch: the new status is left to RefreshKey.
AfterPatchOnlyRead(k, s) == [IdleTask EXCEPT !.pc = "read", !.key = k]

AfterPatch(k, s) == [IdleTask EXCEPT !.pc = "status", !.key = k, !.status = s]

\* PATCH: one conditional UPDATE; a terminal status is left for "active" only
\* with force.  A refused PATCH changes nothing.
Patch(t, k, s, force) ==
  /\ Operation(t) /\ Present(k)
  /\ (s = "active" /\ row[k].status \in Terminal) => force
  /\ row' = [row EXCEPT ![k].status = s]
  /\ Goto(t, AfterPatch(k, s))
  /\ UNCHANGED <<cells, size, health, wk, now, drift>>

PatchTier(t, k, tier) ==
  /\ Operation(t) /\ Present(k)
  /\ row' = [row EXCEPT ![k].tier = tier]
  /\ Goto(t, [IdleTask EXCEPT !.pc = "read", !.key = k])
  /\ UNCHANGED <<cells, size, health, wk, now, drift>>

\* SetKeyStatus: from here on the record has the operator's status, which is
\* no longer that of the row if another PATCH came in between.
SetStatus(t, k) ==
  /\ At(t, "status", k)
  /\ health' = [health EXCEPT ![k] = SetTo(@, task[t].status)]
  /\ drift' = IF Present(k) /\ row[k].status # task[t].status
              THEN drift \cup {k} ELSE drift \ {k}
  /\ Goto(t, [IdleTask EXCEPT !.pc = "read", !.key = k])
  /\ UNCHANGED <<row, cells, size, wk, now, used>>

\* RefreshKey reads the row ...
ReadRow(t, k) ==
  /\ At(t, "read", k)
  /\ \/ /\ Present(k) /\ row[k].mine
        /\ Goto(t, [task[t] EXCEPT !.pc = "seed", !.row = row[k]])
        /\ UNCHANGED used
     \/ /\ ~(Present(k) /\ row[k].mine)
        /\ Goto(t, [task[t] EXCEPT !.pc = "drop"]) /\ UNCHANGED used
     \/ Spend("faults", MaxFaults) /\ Goto(t, IdleTask)
  /\ UNCHANGED <<row, cells, size, health, wk, now, drift>>

\* ... and removes a key that is gone or of another shard, ...
DropKey(t, k) ==
  /\ At(t, "drop", k)
  /\ Remove(k) /\ Goto(t, IdleTask)
  /\ UNCHANGED <<row, health, now, used, drift>>

\* ... or seeds its record and, if the row is active, ...
SeedKey(t, k) ==
  /\ At(t, "seed", k)
  /\ health' = [health EXCEPT ![k] = Seeded(@, task[t].row.status)]
  /\ Goto(t, IF task[t].row.status = "active" THEN [task[t] EXCEPT !.pc = "put"]
             ELSE IdleTask)
  /\ UNCHANGED <<row, cells, size, wk, now, used, drift>>

\* ... puts it on the list.
PutKey(t, k) ==
  /\ At(t, "put", k)
  /\ Upsert(EntryOf(k, task[t].row)) /\ Goto(t, IdleTask)
  /\ UNCHANGED <<row, health, now, used, drift>>

\* DELETE: the row, and then the list is loaded again.
Delete(t, k) ==
  /\ Operation(t) /\ Present(k)
  /\ row' = [row EXCEPT ![k] = NoRow]
  /\ drift' = drift \ {k}
  /\ Goto(t, ToReload)
  /\ UNCHANGED <<cells, size, health, wk, now>>

\* UpsertUpstreamKey.  A new row has no shard, so that a sharded process does
\* not load it; a known one keeps its shard.
Imported(k, tier, s) ==
  row' = [row EXCEPT ![k] =
            [status |-> s, tier |-> tier,
             mine |-> IF Present(k) THEN row[k].mine ELSE ~Sharded]]

\* POST /admin/keys without a status: a new row is active, a known one keeps
\* its status.
Import(t, k, tier) ==
  /\ Operation(t)
  /\ Imported(k, tier, IF Present(k) THEN row[k].status ELSE "active")
  /\ Goto(t, ToReload)
  /\ UNCHANGED <<cells, size, health, wk, now, drift>>

\* POST /admin/keys with a status: the row has it, the health table is not told.
ImportStatus(t, k, tier, s) ==
  /\ Operation(t)
  /\ Imported(k, tier, s)
  /\ drift' = drift \cup {k}
  /\ Goto(t, ToReload)
  /\ UNCHANGED <<cells, size, health, wk, now>>

\* POST /admin/keys/shard: only the rows.  Without shards every row is ours.
Assign(t, k, b) ==
  /\ Operation(t) /\ Present(k) /\ Sharded
  /\ row' = [row EXCEPT ![k].mine = b]
  /\ UNCHANGED <<cells, size, health, wk, task, now, drift>>

-----------------------------------------------------------------------------
(* Reload, of the operator and of key_reload.                              *)

StartReload ==
  /\ task[Periodic].pc = "idle"
  /\ Goto(Periodic, ToReload)
  /\ UNCHANGED <<row, cells, size, health, wk, now, used, drift>>

ListRows(t) ==
  /\ task[t].pc = "list"
  /\ \/ \E s \in Lists : /\ IsListing(s) /\ UNCHANGED used
                         /\ Goto(t, [task[t] EXCEPT !.pc = "seedAll", !.list = s])
     \/ Spend("faults", MaxFaults) /\ Goto(t, IdleTask)
  /\ UNCHANGED <<row, cells, size, health, wk, now, drift>>

\* One lock per key in the code: the seeds of different keys do not meet.
SeedList(t) ==
  /\ task[t].pc = "seedAll"
  /\ health' = [k \in Key |-> IF \E i \in 1 .. Len(task[t].list) : task[t].list[i].key = k
                              THEN Seeded(health[k], "active") ELSE health[k]]
  /\ Goto(t, [task[t] EXCEPT !.pc = "swap"])
  /\ UNCHANGED <<row, cells, size, wk, now, used, drift>>

Swap(t) ==
  /\ task[t].pc = "swap"
  /\ Install(task[t].list) /\ Goto(t, IdleTask)
  /\ UNCHANGED <<row, health, now, used, drift>>

-----------------------------------------------------------------------------
Tick == /\ now < MaxTime /\ now' = now + 1
        /\ UNCHANGED <<row, cells, size, health, wk, task, used, drift>>

\* The process ends and starts again: what only memory held is gone.
Restart ==
  /\ Spend("restarts", MaxRestarts)
  /\ cells' \in Lists /\ Loaded(cells') /\ size' = Len(cells')
  /\ health' = [k \in Key |-> IF \E i \in 1 .. Len(cells') : cells'[i].key = k
                              THEN Fresh("active") ELSE None]
  /\ wk' = [w \in Worker |-> IdleWorker] /\ task' = [t \in Task |-> IdleTask]
  /\ drift' = {}
  /\ UNCHANGED <<row, now>>

WorkerStep(w) == \/ Request(w) \/ Retry(w) \/ ReadKey(w) \/ Visit(w)
                 \/ Pick(w) \/ Answer(w) \/ Body(w)
Command(t, k) ==
  \/ \E s \in PatchStatus, force \in BOOLEAN : Patch(t, k, s, force)
  \/ \E tier \in Tier : PatchTier(t, k, tier) \/ Import(t, k, tier)
  \/ \E tier \in Tier, s \in PatchStatus : ImportStatus(t, k, tier, s)
  \/ \E b \in BOOLEAN : Assign(t, k, b)
  \/ Delete(t, k)
TaskStep(t) ==
  \/ \E k \in Key : \/ SetStatus(t, k) \/ ReadRow(t, k) \/ DropKey(t, k)
                     \/ SeedKey(t, k) \/ PutKey(t, k)
  \/ ListRows(t) \/ SeedList(t) \/ Swap(t)

Next == \/ \E w \in Worker : WorkerStep(w)
        \/ \E t \in Admin, k \in Key : Command(t, k)
        \/ \E t \in Task : TaskStep(t)
        \/ StartReload \/ Tick \/ Restart

Spec == Init /\ [][Next]_vars

\* A handler or a task that has begun goes on, and key_reload starts again
\* every five minutes (background.every).
Fairness == WF_vars(StartReload) /\ \A t \in Task : WF_vars(TaskStep(t))

LiveSpec == Spec /\ Fairness

-----------------------------------------------------------------------------
(* The list holds a key at most once (comment of upsertKey,                *)
(* scheduler.go:332): two entries would double its share of the traffic.   *)
PoolDistinct == \A i, j \in 1 .. size : i # j => cells[i].key # cells[j].key

(* A Select whose array was not shifted under it (removeKey) finds every   *)
(* key once, and every candidate carries its own secret: the writes in     *)
(* place of upsertKey and the swap of Reload are harmless to readers.      *)
ScanWhole ==
  \A w \in Worker : wk[w].pc \in {"scan", "copy"} /\ ~wk[w].shifted =>
    /\ \A c \in wk[w].cand : c.secret = c.key
    /\ \A c, d \in wk[w].cand : c.key = d.key => c = d

(* A key the operator has banned is not served: no reload that read the    *)
(* row before, no refresh and no import brings it back.  The exceptions    *)
(* are the recorded ones: a report of a request that was already under     *)
(* way, two PATCHes in the opposite order, an import with a status         *)
(* (drift); and the moment between the UPDATE and SetKeyStatus.            *)
Serves(k) == k \in PoolKeys /\ Usable(health[k], now)
BanHolds ==
  \A k \in Key : /\ row[k].status \in Terminal /\ k \notin drift
                 /\ \A t \in Task : ~At(t, "status", k)
                 => ~Serves(k)

(* No health record leaves a terminal status by itself (health.go:133):    *)
(* only by SetKeyStatus, by the report of a request that had selected the  *)
(* key before, or with the process.                                        *)
NoQuietRevival ==
  [][\A k \in Key :
       /\ health[k] # None /\ health[k].status \in Terminal
       /\ health'[k] = None \/ health'[k].status \notin Terminal
       => \/ \E t \in Task : At(t, "status", k)
          \/ \E w \in Worker : wk[w].key = k /\ wk[w].pc \in {"flight", "body"}
          \/ used'.restarts > used.restarts]_vars

(* Whatever a reload with an older list or a failed refresh left behind:   *)
(* once the operator has finished, the list of keys becomes that of the    *)
(* active rows of this shard, and stays so (comments of RefreshKey and     *)
(* handleAdminKeyDelete: key_reload repairs it).                           *)
InStep ==
  /\ \A i \in 1 .. size : \E k \in Key :
       /\ row[k].status = "active" /\ row[k].mine
       /\ cells[i] = [key |-> k, tier |-> row[k].tier]
  /\ \A k \in Key : row[k].status = "active" /\ row[k].mine =>
       k \in PoolKeys \/ (ActivePoolSize > 0 /\ size = ActivePoolSize)
PoolConverges == <>[]InStep

(* health.go:133: banned and invalid are final statuses, a key does not     *)
(* leave them by itself, only by the operator.                             *)
TerminalIsFinal ==
  [][\A k \in Key :
       /\ health[k] # None /\ health[k].status \in Terminal /\ health'[k] # None
       /\ \A t \in Task : ~At(t, "status", k)
       => health'[k].status \in Terminal]_vars
=============================================================================
