--------------------------- MODULE EgressBinding ---------------------------
(***************************************************************************)
(* One key, one address, for life: the gateway around the egress pool.     *)
(*                                                                         *)
(* The address of a key lives in four places that are written by different *)
(* goroutines without a common lock: the binding and the cached client of  *)
(* the pool (memory), the column egress_ip of its row in upstream_keys     *)
(* (the record the next start restores from), and the address that the     *)
(* requests already under way use.  The goroutines are                     *)
(*   - workers: requests (gateway/proxy.go: attempt, detectEgressBan with  *)
(*     EvacuateIP) and refresh probes (cmd/gateway/main.go: newProbe),     *)
(*   - the operator: POST /admin/keys, PATCH and DELETE of a key and PUT   *)
(*     of its address (adminapi),                                          *)
(*   - the tasks metrics_collect (release and write-back of bindings),     *)
(*     key_reload and egress_health (cmd/gateway/background.go),           *)
(*   - start and stop of the process (restoreBindings in main.go).         *)
(* One action is one critical section of the pool or one statement of the  *)
(* database.                                                               *)
(***************************************************************************)
EXTENDS EgressPool

CONSTANTS
  Worker,         \* goroutines that serve requests or probe
  BanDetectKeys,  \* egress.ban_detect_keys
  MaxRequests,    \* bound: requests and probes in a behaviour
  MaxOps,         \* bound: operations of the operator
  MaxFaults,      \* bound: connection failures and failed health checks
  MaxDBFails,     \* bound: failed database statements
  MaxStops        \* bound: ends of the process

ASSUME BindingAssumption ==
  /\ IsFiniteSet(Worker) /\ BanDetectKeys \in Nat \ {0}
  /\ MaxRequests \in Nat /\ MaxOps \in Nat /\ MaxFaults \in Nat
  /\ MaxDBFails \in Nat /\ MaxStops \in Nat

VARIABLES
  row,       \* upstream_keys: status, tier (column pool) and egress of a key
  entry,     \* scheduler's key pool: tier of a loaded key, or None
  barred,    \* keys the health table keeps from being selected for good
  phase,     \* the process: "down", "restoring" or "up"
  restore,   \* keys restoreBindings has still to visit
  wk,        \* wk[w]: where worker w is
  adm,       \* where the operator's handler is
  rec,       \* where the write-back of bindings is
  used,      \* counters of the bounds
  sentFrom,  \* history: addresses from which requests of k were sent
  moved,     \* history: keys that lost their address for a known cause
  dormant    \* history: keys that were banned while the process was down

histVars == <<sentFrom, moved, dormant>>
ctlVars  == <<entry, barred, phase, restore>>
vars == <<poolVars, row, ctlVars, wk, adm, rec, used, histVars>>

NoRow == [status |-> "absent", tier |-> AnyTier, egress |-> None]
RowType == {NoRow} \cup
  [status : {"active", "banned"}, tier : Tier, egress : AddrOrNone]

Listed == {k \in Key : row[k].status # "absent"}
Active == {k \in Key : row[k].status = "active"}

IdleWorker == [pc |-> "idle", key |-> None, tier |-> AnyTier, probe |-> FALSE,
               prev |-> None, addr |-> None, cur |-> None,
               todo |-> {}, done |-> {}]
IdleAdmin  == [pc |-> "idle", op |-> "none", key |-> None, tier |-> AnyTier,
               addr |-> None]
IdleRec    == [pc |-> "idle", todo |-> {}, seen |-> [k \in Key |-> None],
               cur |-> None, addr |-> None]

WorkerType ==
  [pc : {"idle", "lookup", "bind", "create", "compare", "persist", "send",
         "wait", "guard", "ban", "list", "evacuate", "rebind"},
   key : Key \cup {None}, tier : Tier \cup {AnyTier}, probe : BOOLEAN,
   prev : AddrOrNone, addr : AddrOrNone, cur : Key \cup {None},
   todo : SUBSET Key, done : SUBSET (Key \X Addr)]
AdminType ==
  [pc : {"idle", "refresh", "unbind", "bind", "persist", "release", "reload"},
   op : {"none", "import", "tier", "ban", "revive", "rebind", "delete"},
   key : Key \cup {None}, tier : Tier \cup {AnyTier}, addr : AddrOrNone]
RecType ==
  [pc : {"idle", "release", "compare", "write"}, todo : SUBSET Key,
   seen : [Key -> AddrOrNone], cur : Key \cup {None}, addr : AddrOrNone]
BoundType ==
  [requests : 0 .. MaxRequests, ops : 0 .. MaxOps, faults : 0 .. MaxFaults,
   dbFails : 0 .. MaxDBFails, stops : 0 .. MaxStops]

TypeOK ==
  /\ PoolTypeOK
  /\ row \in [Key -> RowType]
  /\ entry \in [Key -> Tier \cup {None}] /\ barred \in SUBSET Key
  /\ phase \in {"down", "restoring", "up"} /\ restore \in SUBSET Key
  /\ wk \in [Worker -> WorkerType] /\ adm \in AdminType /\ rec \in RecType
  /\ used \in BoundType
  /\ sentFrom \in [Key -> SUBSET Addr]
  /\ moved \in SUBSET Key /\ dormant \in SUBSET Key

\* The process is down.  The database holds keys without a recorded address,
\* as an import that found the pool full leaves them.
Init ==
  /\ PoolInit
  /\ row \in [Key -> {r \in RowType : r.status # "banned" /\ r.egress = None}]
  /\ entry = [k \in Key |-> None] /\ barred = {}
  /\ phase = "down" /\ restore = {}
  /\ wk = [w \in Worker |-> IdleWorker] /\ adm = IdleAdmin /\ rec = IdleRec
  /\ used = [requests |-> 0, ops |-> 0, faults |-> 0, dbFails |-> 0, stops |-> 0]
  /\ sentFrom = [k \in Key |-> {}] /\ moved = {} /\ dormant = {}

-----------------------------------------------------------------------------
\* Bounded choices of the environment.
Spend(what, bound) == used[what] < bound /\ used' = [used EXCEPT ![what] = @ + 1]
DBFails == Spend("dbFails", MaxDBFails) /\ UNCHANGED row

\* SetVolcKeyEgressIP, UpdateUpstreamKeyState with EgressIP: no effect on a
\* missing row, and a failure is only logged.
WriteRecord(k, addr) ==
  \/ /\ row' = IF k \in Listed THEN [row EXCEPT ![k].egress = addr] ELSE row
     /\ UNCHANGED used
  \/ DBFails

\* Scheduler.Reload: the active rows.
LoadedEntries == [k \in Key |-> IF k \in Active THEN row[k].tier ELSE None]

\* Scheduler.RefreshKey: an active row is loaded, a missing one dropped, and
\* a banned one leaves the key pool as it is.
RefreshedEntries(k) ==
  [entry EXCEPT ![k] = IF k \in Active THEN row[k].tier
                       ELSE IF k \in Listed THEN @ ELSE None]

others == <<ctlVars, adm, rec, sentFrom>>

-----------------------------------------------------------------------------
(***************************************************************************)
(* Requests and probes.                                                    *)
(***************************************************************************)
At(w, pc) == phase = "up" /\ wk[w].pc = pc
WStep(w, r) == wk' = [wk EXCEPT ![w] = r]

\* Server.attempt: the scheduler chose k.
Select(w, k) ==
  /\ At(w, "idle") /\ entry[k] # None /\ k \notin barred
  /\ Spend("requests", MaxRequests)
  /\ WStep(w, [IdleWorker EXCEPT !.pc = "lookup", !.key = k, !.tier = entry[k]])
  /\ UNCHANGED <<poolVars, row, ctlVars, adm, rec, sentFrom>>

\* newProbe: the refresh probe of an active key takes its client through
\* ClientFor, without tier, and writes no record.
Probe(w, k) ==
  /\ At(w, "idle") /\ k \in Active
  /\ Spend("requests", MaxRequests)
  /\ WStep(w, [IdleWorker EXCEPT !.pc = "lookup", !.key = k, !.probe = TRUE])
  /\ UNCHANGED <<poolVars, row, ctlVars, adm, rec, sentFrom>>

\* prevBound, then the cached client if there is one.
HaveClient(r, src) ==
  [r EXCEPT !.pc = IF r.probe THEN "send" ELSE "compare", !.addr = src]

Lookup(w) ==
  LET r == [wk[w] EXCEPT !.prev = binding[wk[w].key]]
      k == wk[w].key IN
  /\ At(w, "lookup")
  /\ WStep(w, IF client[k] # None THEN HaveClient(r, client[k])
              ELSE [r EXCEPT !.pc = "bind"])
  /\ UNCHANGED <<poolVars, row, others, used>>

\* ClientForPool: BindInPool; without an address the attempt fails.
BindKey(w) ==
  \E addr \in AddrOrNone :
    /\ At(w, "bind")
    /\ BindInPool(wk[w].key, wk[w].tier, addr)
    /\ WStep(w, IF addr = None THEN IdleWorker
                ELSE [wk[w] EXCEPT !.pc = "create", !.addr = addr])
    /\ UNCHANGED <<markVars, authFails, row, others, used>>

Create(w) ==
  LET k == wk[w].key IN
  /\ At(w, "create")
  /\ CreateClient(k, wk[w].addr)
  /\ WStep(w, HaveClient(wk[w], client'[k]))
  /\ UNCHANGED <<markVars, authFails, row, others, used>>

\* A lazy binding that was made or changed meanwhile is written back; prev
\* then holds the address to write, addr the one to send from.
Compare(w) ==
  LET bound == binding[wk[w].key] IN
  /\ At(w, "compare")
  /\ WStep(w, IF bound = wk[w].prev THEN [wk[w] EXCEPT !.pc = "send"]
              ELSE [wk[w] EXCEPT !.pc = "persist", !.prev = bound])
  /\ UNCHANGED <<poolVars, row, others, used>>

Persist(w) ==
  /\ At(w, "persist")
  /\ WriteRecord(wk[w].key, wk[w].prev)
  /\ WStep(w, [wk[w] EXCEPT !.pc = "send"])
  /\ UNCHANGED <<poolVars, others>>

\* client.Do: the request leaves from the address the client was made for.
\* A probe marks nothing afterwards.
Send(w) ==
  LET r == wk[w] IN
  /\ At(w, "send")
  /\ sentFrom' = [sentFrom EXCEPT ![r.key] = @ \cup {r.addr}]
  /\ WStep(w, IF r.probe THEN IdleWorker
              ELSE [IdleWorker EXCEPT !.pc = "wait", !.key = r.key])
  /\ UNCHANGED <<poolVars, row, ctlVars, adm, rec, used>>

(***************************************************************************)
(* The answer.  Every mark goes to IPFor(key): the address the key is      *)
(* bound to when the answer arrives.                                       *)
(***************************************************************************)
Succeed(w) ==
  LET k == wk[w].key
      a == binding[k] IN
  /\ At(w, "wait")
  /\ IF a = None THEN UNCHANGED <<markVars, authFails>>
     ELSE MarkSuccess(a) /\ ClearAuthFailure(a, k)
  /\ WStep(w, IdleWorker)
  /\ UNCHANGED <<mapVars, row, others, used>>

\* markEgress(egressFaulty): connection failure or 5xx.
FailFaulty(w) ==
  /\ At(w, "wait") /\ Spend("faults", MaxFaults)
  /\ Penalize(wk[w].key)
  /\ WStep(w, IdleWorker)
  /\ UNCHANGED <<mapVars, authFails, row, others>>

\* Rate limit, quota, client errors: nothing to do with the address.  The
\* first two may put even an invalid key on a cooldown that ends.
FailUnrelated(w) ==
  /\ At(w, "wait")
  /\ WStep(w, IdleWorker)
  /\ barred' \in {barred, barred \ {wk[w].key}}
  /\ UNCHANGED <<poolVars, row, entry, phase, restore, adm, rec, sentFrom, used>>

\* reportFailure(auth): the key becomes invalid and is not selected.
EndRefused(w) == WStep(w, IdleWorker) /\ barred' = barred \cup {wk[w].key}

\* detectEgressBan up to the threshold.
FailAuth(w) ==
  LET k == wk[w].key
      a == binding[k] IN
  /\ At(w, "wait")
  /\ IF a = None \/ (a # None /\ state[a] = "banned")
     THEN EndRefused(w) /\ UNCHANGED authFails
     ELSE /\ MarkAuthFailure(a, k)
          /\ IF Cardinality(authFails'[a]) >= BanDetectKeys
             THEN /\ WStep(w, [wk[w] EXCEPT !.pc = "guard", !.addr = a])
                  /\ UNCHANGED barred
             ELSE EndRefused(w)
  /\ UNCHANGED <<mapVars, markVars, row, entry, phase, restore, adm, rec,
                 sentFrom, used>>

\* The guard against banning the last address that can take keys.
Guard(w) ==
  /\ At(w, "guard")
  /\ IF OtherAssignable(wk[w].addr)
     THEN WStep(w, [wk[w] EXCEPT !.pc = "ban"]) /\ UNCHANGED barred
     ELSE EndRefused(w)
  /\ UNCHANGED <<poolVars, row, entry, phase, restore, adm, rec, sentFrom, used>>

(***************************************************************************)
(* EvacuateIP: mark, list, then rebind key by key; the records follow.     *)
(***************************************************************************)
Ban(w) ==
  /\ At(w, "ban")
  /\ MarkBanned(wk[w].addr)
  /\ WStep(w, [wk[w] EXCEPT !.pc = "list"])
  /\ UNCHANGED <<mapVars, authFails, row, others, used>>

ListKeys(w) ==
  /\ At(w, "list")
  /\ WStep(w, [wk[w] EXCEPT !.pc = "evacuate", !.todo = KeysOn(wk[w].addr)])
  /\ UNCHANGED <<poolVars, row, others, used>>

\* Migrate of a listed key, first half, wherever it is bound by now.
EvacuateUnbind(w) ==
  \E k \in wk[w].todo :
    /\ At(w, "evacuate")
    /\ Unbind(k)
    /\ WStep(w, [wk[w] EXCEPT !.pc = "rebind", !.cur = k, !.todo = @ \ {k}])
    /\ UNCHANGED <<markVars, authFails, row, others, used>>

\* Second half, in the tier of the banned address; a key without a place is
\* reported as failed.
EvacuateBind(w) ==
  \E addr \in AddrOrNone :
    /\ At(w, "rebind")
    /\ BindInPool(wk[w].cur, TierOf[wk[w].addr], addr)
    /\ WStep(w, [wk[w] EXCEPT !.pc = "evacuate", !.cur = None,
                   !.done = IF addr = None THEN @
                            ELSE @ \cup {<<wk[w].cur, addr>>}])
    /\ UNCHANGED <<markVars, authFails, row, others, used>>

EvacuatePersist(w) ==
  \E m \in wk[w].done :
    /\ At(w, "evacuate") /\ wk[w].todo = {}
    /\ WriteRecord(m[1], m[2])
    /\ WStep(w, [wk[w] EXCEPT !.done = @ \ {m}])
    /\ UNCHANGED <<poolVars, others>>

EvacuateEnd(w) ==
  /\ At(w, "evacuate") /\ wk[w].todo = {} /\ wk[w].done = {}
  /\ EndRefused(w)
  /\ UNCHANGED <<poolVars, row, entry, phase, restore, adm, rec, sentFrom, used>>

WorkerStep(w) ==
  \/ Lookup(w) \/ BindKey(w) \/ Create(w) \/ Compare(w) \/ Persist(w)
  \/ Send(w) \/ Succeed(w) \/ FailFaulty(w) \/ FailUnrelated(w) \/ FailAuth(w)
  \/ Guard(w) \/ Ban(w) \/ ListKeys(w) \/ EvacuateUnbind(w)
  \/ EvacuateBind(w) \/ EvacuatePersist(w) \/ EvacuateEnd(w)

-----------------------------------------------------------------------------
(***************************************************************************)
(* The operator.                                                           *)
(***************************************************************************)
AdminAt(pc) == phase = "up" /\ adm.pc = pc
Begin(pc, op, k, tier) ==
  /\ AdminAt("idle") /\ Spend("ops", MaxOps)
  /\ adm' = [IdleAdmin EXCEPT !.pc = pc, !.op = op, !.key = k, !.tier = tier]

\* POST /admin/keys, one item that names a tier and neither status nor
\* address: an existing row keeps both.
Import(k, t) ==
  /\ Begin("bind", "import", k, t)
  /\ row' = [row EXCEPT ![k] =
       IF k \in Listed THEN [@ EXCEPT !.tier = t]
       ELSE [status |-> "active", tier |-> t, egress |-> None]]
  /\ UNCHANGED <<poolVars, ctlVars, wk, rec, sentFrom>>

\* PATCH with pool: row, scheduler, then Migrate and its record.
PatchTier(k, t) ==
  /\ k \in Listed /\ row[k].tier # t
  /\ Begin("refresh", "tier", k, t)
  /\ row' = [row EXCEPT ![k].tier = t]
  /\ UNCHANGED <<poolVars, ctlVars, wk, rec, sentFrom>>

\* PATCH with status, force given where it is needed.
PatchStatus(k, s) ==
  /\ k \in Listed /\ (row[k].status # s \/ k \in barred)
  /\ Begin("refresh", IF s = "active" THEN "revive" ELSE "ban", k, row[k].tier)
  /\ row' = [row EXCEPT ![k].status = s]
  /\ UNCHANGED <<poolVars, ctlVars, wk, rec, sentFrom>>

\* PUT /admin/keys/{id}/ip: Rebind, first half, for any id.
Rebind(k) ==
  /\ Begin("bind", "rebind", k, AnyTier)
  /\ Penalize(k) /\ Unbind(k)
  /\ UNCHANGED <<authFails, row, ctlVars, wk, rec, sentFrom>>

\* DELETE: the row first, then the binding, then the scheduler.
Delete(k) ==
  /\ k \in Listed
  /\ Begin("release", "delete", k, AnyTier)
  /\ row' = [row EXCEPT ![k] = NoRow]
  /\ UNCHANGED <<poolVars, ctlVars, wk, rec, sentFrom>>

\* SetKeyStatus for a status patch, and RefreshKey.
AdminRefresh ==
  LET k == adm.key IN
  /\ AdminAt("refresh")
  /\ barred' = CASE adm.op = "ban" -> barred \cup {k}
                 [] adm.op = "revive" -> barred \ {k}
                 [] OTHER -> barred
  /\ \/ entry' = RefreshedEntries(k) /\ UNCHANGED <<row, used>>
     \/ entry' = entry /\ DBFails
  /\ adm' = IF adm.op = "tier" THEN [adm EXCEPT !.pc = "unbind"] ELSE IdleAdmin
  /\ UNCHANGED <<poolVars, phase, restore, wk, rec, sentFrom>>

AdminUnbind ==
  /\ AdminAt("unbind")
  /\ Unbind(adm.key)
  /\ adm' = [adm EXCEPT !.pc = "bind"]
  /\ UNCHANGED <<markVars, authFails, row, ctlVars, wk, rec, used, sentFrom>>

\* An import ends with Scheduler.Reload, the others with the record.
AfterBind == IF adm.op = "import" THEN [adm EXCEPT !.pc = "reload"] ELSE IdleAdmin

AdminBind ==
  \E addr \in AddrOrNone :
    /\ AdminAt("bind")
    /\ BindInPool(adm.key, adm.tier, addr)
    /\ adm' = IF addr = None THEN AfterBind
              ELSE [adm EXCEPT !.pc = "persist", !.addr = addr]
    /\ UNCHANGED <<markVars, authFails, row, ctlVars, wk, rec, used, sentFrom>>

AdminPersist ==
  /\ AdminAt("persist")
  /\ WriteRecord(adm.key, adm.addr)
  /\ adm' = AfterBind
  /\ UNCHANGED <<poolVars, ctlVars, wk, rec, sentFrom>>

AdminRelease ==
  /\ AdminAt("release")
  /\ Unbind(adm.key)
  /\ adm' = [adm EXCEPT !.pc = "reload"]
  /\ UNCHANGED <<markVars, authFails, row, ctlVars, wk, rec, used, sentFrom>>

AdminReload ==
  /\ AdminAt("reload")
  /\ \/ entry' = LoadedEntries /\ UNCHANGED <<row, used>>
     \/ entry' = entry /\ DBFails
  /\ adm' = IdleAdmin
  /\ UNCHANGED <<poolVars, barred, phase, restore, wk, rec, sentFrom>>

AdminStep == AdminRefresh \/ AdminUnbind \/ AdminBind \/ AdminPersist
             \/ AdminRelease \/ AdminReload

-----------------------------------------------------------------------------
(***************************************************************************)
(* Background tasks.                                                       *)
(***************************************************************************)
RecAt(pc) == phase = "up" /\ rec.pc = pc
bystanders == <<ctlVars, wk, adm, sentFrom>>

\* collectMetrics: list every row, of whatever status.
RecList ==
  /\ RecAt("idle")
  /\ rec' = [IdleRec EXCEPT !.pc = "release", !.todo = Listed,
               !.seen = [k \in Key |-> row[k].egress]]
  /\ UNCHANGED <<poolVars, row, bystanders, used>>

RecContinue(todo) ==
  IF todo = {} THEN IdleRec
  ELSE [rec EXCEPT !.pc = "compare", !.todo = todo, !.cur = None, !.addr = None]

\* Mutant of RecRelease: nothing is released.
RecReleaseNothing ==
  /\ RecAt("release")
  /\ rec' = RecContinue(rec.todo)
  /\ UNCHANGED <<poolVars, row, bystanders, used>>

\* Bindings of keys that were not in the list are released.
RecRelease ==
  /\ RecAt("release")
  /\ ReleaseBindings(rec.todo)
  /\ rec' = RecContinue(rec.todo)
  /\ UNCHANGED <<markVars, authFails, row, bystanders, used>>

\* Mutant of RecCompare: only an empty record is filled in.
RecCompareEmpty ==
  \E k \in rec.todo :
    /\ RecAt("compare")
    /\ rec' = IF binding[k] = None \/ rec.seen[k] # None THEN RecContinue(rec.todo \ {k})
              ELSE [rec EXCEPT !.pc = "write", !.cur = k, !.addr = binding[k]]
    /\ UNCHANGED <<poolVars, row, bystanders, used>>

\* reconcileEgressBindings: memory is right, the record follows.
RecCompare ==
  \E k \in rec.todo :
    /\ RecAt("compare")
    /\ rec' = IF binding[k] \in {None, rec.seen[k]} THEN RecContinue(rec.todo \ {k})
              ELSE [rec EXCEPT !.pc = "write", !.cur = k, !.addr = binding[k]]
    /\ UNCHANGED <<poolVars, row, bystanders, used>>

RecWrite ==
  /\ RecAt("write")
  /\ WriteRecord(rec.cur, rec.addr)
  /\ rec' = RecContinue(rec.todo \ {rec.cur})
  /\ UNCHANGED <<poolVars, bystanders>>

RecStep == RecList \/ RecRelease \/ RecCompare \/ RecWrite

\* key_reload: Reload, then RetainClients of the loaded keys.
KeyReload ==
  /\ phase = "up"
  /\ entry' = LoadedEntries
  /\ RetainClients(Active)
  /\ UNCHANGED <<markVars, authFails, row, barred, phase, restore, wk, adm, rec,
                 used, sentFrom>>

\* egress_health: TryUnbanAll, then one Verify per address.  The back-off of
\* a ban is far longer than an evacuation.
Evacuating(a) ==
  \E w \in Worker : wk[w].pc \in {"list", "evacuate", "rebind"} /\ wk[w].addr = a

Unban(a) ==
  /\ phase = "up" /\ ~Evacuating(a)
  /\ TryUnban(a)
  /\ UNCHANGED <<mapVars, authFails, row, ctlVars, wk, adm, rec, used, sentFrom>>

Verify(a) ==
  /\ phase = "up"
  /\ \/ MarkSuccess(a) /\ UNCHANGED used
     \/ MarkFailure(a) /\ Spend("faults", MaxFaults)
  /\ UNCHANGED <<mapVars, authFails, row, ctlVars, wk, adm, rec, sentFrom>>

-----------------------------------------------------------------------------
(***************************************************************************)
(* Stop, at any point, and start.                                          *)
(***************************************************************************)
Stop ==
  /\ phase # "down" /\ Spend("stops", MaxStops)
  /\ PoolReset
  /\ entry' = [k \in Key |-> None] /\ barred' = {}
  /\ phase' = "down" /\ restore' = {}
  /\ wk' = [w \in Worker |-> IdleWorker] /\ adm' = IdleAdmin /\ rec' = IdleRec
  /\ UNCHANGED <<row, sentFrom>>

Start ==
  /\ phase = "down"
  /\ phase' = "restoring" /\ restore' = Active
  /\ UNCHANGED <<poolVars, row, entry, barred, wk, adm, rec, used, sentFrom>>

\* Mutant of RestoreKey: every key is bound by its hash.
RestoreKeyByHash(k) ==
  /\ phase = "restoring" /\ k \in restore
  /\ restore' = restore \ {k}
  /\ \E addr \in AddrOrNone :
       /\ BindInPool(k, row[k].tier, addr)
       /\ IF addr = None THEN UNCHANGED <<row, used>> ELSE WriteRecord(k, addr)
  /\ UNCHANGED <<markVars, authFails, entry, barred, phase, wk, adm, rec, sentFrom>>

\* restoreBindings: the recorded address, else a new one, which is recorded.
RestoreKey(k) ==
  /\ phase = "restoring" /\ k \in restore
  /\ restore' = restore \ {k}
  /\ IF Adoptable(row[k].egress, row[k].tier)
     THEN Adopt(k, row[k].egress) /\ UNCHANGED <<row, used>>
     ELSE \E addr \in AddrOrNone :
            /\ BindInPool(k, row[k].tier, addr)
            /\ IF addr = None THEN UNCHANGED <<row, used>> ELSE WriteRecord(k, addr)
  /\ UNCHANGED <<markVars, authFails, entry, barred, phase, wk, adm, rec, sentFrom>>

\* The process gives up if no key could be bound, and serves otherwise.
Serve ==
  LET nobody == Active # {} /\ \A k \in Key : binding[k] = None IN
  /\ phase = "restoring" /\ restore = {}
  /\ phase' = IF nobody THEN "down" ELSE "up"
  /\ entry' = IF nobody THEN entry ELSE LoadedEntries
  /\ UNCHANGED <<poolVars, row, barred, restore, wk, adm, rec, used, sentFrom>>

BootStep == Start \/ (\E k \in Key : RestoreKey(k)) \/ Serve

-----------------------------------------------------------------------------
(***************************************************************************)
(* History.  A key is in moved once one of the causes happened for which   *)
(* the code changes its address:                                           *)
(***************************************************************************)
\* its address was banned,
BannedHomes ==
  {k \in Key : \E a \in Addr : /\ state[a] # "banned" /\ state'[a] = "banned"
                               /\ a \in sentFrom[k] \cup {binding[k]}}
\* the operator moved it or deleted it,
Ordered == {k \in Key : adm'.key = k /\ adm'.op \in {"tier", "rebind", "delete"}}
\* its binding was released on a list that did not have it yet,
Released ==
  IF rec.pc = "release" /\ rec'.pc # "release" /\ phase' = phase
  THEN {k \in Key \ rec.todo : binding[k] # None} ELSE {}
\* the process ended while the record was not its address, or while its tier
\* was one the address does not serve.
Unrecorded ==
  IF phase # "down" /\ phase' = "down"
  THEN {k \in Key : /\ sentFrom[k] # {}
                    /\ ~ /\ row[k].egress \in sentFrom[k]
                         /\ Accepts(row[k].egress, row[k].tier)}
  ELSE {}

Record ==
  /\ moved' = moved \cup BannedHomes \cup Ordered \cup Released \cup Unrecorded
  /\ dormant' = IF phase' = "down" THEN dormant \cup (Listed \ Active) ELSE dormant

Step ==
  \/ \E w \in Worker : WorkerStep(w)
  \/ \E w \in Worker, k \in Key : Select(w, k) \/ Probe(w, k)
  \/ AdminStep \/ RecStep \/ BootStep \/ KeyReload \/ Stop
  \/ \E k \in Key, t \in Tier : Import(k, t) \/ PatchTier(k, t)
  \/ \E k \in Key, s \in {"active", "banned"} : PatchStatus(k, s)
  \/ \E k \in Key : Rebind(k) \/ Delete(k)
  \/ \E a \in Addr : Unban(a) \/ Verify(a)

Next == Step /\ Record

Spec == Init /\ [][Next]_vars

\* Handlers and tasks that have begun go on; the periodic tasks run again and
\* again (background.every); a supervisor starts the process.
Fairness ==
  /\ \A w \in Worker : WF_vars(WorkerStep(w) /\ Record)
  /\ WF_vars(AdminStep /\ Record) /\ WF_vars(RecStep /\ Record)
  /\ WF_vars(KeyReload /\ Record) /\ WF_vars(BootStep /\ Record)

LiveSpec == Spec /\ Fairness

-----------------------------------------------------------------------------
Book == INSTANCE AddressBook WITH
          Capacity <- MaxKeys, book <- binding, sent <- sentFrom,
          banned <- {a \in Addr : state[a] = "banned"},
          excused <- moved \cup dormant, open <- phase = "up"

(* Every step of requests, operator, tasks, start and stop is one that the *)
(* book of addresses allows: only a key without a good address gets        *)
(* another, one with room (BindInPool, egress.go:475); only a start puts   *)
(* keys on full addresses (Adopt); and a key that is not excused neither   *)
(* loses its address (rebind, Release) nor sends from another.             *)
ImplementsBook == Book!Spec

(* A key keeps its address for life (egress.go:5 and main.go:532): across  *)
(* restarts, imports, bans of keys, full addresses and races of requests   *)
(* with the tasks, every request of a key leaves from one address, unless  *)
(* one of the causes of moved happened or the key was banned when the      *)
(* process ended.                                                          *)
LifelongAddress ==
  \A k \in Key \ (moved \cup dormant) : Cardinality(sentFrom[k]) <= 1

(* EvacuateIP marks before it lists (egress.go:830): whatever binds keys   *)
(* at the same time, a key bound to the banned address is on the list, so  *)
(* none is left behind.                                                    *)
EvacuationComplete ==
  \A w \in Worker : wk[w].pc \in {"evacuate", "rebind"} =>
                       KeysOn(wk[w].addr) \subseteq wk[w].todo

(* The guard of detectEgressBan (proxy.go:603): the last usable address is *)
(* not to be banned, so some address can take keys after every ban.        *)
LastEgressKept ==
  [][\A w \in Worker : wk[w].pc = "ban" /\ wk'[w].pc = "list" =>
                          \E a \in Addr : Assignable(a)']_vars

(* Whatever record was lost, raced or failed: once the binding of a listed *)
(* key is settled, metrics_collect makes its record the same address.      *)
RecordConverges ==
  \A k \in Key, a \in Addr :
    <>[](phase = "up" /\ k \in Listed /\ binding[k] = a) => <>[](row[k].egress = a)

(* A key deleted for good ends without binding and without client, also    *)
(* when a request under way bound it again or a statement failed.          *)
DeletedKeyReleased ==
  \A k \in Key :
    <>[](phase = "up" /\ k \notin Listed) => <>[](binding[k] = None /\ client[k] = None)
=============================================================================
