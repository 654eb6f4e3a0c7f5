-------------------------- MODULE EgressHomeProofs --------------------------
(***************************************************************************)
(* Proof of LifelongAddress, and that EgressBinding implements AddressBook *)
(* (at the end), for every set of keys, addresses and workers, every hash  *)
(* and every bound.                                                        *)
(*                                                                         *)
(* A key that kept its address (it is neither in moved nor in dormant) is  *)
(* at home.  While the process serves, home is the binding: whatever was   *)
(* sent, is cached or is about to be sent agrees with it, it is not        *)
(* banned, and nobody is about to take it away.  While the process does    *)
(* not serve, home is the record, and the start goes back to it.           *)
(***************************************************************************)
EXTENDS EgressBindingProofs

Orders == {"tier", "rebind", "delete"}

(* What worker r may do to key k, whose home is b: send only from b, and   *)
(* evacuate other keys than k.                                             *)
WorkerHome(r, k, b) ==
  /\ r.key = k /\ r.pc \in {"create", "compare", "persist", "send"} => r.addr = b
  /\ r.pc \in {"evacuate", "rebind"} => k \notin r.todo
  /\ r.pc = "rebind" => r.cur # k

BoundHome(k) ==
  /\ sentFrom[k] \subseteq {binding[k]}
  /\ client[k] \in {None, binding[k]}
  /\ binding[k] # None => state[binding[k]] # "banned"
  /\ \A w \in Worker : WorkerHome(wk[w], k, binding[k])
  /\ adm.key = k => adm.op \notin Orders

RecordedHome(k) ==
  sentFrom[k] # {} =>
    /\ row[k].status = "active" /\ row[k].egress \in Addr
    /\ sentFrom[k] = {row[k].egress}
    /\ Accepts(row[k].egress, row[k].tier)

AtHome(k) ==
  /\ phase = "up" => BoundHome(k)
  /\ phase # "up" => RecordedHome(k)
  /\ phase = "restoring" /\ sentFrom[k] # {} =>
       k \in restore \/ binding[k] = row[k].egress

(* Before the process serves, nobody but the start is at work, and no      *)
(* address has got a mark.                                                 *)
Quiet ==
  phase # "up" =>
    /\ \A k \in Key : client[k] = None
    /\ \A a \in Addr : state[a] = "active"
    /\ \A w \in Worker : wk[w] = IdleWorker
    /\ adm = IdleAdmin

(* Only an order of the operator takes a binding away from its key.        *)
AdminOrders ==
  /\ adm.pc = "unbind" => adm.op = "tier"
  /\ adm.pc = "release" => adm.op = "delete"

HomeInv ==
  /\ IInv /\ Quiet /\ AdminOrders
  /\ \A k \in Key \ (moved \cup dormant) : AtHome(k)

-----------------------------------------------------------------------------
(***************************************************************************)
(* What keeps a key at home while the process serves.                      *)
(***************************************************************************)
PoolKept(k) ==
  /\ \/ binding'[k] = binding[k]
     \/ binding[k] = None /\ binding'[k] \in Addr /\ state'[binding'[k]] # "banned"
  /\ client'[k] \in {None, client[k], binding'[k]}

SentKept(k) == sentFrom'[k] \subseteq sentFrom[k] \cup {binding'[k]}

WorkersKept(k) ==
  \A v \in Worker : wk'[v] = wk[v] \/ WorkerHome(wk'[v], k, binding'[k])

Steady(k) == PoolKept(k) /\ SentKept(k) /\ WorkersKept(k)

(* The binding of an unbound key may be set: nothing was sent, is cached   *)
(* or is about to be sent.                                                 *)
LEMMA SteadyAtHome ==
  ASSUME CoreInv, CoreInv', NEW k \in Key, BoundHome(k), Steady(k),
         k \notin BannedHomes, k \notin Ordered
  PROVE  BoundHome(k)'
<1>0. None \notin Addr /\ binding[k] \in AddrOrNone /\ sentFrom[k] \subseteq Addr
  BY PoolAssumption DEF PoolAssumption, CoreInv, MapTypeOK, SentTypeOK
<1>1. binding'[k] \in AddrOrNone /\ sentFrom'[k] \subseteq Addr
  BY DEF CoreInv, MapTypeOK, SentTypeOK
<1>2. sentFrom'[k] \subseteq {binding'[k]}
  BY <1>0, <1>1 DEF BoundHome, Steady, PoolKept, SentKept
<1>3. client'[k] \in {None, binding'[k]}
  BY <1>0 DEF BoundHome, Steady, PoolKept
<1>4. binding'[k] # None => state'[binding'[k]] # "banned"
  <2>1. CASE binding'[k] = binding[k]
    BY <1>0, <2>1 DEF BoundHome, BannedHomes, AddrOrNone
  <2>2. CASE binding'[k] # binding[k]
    BY <2>2 DEF Steady, PoolKept
  <2> QED
    BY <2>1, <2>2
<1>5. ASSUME NEW v \in Worker
      PROVE  WorkerHome(wk'[v], k, binding'[k])
  <2>1. CASE WorkerHome(wk'[v], k, binding'[k])
    BY <2>1
  <2>2. CASE wk'[v] = wk[v]
    <3>1. WorkerOK(wk[v], state, binding) /\ WorkerHome(wk[v], k, binding[k])
      BY WorkerFacts DEF BoundHome
    <3>2. wk[v].pc \in {"create", "compare", "persist", "send"} => wk[v].addr \in Addr
      BY <3>1 DEF WorkerOK, Holding
    <3> QED
      BY <1>0, <2>2, <3>1, <3>2 DEF WorkerHome, Steady, PoolKept
  <2> QED
    BY <2>1, <2>2 DEF Steady, WorkersKept
<1>6. adm'.key = k => adm'.op \notin Orders
  BY DEF Ordered, Orders
<1> QED
  BY <1>2, <1>3, <1>4, <1>5, <1>6 DEF BoundHome

(* Steps that leave the pool's maps and the requests sent alone.           *)
LEMMA StillWorkers ==
  ASSUME NEW k \in Key, UNCHANGED <<binding, client, sentFrom, wk>>
  PROVE  Steady(k)
BY DEF Steady, PoolKept, SentKept, WorkersKept

LEMMA OneWorker ==
  ASSUME CoreInv, NEW w \in Worker, NEW r, NEW k \in Key, WStep(w, r),
         WorkerHome(r, k, binding'[k])
  PROVE  WorkersKept(k)
BY DEF CoreInv, WorkersOK, WStep, WorkersKept

LEMMA StillPool ==
  ASSUME CoreInv, NEW w \in Worker, NEW r, NEW k \in Key, WStep(w, r),
         UNCHANGED <<binding, client, sentFrom>>, WorkerHome(r, k, binding[k])
  PROVE  Steady(k)
BY OneWorker DEF Steady, PoolKept, SentKept

LEMMA IdleHome ==
  ASSUME NEW k \in Key, NEW b
  PROVE  WorkerHome(IdleWorker, k, b)
BY DEF WorkerHome, IdleWorker

(* A key is not bound anew when it has a home, and the address it gets     *)
(* when it has none is not banned.                                         *)
LEMMA BindAtHome ==
  ASSUME CoreInv, NEW k \in Key, BoundHome(k),
         NEW j, NEW t, NEW addr \in AddrOrNone, BindInPool(j, t, addr),
         UNCHANGED markVars
  PROVE  PoolKept(k) /\ (j = k => binding'[k] = addr)
<1>0. None \notin Addr /\ binding[k] \in AddrOrNone /\ client[k] \in AddrOrNone
  BY PoolAssumption DEF PoolAssumption, CoreInv, MapTypeOK
<1>1. binding \in [Key -> AddrOrNone] /\ client \in [Key -> AddrOrNone] /\ state' = state
  BY DEF CoreInv, MapTypeOK, markVars
<1>2. CASE Keeps(j) /\ addr = binding[j] /\ UNCHANGED mapVars
  BY <1>2 DEF PoolKept, mapVars
<1>3. CASE ~Keeps(j) /\ DropBanned(j, addr)
  <2>1. CASE j = k
    <3>1. binding[k] = None
      BY <1>3, <2>1 DEF Keeps, BoundHome
    <3>2. binding'[k] = addr /\ client' = client
      BY <1>1, <1>3, <2>1, <3>1 DEF DropBanned
    <3>3. addr # None => state[addr] # "banned"
      BY <1>3, <1>0, <3>1 DEF BindInPool, Candidates, Assignable
    <3> QED
      BY <1>1, <3>1, <3>2, <3>3 DEF PoolKept, AddrOrNone
  <2>2. CASE j # k
    <3>1. binding'[k] = binding[k] /\ client'[k] = client[k]
      BY <1>1, <1>3, <2>2 DEF DropBanned
    <3> QED
      BY <2>2, <3>1 DEF PoolKept
  <2> QED
    BY <2>1, <2>2
<1> QED
  BY <1>2, <1>3 DEF BindInPool

LEMMA UnbindOthers ==
  ASSUME CoreInv, NEW k \in Key, NEW j, j # k, Unbind(j)
  PROVE  PoolKept(k) /\ binding'[k] = binding[k]
BY DEF CoreInv, MapTypeOK, Unbind, PoolKept

-----------------------------------------------------------------------------
(***************************************************************************)
(* Requests, probes and evacuations.                                       *)
(***************************************************************************)
LEMMA BeginRequest ==
  ASSUME CoreInv, NEW k \in Key, NEW w \in Worker, NEW j \in Key,
         Select(w, j) \/ Probe(w, j)
  PROVE  Steady(k)
<1> DEFINE r == IF Select(w, j)
                THEN [IdleWorker EXCEPT !.pc = "lookup", !.key = j, !.tier = entry[j]]
                ELSE [IdleWorker EXCEPT !.pc = "lookup", !.key = j, !.probe = TRUE]
<1>1. WStep(w, r) /\ UNCHANGED <<binding, client, sentFrom>>
  BY DEF Select, Probe, poolVars
<1>2. WorkerHome(r, k, binding[k])
  BY DEF WorkerHome, IdleWorker
<1> HIDE DEF r
<1> QED
  BY <1>1, <1>2, StillPool

LEMMA LookupHome ==
  ASSUME CoreInv, NEW k \in Key, BoundHome(k), NEW w \in Worker, Lookup(w)
  PROVE  Steady(k)
<1> DEFINE j == wk[w].key
<1> DEFINE s == [wk[w] EXCEPT !.prev = binding[j]]
<1> DEFINE r == IF client[j] # None THEN HaveClient(s, client[j])
                ELSE [s EXCEPT !.pc = "bind"]
<1>1. WStep(w, r) /\ UNCHANGED <<binding, client, sentFrom>>
  BY DEF Lookup, others, poolVars
<1>2. wk[w] \in WorkerType
  BY WorkerFacts
<1>3. client[k] # None => client[k] = binding[k]
  BY DEF BoundHome
<1>4. WorkerHome(r, k, binding[k])
  BY <1>2, <1>3 DEF WorkerHome, HaveClient, WorkerType
<1> HIDE DEF r
<1> QED
  BY <1>1, <1>4, StillPool

LEMMA BindKeyHome ==
  ASSUME CoreInv, NEW k \in Key, BoundHome(k), NEW w \in Worker, BindKey(w)
  PROVE  Steady(k)
<1>1. PICK addr \in AddrOrNone :
        /\ BindInPool(wk[w].key, wk[w].tier, addr)
        /\ WStep(w, IF addr = None THEN IdleWorker
                    ELSE [wk[w] EXCEPT !.pc = "create", !.addr = addr])
        /\ UNCHANGED <<markVars, sentFrom>>
  BY DEF BindKey, others
<1>2. PoolKept(k) /\ (wk[w].key = k => binding'[k] = addr)
  BY <1>1, BindAtHome
<1> DEFINE r == IF addr = None THEN IdleWorker
                ELSE [wk[w] EXCEPT !.pc = "create", !.addr = addr]
<1>3. wk[w] \in WorkerType
  BY WorkerFacts
<1>4. WorkerHome(r, k, binding'[k])
  BY <1>2, <1>3, IdleHome DEF WorkerHome, WorkerType
<1>5. WStep(w, r)
  BY <1>1
<1> HIDE DEF r
<1>6. WorkersKept(k)
  BY <1>4, <1>5, OneWorker
<1> QED
  BY <1>1, <1>2, <1>6 DEF Steady, SentKept

LEMMA CreateHome ==
  ASSUME CoreInv, NEW k \in Key, BoundHome(k), NEW w \in Worker, Create(w)
  PROVE  Steady(k)
<1> DEFINE j == wk[w].key
<1> DEFINE r == HaveClient(wk[w], client'[j])
<1>1. /\ wk[w].pc = "create" /\ CreateClient(j, wk[w].addr)
      /\ WStep(w, r) /\ UNCHANGED <<binding, sentFrom>>
  BY DEF Create, At, others, CreateClient
<1>2. wk[w] \in WorkerType /\ client \in [Key -> AddrOrNone]
  BY WorkerFacts DEF CoreInv, MapTypeOK
<1>3. j = k => wk[w].addr = binding[k]
  BY <1>1 DEF BoundHome, WorkerHome
<1>4. /\ j # k => client'[k] = client[k]
      /\ j = k => client'[k] = IF client[k] = None THEN wk[w].addr ELSE client[k]
  BY <1>1, <1>2 DEF CreateClient
<1>5. j = k => client'[k] = binding[k]
  BY <1>3, <1>4 DEF BoundHome
<1>6. PoolKept(k)
  BY <1>1, <1>4, <1>5 DEF PoolKept
<1>7. WorkerHome(r, k, binding'[k])
  BY <1>1, <1>2, <1>5 DEF WorkerHome, HaveClient, WorkerType
<1> HIDE DEF r
<1>8. WorkersKept(k)
  BY <1>1, <1>7, OneWorker
<1> QED
  BY <1>1, <1>6, <1>8 DEF Steady, SentKept

LEMMA WriteBackHome ==
  ASSUME CoreInv, NEW k \in Key, BoundHome(k), NEW w \in Worker,
         Compare(w) \/ Persist(w)
  PROVE  Steady(k)
<1>1. PICK r : /\ WStep(w, r) /\ wk[w].pc \in {"compare", "persist"}
               /\ r.pc \in {"send", "persist"}
               /\ r.key = wk[w].key /\ r.addr = wk[w].addr
               /\ UNCHANGED <<binding, client, sentFrom>>
  <2>1. wk[w] \in WorkerType
    BY WorkerFacts
  <2>2. CASE Compare(w)
    <3> DEFINE s == [wk[w] EXCEPT !.pc = "send"]
    <3> DEFINE p == [wk[w] EXCEPT !.pc = "persist", !.prev = binding[wk[w].key]]
    <3>1. WStep(w, s) \/ WStep(w, p)
      BY <2>2 DEF Compare
    <3>2. /\ s.pc = "send" /\ s.key = wk[w].key /\ s.addr = wk[w].addr
          /\ p.pc = "persist" /\ p.key = wk[w].key /\ p.addr = wk[w].addr
      BY <2>1 DEF WorkerType
    <3> HIDE DEF s, p
    <3> QED
      BY <2>2, <3>1, <3>2 DEF Compare, At, poolVars, others
  <2>3. CASE Persist(w)
    <3> DEFINE s == [wk[w] EXCEPT !.pc = "send"]
    <3>1. WStep(w, s)
      BY <2>3 DEF Persist
    <3>2. s.pc = "send" /\ s.key = wk[w].key /\ s.addr = wk[w].addr
      BY <2>1 DEF WorkerType
    <3> HIDE DEF s
    <3> QED
      BY <2>3, <3>1, <3>2 DEF Persist, At, poolVars, others
  <2> QED
    BY <2>2, <2>3
<1>2. WorkerHome(r, k, binding[k])
  BY <1>1 DEF BoundHome, WorkerHome
<1> QED
  BY <1>1, <1>2, StillPool

LEMMA SendHome ==
  ASSUME CoreInv, NEW k \in Key, BoundHome(k), NEW w \in Worker, Send(w)
  PROVE  Steady(k)
<1> DEFINE r == IF wk[w].probe THEN IdleWorker
                ELSE [IdleWorker EXCEPT !.pc = "wait", !.key = wk[w].key]
<1>1. /\ wk[w].pc = "send" /\ WStep(w, r) /\ UNCHANGED <<binding, client>>
      /\ sentFrom' = [sentFrom EXCEPT ![wk[w].key] = @ \cup {wk[w].addr}]
  BY DEF Send, At, poolVars
<1>2. WorkerHome(r, k, binding'[k])
  BY DEF WorkerHome, IdleWorker
<1> HIDE DEF r
<1>3. WorkersKept(k)
  BY <1>1, <1>2, OneWorker
<1>4. wk[w].key = k => wk[w].addr = binding[k]
  BY <1>1 DEF BoundHome, WorkerHome
<1>5. SentKept(k)
  BY <1>1, <1>4 DEF SentKept, CoreInv, SentTypeOK
<1> QED
  BY <1>1, <1>3, <1>5 DEF Steady, PoolKept

(* The answer: the worker goes idle or on to the guard and the ban.        *)
LEMMA AnswerHome ==
  ASSUME CoreInv, NEW k \in Key, NEW w \in Worker,
         \/ Succeed(w) \/ FailFaulty(w) \/ FailUnrelated(w) \/ FailAuth(w)
         \/ Guard(w) \/ Ban(w) \/ EvacuateEnd(w)
  PROVE  Steady(k)
<1>1. UNCHANGED <<binding, client, sentFrom>>
  BY DEF Succeed, FailFaulty, FailUnrelated, FailAuth, Guard, Ban, EvacuateEnd,
         mapVars, poolVars, others
<1>2. wk[w] \in WorkerType
  BY WorkerFacts
<1>3. PICK r : /\ WStep(w, r)
               /\ r = IdleWorker \/ r.pc \in {"guard", "ban", "list"}
  <2>1. CASE Succeed(w) \/ FailFaulty(w) \/ FailUnrelated(w) \/ EvacuateEnd(w)
    BY <2>1 DEF Succeed, FailFaulty, FailUnrelated, EvacuateEnd, EndRefused
  <2>2. CASE FailAuth(w)
    <3> DEFINE g == [wk[w] EXCEPT !.pc = "guard", !.addr = binding[wk[w].key]]
    <3>1. WStep(w, IdleWorker) \/ WStep(w, g)
      BY <2>2 DEF FailAuth, EndRefused
    <3>2. g.pc = "guard"
      BY <1>2 DEF WorkerType
    <3> HIDE DEF g
    <3> QED
      BY <3>1, <3>2
  <2>3. CASE Guard(w)
    <3> DEFINE g == [wk[w] EXCEPT !.pc = "ban"]
    <3>1. WStep(w, IdleWorker) \/ WStep(w, g)
      BY <2>3 DEF Guard, EndRefused
    <3>2. g.pc = "ban"
      BY <1>2 DEF WorkerType
    <3> HIDE DEF g
    <3> QED
      BY <3>1, <3>2
  <2>4. CASE Ban(w)
    <3> DEFINE g == [wk[w] EXCEPT !.pc = "list"]
    <3>1. WStep(w, g)
      BY <2>4 DEF Ban
    <3>2. g.pc = "list"
      BY <1>2 DEF WorkerType
    <3> HIDE DEF g
    <3> QED
      BY <3>1, <3>2
  <2> QED
    BY <2>1, <2>2, <2>3, <2>4
<1>4. WorkerHome(r, k, binding[k])
  BY <1>3, IdleHome DEF WorkerHome
<1> QED
  BY <1>1, <1>3, <1>4, StillPool

(* The banned address is not the home of a key that is at home: the key is *)
(* not on the list.                                                        *)
LEMMA ListHome ==
  ASSUME CoreInv, NEW k \in Key, BoundHome(k), NEW w \in Worker, ListKeys(w)
  PROVE  Steady(k)
<1> DEFINE r == [wk[w] EXCEPT !.pc = "evacuate", !.todo = KeysOn(wk[w].addr)]
<1>1. wk[w].pc = "list" /\ WStep(w, r) /\ UNCHANGED <<binding, client, sentFrom>>
  BY DEF ListKeys, At, poolVars, others
<1>2. wk[w] \in WorkerType /\ wk[w].addr \in Addr /\ state[wk[w].addr] = "banned"
  BY <1>1, WorkerFacts DEF WorkerOK, Evacuation
<1>3. binding[k] # wk[w].addr
  BY <1>2, PoolAssumption DEF BoundHome, PoolAssumption
<1>4. r.pc = "evacuate" /\ k \notin r.todo
  BY <1>2, <1>3 DEF WorkerType, KeysOn
<1> HIDE DEF r
<1>5. WorkerHome(r, k, binding[k])
  BY <1>4 DEF WorkerHome
<1> QED
  BY <1>1, <1>5, StillPool

LEMMA EvacuateHome ==
  ASSUME CoreInv, NEW k \in Key, BoundHome(k), NEW w \in Worker,
         EvacuateUnbind(w) \/ EvacuateBind(w) \/ EvacuatePersist(w)
  PROVE  Steady(k)
<1>1. wk[w] \in WorkerType /\ WorkerHome(wk[w], k, binding[k])
  BY WorkerFacts DEF BoundHome
<1>2. CASE EvacuateUnbind(w)
  <2>1. PICK j \in wk[w].todo :
          /\ wk[w].pc = "evacuate" /\ Unbind(j)
          /\ WStep(w, [wk[w] EXCEPT !.pc = "rebind", !.cur = j, !.todo = @ \ {j}])
          /\ UNCHANGED sentFrom
    BY <1>2 DEF EvacuateUnbind, At, others
  <2> DEFINE r == [wk[w] EXCEPT !.pc = "rebind", !.cur = j, !.todo = @ \ {j}]
  <2>2. j # k
    BY <1>1, <2>1 DEF WorkerHome
  <2>3. PoolKept(k)
    BY <2>1, <2>2, UnbindOthers
  <2>4. r.pc = "rebind" /\ r.cur = j /\ r.todo \subseteq wk[w].todo
    BY <1>1 DEF WorkerType
  <2>5. WStep(w, r)
    BY <2>1
  <2> HIDE DEF r
  <2>6. WorkerHome(r, k, binding'[k])
    BY <1>1, <2>1, <2>2, <2>4 DEF WorkerHome
  <2>7. WorkersKept(k)
    BY <2>5, <2>6, OneWorker
  <2> QED
    BY <2>1, <2>3, <2>7 DEF Steady, SentKept
<1>3. CASE EvacuateBind(w)
  <2>1. PICK addr \in AddrOrNone :
          /\ wk[w].pc = "rebind"
          /\ BindInPool(wk[w].cur, TierOf[wk[w].addr], addr)
          /\ WStep(w, [wk[w] EXCEPT !.pc = "evacuate", !.cur = None,
                         !.done = IF addr = None THEN @
                                  ELSE @ \cup {<<wk[w].cur, addr>>}])
          /\ UNCHANGED <<markVars, sentFrom>>
    BY <1>3 DEF EvacuateBind, At, others
  <2> DEFINE r == [wk[w] EXCEPT !.pc = "evacuate", !.cur = None,
                     !.done = IF addr = None THEN @
                              ELSE @ \cup {<<wk[w].cur, addr>>}]
  <2>2. PoolKept(k)
    BY <2>1, BindAtHome
  <2>3. r.pc = "evacuate" /\ r.todo = wk[w].todo
    BY <1>1 DEF WorkerType
  <2>4. WStep(w, r)
    BY <2>1
  <2> HIDE DEF r
  <2>5. WorkerHome(r, k, binding'[k])
    BY <1>1, <2>1, <2>3 DEF WorkerHome
  <2>6. WorkersKept(k)
    BY <2>4, <2>5, OneWorker
  <2> QED
    BY <2>1, <2>2, <2>6 DEF Steady, SentKept
<1>4. CASE EvacuatePersist(w)
  <2>1. PICK m \in wk[w].done :
          /\ wk[w].pc = "evacuate" /\ WStep(w, [wk[w] EXCEPT !.done = @ \ {m}])
          /\ UNCHANGED <<binding, client, sentFrom>>
    BY <1>4 DEF EvacuatePersist, At, others, poolVars
  <2> DEFINE r == [wk[w] EXCEPT !.done = @ \ {m}]
  <2>2. r.pc = "evacuate" /\ r.todo = wk[w].todo
    BY <1>1, <2>1 DEF WorkerType
  <2>3. WStep(w, r)
    BY <2>1
  <2> HIDE DEF r
  <2>4. WorkerHome(r, k, binding[k])
    BY <1>1, <2>1, <2>2 DEF WorkerHome
  <2> QED
    BY <2>1, <2>3, <2>4, StillPool
<1> QED
  BY <1>2, <1>3, <1>4

LEMMA WorkerStepHome ==
  ASSUME CoreInv, NEW k \in Key, BoundHome(k), NEW w \in Worker, WorkerStep(w)
  PROVE  Steady(k) /\ phase' = phase
<1>1. Steady(k)
  BY LookupHome, BindKeyHome, CreateHome, WriteBackHome, SendHome, AnswerHome,
     ListHome, EvacuateHome DEF WorkerStep
<1>2. phase' = phase
  BY DEF WorkerStep, Lookup, BindKey, Create, Compare, Persist, Send, Succeed,
         FailFaulty, FailUnrelated, FailAuth, Guard, Ban, ListKeys,
         EvacuateUnbind, EvacuateBind, EvacuatePersist, EvacuateEnd,
         EndRefused, others, ctlVars
<1> QED
  BY <1>1, <1>2

-----------------------------------------------------------------------------
(***************************************************************************)
(* The operator and the tasks.                                             *)
(***************************************************************************)
LEMMA OperatorHome ==
  ASSUME CoreInv, NEW k \in Key, k \notin Ordered, NEW j \in Key,
         NEW t, NEW s,
         \/ Import(j, t) \/ PatchTier(j, t) \/ PatchStatus(j, s)
         \/ Rebind(j) \/ Delete(j)
  PROVE  Steady(k) /\ phase' = phase
<1>1. CASE Import(j, t) \/ PatchTier(j, t) \/ PatchStatus(j, s) \/ Delete(j)
  BY <1>1, StillWorkers
     DEF Import, PatchTier, PatchStatus, Delete, poolVars, ctlVars
<1>2. CASE Rebind(j)
  <2>1. j # k
    BY <1>2 DEF Rebind, Begin, IdleAdmin, Ordered
  <2>2. PoolKept(k) /\ UNCHANGED <<wk, sentFrom, phase>>
    BY <1>2, <2>1, UnbindOthers DEF Rebind, ctlVars
  <2> QED
    BY <2>2 DEF Steady, SentKept, WorkersKept
<1> QED
  BY <1>1, <1>2

LEMMA AdminStepHome ==
  ASSUME CoreInv, AdminOrders, NEW k \in Key, BoundHome(k), AdminStep
  PROVE  Steady(k) /\ phase' = phase
<1>1. CASE AdminRefresh \/ AdminPersist \/ AdminReload
  BY <1>1, StillWorkers DEF AdminRefresh, AdminPersist, AdminReload, poolVars, ctlVars
<1>2. CASE AdminUnbind \/ AdminRelease
  <2>1. /\ adm.op \in Orders /\ Unbind(adm.key)
        /\ UNCHANGED <<wk, sentFrom, phase>>
    BY <1>2 DEF AdminUnbind, AdminRelease, AdminAt, AdminOrders, Orders, ctlVars
  <2>2. PoolKept(k)
    BY <2>1, UnbindOthers DEF BoundHome
  <2> QED
    BY <2>1, <2>2 DEF Steady, SentKept, WorkersKept
<1>3. CASE AdminBind
  <2>1. PoolKept(k) /\ UNCHANGED <<wk, sentFrom, phase>>
    BY <1>3, BindAtHome DEF AdminBind, ctlVars
  <2> QED
    BY <2>1 DEF Steady, SentKept, WorkersKept
<1> QED
  BY <1>1, <1>2, <1>3 DEF AdminStep

(* A key whose binding the list did not have is counted as moved.          *)
LEMMA TasksHome ==
  ASSUME CoreInv, NEW k \in Key, k \notin Released, NEW a,
         RecStep \/ KeyReload \/ Unban(a) \/ Verify(a)
  PROVE  Steady(k) /\ phase' = phase
<1>1. CASE RecList \/ RecCompare \/ RecWrite
  BY <1>1, StillWorkers
     DEF RecList, RecCompare, RecWrite, poolVars, bystanders, ctlVars
<1>2. CASE RecRelease
  <2>1. /\ rec.pc = "release" /\ rec' = RecContinue(rec.todo)
        /\ ReleaseBindings(rec.todo) /\ UNCHANGED <<wk, sentFrom, phase>>
    BY <1>2 DEF RecRelease, RecAt, bystanders, ctlVars
  <2>2. rec \in RecType
    BY DEF CoreInv, TasksTypeOK
  <2>3. rec'.pc # "release"
    BY <2>1, <2>2 DEF RecContinue, IdleRec, RecType
  <2>4. ~ (k \notin rec.todo /\ binding[k] # None)
    BY <2>1, <2>3 DEF Released
  <2>5. binding'[k] = binding[k] /\ client'[k] = client[k]
    BY <2>1, <2>4 DEF ReleaseBindings
  <2> QED
    BY <2>1, <2>5 DEF Steady, PoolKept, SentKept, WorkersKept
<1>3. CASE KeyReload
  BY <1>3 DEF KeyReload, RetainClients, Steady, PoolKept, SentKept, WorkersKept
<1>4. CASE Unban(a) \/ Verify(a)
  BY <1>4, StillWorkers DEF Unban, Verify, mapVars, ctlVars
<1> QED
  BY <1>1, <1>2, <1>3, <1>4 DEF RecStep

-----------------------------------------------------------------------------
(***************************************************************************)
(* Stop and start.                                                         *)
(***************************************************************************)

(* At the end of the process the record takes over from the binding, if    *)
(* the two agree and the key is active; else the key is in moved or in     *)
(* dormant.                                                                *)
LEMMA StopHome ==
  ASSUME CoreInv, NEW k \in Key, AtHome(k), Stop,
         k \notin Unrecorded, k \notin Listed \ Active
  PROVE  AtHome(k)'
<1>1. phase # "down" /\ phase' = "down" /\ row' = row /\ sentFrom' = sentFrom
  BY DEF Stop
<1>2. RecordedHome(k)
  <2>1. CASE phase # "up"
    BY <2>1 DEF AtHome
  <2>2. CASE phase = "up" /\ sentFrom[k] # {}
    <3>1. row[k].egress \in sentFrom[k] /\ Accepts(row[k].egress, row[k].tier)
      BY <1>1, <2>2 DEF Unrecorded
    <3>2. sentFrom[k] \subseteq Addr /\ sentFrom[k] \subseteq {binding[k]}
      BY <2>2 DEF AtHome, BoundHome, CoreInv, SentTypeOK
    <3>3. row[k].egress \in Addr /\ sentFrom[k] = {row[k].egress}
      BY <3>1, <3>2
    <3>4. row[k] # NoRow
      BY <3>3, PoolAssumption DEF NoRow, PoolAssumption
    <3>5. row[k].status # "absent"
      BY <3>4 DEF CoreInv, TablesTypeOK, RowType
    <3>6. row[k].status = "active"
      BY <3>5 DEF Listed, Active
    <3> QED
      BY <3>1, <3>3, <3>6 DEF RecordedHome
  <2>3. CASE sentFrom[k] = {}
    BY <2>3 DEF RecordedHome
  <2> QED
    BY <2>1, <2>2, <2>3
<1> QED
  BY <1>1, <1>2 DEF AtHome, RecordedHome

(* A key with a recorded home is adopted there; a key that is bound by its *)
(* hash has sent nothing.                                                  *)
LEMMA RestoreHome ==
  ASSUME CoreInv, Quiet, NEW k \in Key, AtHome(k), NEW j \in Key, RestoreKey(j)
  PROVE  AtHome(k)'
<1>1. /\ phase = "restoring" /\ restore' = restore \ {j}
      /\ UNCHANGED <<phase, sentFrom>>
  BY DEF RestoreKey
<1>2. RecordedHome(k) /\ (sentFrom[k] # {} => k \in restore \/ binding[k] = row[k].egress)
  BY <1>1 DEF AtHome
<1>3. row \in [Key -> RowType] /\ binding \in [Key -> AddrOrNone]
  BY DEF CoreInv, TablesTypeOK, MapTypeOK
<1>4. CASE sentFrom[k] = {}
  BY <1>1, <1>4 DEF AtHome, RecordedHome
<1>5. CASE sentFrom[k] # {} /\ j # k
  <2>1. row'[k] = row[k]
    BY <1>3, <1>5 DEF RestoreKey, WriteRecord, DBFails
  <2>2. binding'[k] = binding[k]
    BY <1>3, <1>5 DEF RestoreKey, Adopt, BindInPool, DropBanned, mapVars
  <2> QED
    BY <1>1, <1>2, <1>5, <2>1, <2>2 DEF AtHome, RecordedHome
<1>6. CASE sentFrom[k] # {} /\ j = k
  <2>1. row[k].egress \in Addr /\ Accepts(row[k].egress, row[k].tier)
    BY <1>2, <1>6 DEF RecordedHome
  <2>2. Adoptable(row[k].egress, row[k].tier)
    BY <1>1, <2>1 DEF Adoptable, Quiet
  <2>3. Adopt(k, row[k].egress) /\ row' = row
    BY <1>6, <2>2 DEF RestoreKey
  <2>4. binding'[k] = row[k].egress
    BY <1>3, <2>3 DEF Adopt
  <2> QED
    BY <1>1, <1>2, <2>3, <2>4 DEF AtHome, RecordedHome
<1> QED
  BY <1>4, <1>5, <1>6

(* When the process begins to serve every recorded home is the binding.    *)
LEMMA ServeHome ==
  ASSUME CoreInv, Quiet, NEW k \in Key, AtHome(k), Serve
  PROVE  AtHome(k)'
<1>1. /\ phase = "restoring" /\ restore = {} /\ phase' \in {"down", "up"}
      /\ UNCHANGED <<poolVars, row, restore, wk, adm, sentFrom>>
  BY DEF Serve
<1>2. RecordedHome(k) /\ (sentFrom[k] # {} => binding[k] = row[k].egress)
  BY <1>1 DEF AtHome
<1>3. UNCHANGED <<binding, client, state>>
  BY <1>1 DEF poolVars
<1>4. CASE phase' = "down"
  BY <1>1, <1>2, <1>4 DEF AtHome, RecordedHome
<1>5. CASE phase' = "up"
  <2>1. sentFrom[k] \subseteq {binding[k]}
    BY <1>2 DEF RecordedHome
  <2>2. client[k] = None /\ (binding[k] # None => state[binding[k]] # "banned")
    BY <1>1 DEF Quiet, CoreInv, MapTypeOK, AddrOrNone
  <2>3. \A w \in Worker : WorkerHome(wk[w], k, binding[k])
    BY <1>1, IdleHome DEF Quiet
  <2>4. adm.key # k
    BY <1>1, PoolAssumption DEF Quiet, IdleAdmin, PoolAssumption
  <2>5. BoundHome(k)'
    BY <1>1, <1>3, <2>1, <2>2, <2>3, <2>4 DEF BoundHome
  <2> QED
    BY <1>5, <2>5 DEF AtHome
<1> QED
  BY <1>1, <1>4, <1>5

LEMMA BootStepHome ==
  ASSUME CoreInv, Quiet, NEW k \in Key, AtHome(k), BootStep
  PROVE  AtHome(k)'
<1>1. CASE Start
  <2>1. /\ phase = "down" /\ phase' = "restoring" /\ restore' = Active
        /\ UNCHANGED <<row, sentFrom>>
    BY <1>1 DEF Start
  <2> QED
    BY <2>1 DEF AtHome, RecordedHome, Active
<1> QED
  BY <1>1, RestoreHome, ServeHome DEF BootStep

LEMMA QuietKept ==
  ASSUME CoreInv, Quiet, BootStep
  PROVE  Quiet'
<1>1. phase # "up" /\ UNCHANGED <<state, wk, adm>>
  BY DEF BootStep, Start, RestoreKey, Serve, poolVars, markVars
<1>2. \A k \in Key : client[k] = None
  BY <1>1 DEF Quiet
<1>3. \A k \in Key : client'[k] = None
  <2>1. CASE Start \/ Serve
    BY <1>2, <2>1 DEF Start, Serve, poolVars
  <2>2. ASSUME NEW j \in Key, RestoreKey(j)
        PROVE  client' = client \/ client' = [client EXCEPT ![j] = None]
    BY <2>2 DEF RestoreKey, Adopt, BindInPool, DropBanned, mapVars
  <2> QED
    BY <1>2, <2>1, <2>2 DEF BootStep, CoreInv, MapTypeOK
<1> QED
  BY <1>1, <1>3 DEF Quiet

LEMMA StopQuiet ==
  ASSUME Stop
  PROVE  Quiet' /\ AdminOrders'
BY DEF Stop, PoolReset, Quiet, AdminOrders, IdleAdmin

-----------------------------------------------------------------------------
(***************************************************************************)
(* All steps together.                                                     *)
(***************************************************************************)

(* What serves needs a process that is up, and a start one that is not.    *)
LEMMA ByPhase ==
  ASSUME Step
  PROVE  /\ phase # "up" => BootStep \/ Stop
         /\ BootStep => phase # "up"
BY DEF Step, BootStep, Start, RestoreKey, Serve, WorkerStep, At, Lookup, BindKey,
       Create, Compare, Persist, Send, Succeed, FailFaulty, FailUnrelated,
       FailAuth, Guard, Ban, ListKeys, EvacuateUnbind, EvacuateBind,
       EvacuatePersist, EvacuateEnd, Select, Probe, AdminStep, AdminAt,
       AdminRefresh, AdminUnbind, AdminBind, AdminPersist, AdminRelease,
       AdminReload, RecStep, RecAt, RecList, RecRelease, RecCompare, RecWrite,
       KeyReload, Begin, Import, PatchTier, PatchStatus, Rebind, Delete,
       Unban, Verify

(* A step of the serving process.                                          *)
LEMMA UpStepHome ==
  ASSUME CoreInv, AdminOrders, NEW k \in Key, BoundHome(k), phase = "up", Step, ~Stop,
         k \notin Ordered, k \notin Released
  PROVE  Steady(k) /\ phase' = "up"
<1>1. ~BootStep
  BY ByPhase
<1>2. ASSUME NEW w \in Worker, WorkerStep(w) PROVE Steady(k) /\ phase' = phase
  BY <1>2, WorkerStepHome
<1>3. ASSUME NEW w \in Worker, NEW j \in Key, Select(w, j) \/ Probe(w, j)
      PROVE  Steady(k) /\ phase' = phase
  BY <1>3, BeginRequest DEF Select, Probe, ctlVars
<1>4. ASSUME NEW j \in Key, NEW t, NEW s,
             \/ Import(j, t) \/ PatchTier(j, t) \/ PatchStatus(j, s)
             \/ Rebind(j) \/ Delete(j)
      PROVE  Steady(k) /\ phase' = phase
  BY <1>4, OperatorHome
<1>5. CASE AdminStep
  BY <1>5, AdminStepHome
<1>6. ASSUME NEW a, RecStep \/ KeyReload \/ Unban(a) \/ Verify(a)
      PROVE  Steady(k) /\ phase' = phase
  BY <1>6, TasksHome
<1> QED
  BY <1>1, <1>2, <1>3, <1>4, <1>5, <1>6 DEF Step

(* No step of the serving process leaves a key away from home unless it is *)
(* counted in moved or dormant.                                            *)
LEMMA StepHome ==
  ASSUME CoreInv, CoreInv', Quiet, AdminOrders, NEW k \in Key, AtHome(k),
         Step, Record, k \notin (moved \cup dormant)'
  PROVE  AtHome(k)'
<1>1. k \notin BannedHomes /\ k \notin Ordered /\ k \notin Released /\ k \notin Unrecorded
  BY DEF Record
<1>2. CASE Stop
  <2>1. k \notin Listed \ Active
    BY <1>2 DEF Record, Stop
  <2> QED
    BY <1>1, <1>2, <2>1, StopHome
<1>3. CASE ~Stop /\ phase = "up"
  <2>1. BoundHome(k)
    BY <1>3 DEF AtHome
  <2>2. Steady(k) /\ phase' = "up"
    BY <1>1, <1>3, <2>1, UpStepHome
  <2>3. BoundHome(k)'
    BY <1>1, <2>1, <2>2, SteadyAtHome
  <2> QED
    BY <2>2, <2>3 DEF AtHome
<1>4. CASE ~Stop /\ phase # "up"
  BY <1>4, ByPhase, BootStepHome
<1> QED
  BY <1>2, <1>3, <1>4

LEMMA StepOrders ==
  ASSUME CoreInv, AdminOrders, Step
  PROVE  AdminOrders'
<1>0. adm \in AdminType
  BY DEF CoreInv, TasksTypeOK, AdminOK
<1>1. CASE adm' = adm
  BY <1>1 DEF AdminOrders
<1>2. CASE Stop
  BY <1>2, StopQuiet
<1>3. ASSUME NEW j \in Key, NEW t, NEW s,
             \/ Import(j, t) \/ PatchTier(j, t) \/ PatchStatus(j, s)
             \/ Rebind(j) \/ Delete(j)
      PROVE  AdminOrders'
  BY <1>3 DEF Import, PatchTier, PatchStatus, Rebind, Delete, Begin, IdleAdmin,
              AdminOrders
<1>4. CASE AdminStep
  <2>1. AfterBind.pc \in {"idle", "reload"}
    BY <1>0 DEF AfterBind, IdleAdmin, AdminType
  <2>2. CASE AdminRefresh
    BY <1>0, <2>2 DEF AdminRefresh, IdleAdmin, AdminOrders, AdminType
  <2>3. CASE AdminUnbind \/ AdminRelease
    BY <1>0, <2>3 DEF AdminUnbind, AdminRelease, AdminOrders, AdminType
  <2>4. CASE AdminBind
    <3>1. adm'.pc \in {"idle", "reload", "persist"}
      BY <1>0, <2>1, <2>4 DEF AdminBind, AdminType
    <3> QED
      BY <3>1 DEF AdminOrders
  <2>5. CASE AdminPersist
    BY <2>1, <2>5 DEF AdminPersist, AdminOrders
  <2>6. CASE AdminReload
    BY <2>6 DEF AdminReload, IdleAdmin, AdminOrders
  <2> QED
    BY <1>4, <2>2, <2>3, <2>4, <2>5, <2>6 DEF AdminStep
<1>5. ASSUME NEW w \in Worker, NEW j,
             WorkerStep(w) \/ Select(w, j) \/ Probe(w, j)
      PROVE  adm' = adm
  BY <1>5 DEF WorkerStep, Lookup, BindKey, Create, Compare, Persist, Send, Succeed,
         FailFaulty, FailUnrelated, FailAuth, Guard, Ban, ListKeys,
         EvacuateUnbind, EvacuateBind, EvacuatePersist, EvacuateEnd,
         EndRefused, others, Select, Probe
<1>6. ASSUME NEW a, RecStep \/ KeyReload \/ BootStep \/ Unban(a) \/ Verify(a)
      PROVE  adm' = adm
  BY <1>6 DEF RecStep, RecList, RecRelease, RecCompare, RecWrite, bystanders,
         KeyReload, BootStep, Start, RestoreKey, Serve, Unban, Verify
<1> QED
  BY <1>1, <1>2, <1>3, <1>4, <1>5, <1>6 DEF Step

(* A process that serves goes on until it is stopped.                      *)
LEMMA UpStays ==
  ASSUME Step, phase = "up", ~Stop
  PROVE  phase' = "up"
<1>1. ~BootStep
  BY ByPhase
<1>2. ASSUME NEW w \in Worker, NEW j,
             WorkerStep(w) \/ Select(w, j) \/ Probe(w, j)
      PROVE  phase' = phase
  BY <1>2 DEF WorkerStep, Lookup, BindKey, Create, Compare, Persist, Send, Succeed,
         FailFaulty, FailUnrelated, FailAuth, Guard, Ban, ListKeys,
         EvacuateUnbind, EvacuateBind, EvacuatePersist, EvacuateEnd,
         EndRefused, others, ctlVars, Select, Probe
<1>3. ASSUME NEW j \in Key, NEW t, NEW s,
             \/ Import(j, t) \/ PatchTier(j, t) \/ PatchStatus(j, s)
             \/ Rebind(j) \/ Delete(j)
      PROVE  phase' = phase
  BY <1>3 DEF Import, PatchTier, PatchStatus, Rebind, Delete, ctlVars
<1>4. ASSUME NEW a, AdminStep \/ RecStep \/ KeyReload \/ Unban(a) \/ Verify(a)
      PROVE  phase' = phase
  BY <1>4 DEF AdminStep, AdminRefresh, AdminUnbind, AdminBind, AdminPersist,
     AdminRelease, AdminReload, RecStep, RecList, RecRelease, RecCompare,
     RecWrite, bystanders, ctlVars, KeyReload, Unban, Verify
<1> QED
  BY <1>1, <1>2, <1>3, <1>4 DEF Step

LEMMA StepQuiet ==
  ASSUME CoreInv, Quiet, Step
  PROVE  Quiet'
<1>1. CASE phase = "up" /\ ~Stop
  BY <1>1, UpStays DEF Quiet
<1>2. CASE Stop
  BY <1>2, StopQuiet
<1>3. CASE phase # "up" /\ ~Stop
  BY <1>3, ByPhase, QuietKept
<1> QED
  BY <1>1, <1>2, <1>3

LEMMA InitHome == Init => HomeInv
<1> SUFFICES ASSUME Init PROVE HomeInv
  OBVIOUS
<1>1. IInv
  BY InitCoreInv DEF Init, IInv
<1>2. Quiet /\ AdminOrders
  BY DEF Init, PoolInit, Quiet, AdminOrders, IdleAdmin
<1>3. \A k \in Key : AtHome(k)
  BY DEF Init, AtHome, RecordedHome
<1> QED
  BY <1>1, <1>2, <1>3 DEF HomeInv

LEMMA StutterHome ==
  ASSUME HomeInv, UNCHANGED vars
  PROVE  HomeInv'
<1>1. IInv'
  BY StutterSafe DEF HomeInv
<1>2. /\ UNCHANGED <<binding, client, state>>
      /\ UNCHANGED <<row, phase, restore, wk, adm, sentFrom, moved, dormant>>
  BY DEF vars, poolVars, ctlVars, histVars
<1>3. Quiet' /\ AdminOrders'
  BY <1>2 DEF HomeInv, Quiet, AdminOrders
<1>4. ASSUME NEW k \in Key, AtHome(k)
      PROVE  AtHome(k)'
  BY <1>2, <1>4 DEF AtHome, BoundHome, RecordedHome
<1> QED
  BY <1>1, <1>2, <1>3, <1>4 DEF HomeInv

(* HomeInv is inductive: a key leaves its home only with one of the causes *)
(* of moved, or by being banned when the process ends.                     *)
THEOREM HomeInvariant == Spec => []HomeInv
<1>1. HomeInv /\ [Next]_vars => HomeInv'
  <2> SUFFICES ASSUME HomeInv, [Next]_vars PROVE HomeInv'
    OBVIOUS
  <2>1. CASE Next
    <3>1. CoreInv /\ CoreInv' /\ Step /\ Record
      BY <2>1, StepSafe DEF Next, HomeInv, IInv
    <3>2. IInv'
      BY <3>1, RecordType DEF HomeInv, IInv
    <3>3. Quiet' /\ AdminOrders'
      BY <3>1, StepQuiet, StepOrders DEF HomeInv
    <3>4. ASSUME NEW k \in Key, k \notin (moved \cup dormant)'
          PROVE  AtHome(k)'
      <4>1. k \notin moved \cup dormant
        BY <3>1, <3>4 DEF Record
      <4>2. AtHome(k)
        BY <4>1 DEF HomeInv
      <4> QED
        BY <3>1, <3>4, <4>2, StepHome DEF HomeInv
    <3> QED
      BY <3>2, <3>3, <3>4 DEF HomeInv
  <2>2. CASE UNCHANGED vars
    BY <2>2, StutterHome
  <2> QED
    BY <2>1, <2>2
<1> QED
  BY <1>1, InitHome, PTL DEF Spec

LEMMA OneAddress ==
  ASSUME NEW a, NEW S, S \subseteq {a}
  PROVE  Cardinality(S) <= 1
<1>1. IsFiniteSet({a}) /\ Cardinality({a}) = 1
  BY FS_Singleton
<1> QED
  BY <1>1, FS_Subset

(* Every request of a key leaves from one address, for life: through       *)
(* restarts, imports, bans of keys, full addresses, evacuations of other   *)
(* addresses and races of requests with the tasks, unless its address was  *)
(* banned, the operator moved or deleted it, its binding was released on a *)
(* list that did not have it, the process ended before its address was     *)
(* recorded, or it was banned when the process ended.                      *)
THEOREM AddressForLife == Spec => []LifelongAddress
<1>1. HomeInv => LifelongAddress
  <2> SUFFICES ASSUME HomeInv, NEW k \in Key, k \notin moved \cup dormant
               PROVE  Cardinality(sentFrom[k]) <= 1
    BY DEF LifelongAddress
  <2>1. AtHome(k)
    BY DEF HomeInv
  <2>2. sentFrom[k] \subseteq {binding[k]} \/ sentFrom[k] \subseteq {row[k].egress}
    BY <2>1 DEF AtHome, BoundHome, RecordedHome
  <2> QED
    BY <2>2, OneAddress
<1> QED
  BY <1>1, HomeInvariant, PTL

-----------------------------------------------------------------------------
(***************************************************************************)
(* EgressBinding implements AddressBook.                                   *)
(***************************************************************************)
Excused == moved \cup dormant

(* A start begins with an empty pool, and binds each key once.             *)
Unrestored ==
  /\ phase = "down" => \A k \in Key : binding[k] = None
  /\ phase = "restoring" => \A k \in restore : binding[k] = None

BookInv == HomeInv /\ Unrestored

LEMMA StepUnrestored ==
  ASSUME CoreInv, Unrestored, Step
  PROVE  Unrestored'
<1>0. binding \in [Key -> AddrOrNone] /\ restore \in SUBSET Key
  BY DEF CoreInv, MapTypeOK, TablesTypeOK
<1>1. CASE Stop
  BY <1>1 DEF Stop, PoolReset, Unrestored
<1>2. CASE phase = "up" /\ ~Stop
  BY <1>2, UpStays DEF Unrestored
<1>3. CASE Start
  <2>1. phase = "down" /\ phase' = "restoring" /\ restore' = Active /\ binding' = binding
    BY <1>3 DEF Start, poolVars
  <2> QED
    BY <2>1 DEF Unrestored, Active
<1>4. ASSUME NEW j \in Key, RestoreKey(j)
      PROVE  Unrestored'
  <2>1. phase = "restoring" /\ phase' = phase /\ restore' = restore \ {j}
    BY <1>4 DEF RestoreKey
  <2>2. ASSUME NEW k \in Key, k # j
        PROVE  binding'[k] = binding[k]
    BY <1>0, <1>4, <2>2 DEF RestoreKey, Adopt, BindInPool, DropBanned, mapVars
  <2> QED
    BY <1>0, <2>1, <2>2 DEF Unrestored
<1>5. CASE Serve
  <2>1. /\ binding' = binding /\ restore = {} /\ restore' = {}
        /\ phase' = "down" => \A k \in Key : binding[k] = None
    BY <1>5 DEF Serve, poolVars
  <2> QED
    BY <2>1 DEF Unrestored
<1> QED
  BY <1>1, <1>2, <1>3, <1>4, <1>5, ByPhase DEF BootStep

(* Where a key is at home, and that a start finds no binding to replace    *)
(* (restoreBindings, main.go:547), in every reachable state.               *)
THEOREM BookInvariant == Spec => []BookInv
<1>1. Init => Unrestored
  BY DEF Init, PoolInit, Unrestored
<1>2. HomeInv /\ Unrestored /\ [Next]_vars => Unrestored'
  <2>1. CASE UNCHANGED vars
    BY <2>1 DEF vars, poolVars, ctlVars, Unrestored
  <2> QED
    BY <2>1, StepUnrestored DEF Next, HomeInv, IInv
<1> QED
  BY <1>1, <1>2, HomeInvariant, PTL DEF Spec, BookInv

(* Whoever loses the address to a ban is excused: that is what moved says. *)
(* The rest is a change of bindings that only excused keys notice.         *)
LEMMA BookDisturb ==
  ASSUME CoreInv', Record, UNCHANGED sentFrom, (phase' = "up") = (phase = "up"),
         \A k \in Key : \/ binding'[k] = binding[k]
                        \/ binding'[k] = None /\ k \in Excused'
  PROVE  Book!Disturb
<1>1. ASSUME NEW k \in Key, NEW a \in Addr, state[a] # "banned", state'[a] = "banned",
             a = binding[k] \/ a \in sentFrom[k]
      PROVE  k \in Excused'
  BY <1>1 DEF BannedHomes, Record, Excused
<1>2. binding' \in [Key -> Addr \cup {None}]
  BY DEF CoreInv, MapTypeOK, AddrOrNone
<1> QED
  BY <1>1, <1>2 DEF Book!Disturb, Excused

(* Keys on an address, as the pool counts them.                            *)
LEMMA BookOthers ==
  ASSUME NEW k, NEW a
  PROVE  Book!Others(k, a) = KeysOn(a) \ {k}
BY DEF Book!Others, KeysOn

(* BindInPool assigns, or at most drops a binding to a banned address.     *)
LEMMA BookBind ==
  ASSUME CoreInv, CoreInv', Record, UNCHANGED <<sentFrom, state>>,
         (phase' = "up") = (phase = "up"),
         NEW j, NEW t, NEW addr \in AddrOrNone, BindInPool(j, t, addr),
         j \in Key /\ j \notin Excused /\ ~Keeps(j) => sentFrom[j] = {},
         \A k \in Key \ Excused' :
            binding'[k] = binding[k] \/ binding'[k] \in Addr
  PROVE  (\E k \in Key, a \in Addr : Book!Assign(k, a)) \/ Book!Disturb
<1>0. /\ binding \in [Key -> AddrOrNone] /\ None \notin Addr
  BY PoolAssumption DEF CoreInv, MapTypeOK, PoolAssumption
<1>1. CASE Keeps(j) /\ UNCHANGED mapVars
  BY <1>1, BookDisturb DEF mapVars
<1>2. CASE j \notin Key /\ DropBanned(j, addr)
  <2>1. binding' = binding
    BY <1>0, <1>2 DEF DropBanned
  <2> QED
    BY <2>1, BookDisturb
<1>3. CASE j \in Key /\ addr = None /\ DropBanned(j, None)
  <2>1. ASSUME NEW k \in Key
        PROVE  binding'[k] = binding[k] \/ (binding'[k] = None /\ k \in Excused')
    <3>1. binding'[k] = binding[k] \/ binding'[k] = None
      BY <1>0, <1>3 DEF DropBanned
    <3> QED
      BY <1>0, <3>1
  <2> QED
    BY <2>1, BookDisturb
<1>4. CASE /\ j \in Key /\ ~Keeps(j) /\ addr \in Candidates(j, t)
           /\ DropBanned(j, addr)
  <2>1. /\ addr \in Addr /\ state[addr] = "active"
        /\ Cardinality(KeysOn(addr) \ {j}) < MaxKeys[addr]
    BY <1>4 DEF Candidates, Assignable
  <2>2. binding[j] = None \/ (binding[j] \in Addr /\ state[binding[j]] = "banned")
    BY <1>0, <1>4 DEF Keeps, AddrOrNone
  <2>3. binding' = [binding EXCEPT ![j] = addr]
    BY <1>4 DEF DropBanned
  <2>4. j \notin Excused => sentFrom[j] \subseteq {addr}
    BY <1>4
  <2>5. Book!Cardinality(Book!Others(j, addr)) < MaxKeys[addr]
    BY <2>1, BookOthers DEF Book!Cardinality, Cardinality
  <2>6. {a \in Addr : state'[a] = "banned"} = {a \in Addr : state[a] = "banned"}
    OBVIOUS
  <2>7. addr \notin {a \in Addr : state[a] = "banned"}
    BY <2>1
  <2>8. binding[j] \in {a \in Addr : state[a] = "banned"} \cup {None}
    BY <2>2
  <2>9. Book!Assign(j, addr)
    BY <2>1, <2>3, <2>4, <2>5, <2>6, <2>7, <2>8 DEF Book!Assign, Excused
  <2> QED
    BY <1>4, <2>1, <2>9
<1> QED
  BY <1>1, <1>2, <1>3, <1>4 DEF BindInPool

-----------------------------------------------------------------------------
(* What a step of the serving process does to bindings and requests: one   *)
(* BindInPool, one request sent, or nothing but keys losing their address. *)
LEMMA UpStepShape ==
  ASSUME CoreInv, phase = "up", Step, ~Stop
  PROVE  \/ \E j, t : \E addr \in AddrOrNone :
              BindInPool(j, t, addr) /\ UNCHANGED <<sentFrom, state>>
         \/ \E w \in Worker : Send(w)
         \/ /\ UNCHANGED sentFrom
            /\ \A k \in Key : binding'[k] \in {binding[k], None}
<1> DEFINE Bound == \E j, t : \E addr \in AddrOrNone :
                       BindInPool(j, t, addr) /\ UNCHANGED <<sentFrom, state>>
<1> DEFINE Lost == /\ UNCHANGED sentFrom
                   /\ \A k \in Key : binding'[k] \in {binding[k], None}
<1>0. binding \in [Key -> AddrOrNone] /\ ~BootStep
  BY ByPhase DEF CoreInv, MapTypeOK
<1>1. ASSUME UNCHANGED <<binding, sentFrom>>
      PROVE  Lost
  BY <1>1
<1>2. ASSUME NEW j, Unbind(j), UNCHANGED sentFrom
      PROVE  Lost
  BY <1>0, <1>2 DEF Unbind
<1>3. ASSUME NEW w \in Worker, WorkerStep(w)
      PROVE  Bound \/ Send(w) \/ Lost
  <2>1. CASE BindKey(w) \/ EvacuateBind(w)
    BY <2>1 DEF BindKey, EvacuateBind, markVars, others
  <2>2. CASE EvacuateUnbind(w)
    BY <1>2, <2>2 DEF EvacuateUnbind, others
  <2>3. CASE Create(w)
    BY <2>3 DEF Create, CreateClient, others
  <2> HIDE DEF Bound
  <2> QED
    BY <1>1, <1>3, <2>1, <2>2, <2>3
       DEF WorkerStep, Lookup, Compare, Persist, Succeed, FailFaulty,
           FailUnrelated, FailAuth, Guard, Ban, ListKeys, EvacuatePersist,
           EvacuateEnd, mapVars, poolVars, others
<1>4. ASSUME NEW w \in Worker, NEW j \in Key, Select(w, j) \/ Probe(w, j)
      PROVE  Lost
  BY <1>1, <1>4 DEF Select, Probe, poolVars
<1>5. ASSUME NEW j \in Key, NEW t, NEW s,
             \/ Import(j, t) \/ PatchTier(j, t) \/ PatchStatus(j, s)
             \/ Rebind(j) \/ Delete(j)
      PROVE  Lost
  BY <1>1, <1>2, <1>5 DEF Import, PatchTier, PatchStatus, Rebind, Delete, poolVars
<1>6. ASSUME AdminStep
      PROVE  Bound \/ Lost
  <2>1. CASE AdminBind
    BY <2>1 DEF AdminBind, markVars
  <2> HIDE DEF Bound
  <2> QED
    BY <1>1, <1>2, <1>6, <2>1
       DEF AdminStep, AdminRefresh, AdminUnbind, AdminPersist, AdminRelease,
           AdminReload, poolVars
<1>7. ASSUME RecStep
      PROVE  Bound \/ Lost
  <2>1. CASE RecRelease
    BY <1>0, <2>1 DEF RecRelease, ReleaseBindings, bystanders
  <2> HIDE DEF Bound
  <2> QED
    BY <1>1, <1>7, <2>1 DEF RecStep, RecList, RecCompare, RecWrite, poolVars, bystanders
<1>8. ASSUME NEW a, KeyReload \/ Unban(a) \/ Verify(a)
      PROVE  Lost
  BY <1>1, <1>8 DEF KeyReload, RetainClients, Unban, Verify, mapVars
<1> HIDE DEF Bound, Lost
<1>9. Bound \/ (\E w \in Worker : Send(w)) \/ Lost
  <2>1. CASE \E w \in Worker : WorkerStep(w)
    BY <1>3, <2>1
  <2>2. CASE \E w \in Worker, k \in Key : Select(w, k) \/ Probe(w, k)
    BY <1>4, <2>2
  <2>3. CASE \/ \E k \in Key, t \in Tier : Import(k, t) \/ PatchTier(k, t)
             \/ \E k \in Key, s \in {"active", "banned"} : PatchStatus(k, s)
             \/ \E k \in Key : Rebind(k) \/ Delete(k)
    BY <1>5, <2>3
  <2>4. CASE KeyReload \/ \E a \in Addr : Unban(a) \/ Verify(a)
    BY <1>8, <2>4
  <2> QED
    BY <1>0, <1>6, <1>7, <2>1, <2>2, <2>3, <2>4 DEF Step
<1> QED
  BY <1>9 DEF Bound, Lost

(* A key that is not excused after the step keeps its address, or gets its *)
(* first one.                                                              *)
LEMMA NotExcusedKeeps ==
  ASSUME HomeInv, Step, Record, phase = "up", ~Stop, NEW k \in Key \ Excused'
  PROVE  binding'[k] = binding[k] \/ binding'[k] \in Addr
<1>1. k \notin Excused /\ k \notin Ordered /\ k \notin Released
  BY DEF Record, Excused
<1>2. BoundHome(k)
  BY <1>1 DEF HomeInv, AtHome, Excused
<1>3. Steady(k)
  BY <1>1, <1>2, UpStepHome DEF HomeInv, IInv
<1> QED
  BY <1>3 DEF Steady, PoolKept

(* The serving process.                                                    *)
LEMMA BookUp ==
  ASSUME HomeInv, CoreInv', Step, Record, phase = "up", ~Stop
  PROVE  (\E k \in Key, a \in Addr : Book!Assign(k, a) \/ Book!Send(k, a))
         \/ Book!Disturb
<1>0. /\ CoreInv /\ phase' = "up" /\ (phase' = "up") = (phase = "up")
      /\ None \notin Addr
  BY UpStays, PoolAssumption DEF HomeInv, IInv, PoolAssumption
<1>1. \A k \in Key \ Excused' : binding'[k] = binding[k] \/ binding'[k] \in Addr
  BY NotExcusedKeeps
<1>2. ASSUME NEW j, NEW t, NEW addr \in AddrOrNone,
             BindInPool(j, t, addr), UNCHANGED <<sentFrom, state>>
      PROVE  (\E k \in Key, a \in Addr : Book!Assign(k, a)) \/ Book!Disturb
  <2>1. ASSUME j \in Key, j \notin Excused, ~Keeps(j)
        PROVE  sentFrom[j] = {}
    <3>1. BoundHome(j)
      BY <2>1 DEF HomeInv, AtHome, Excused
    <3>2. binding[j] = None /\ sentFrom[j] \subseteq Addr
      BY <1>0, <2>1, <3>1 DEF Keeps, BoundHome, CoreInv, SentTypeOK
    <3> QED
      BY <1>0, <3>1, <3>2 DEF BoundHome
  <2> QED
    BY <1>0, <1>1, <1>2, <2>1, BookBind
<1>3. ASSUME NEW w \in Worker, Send(w)
      PROVE  \E k \in Key, a \in Addr : Book!Send(k, a)
  <2> DEFINE k == wk[w].key
  <2> DEFINE a == wk[w].addr
  <2>1. /\ wk[w].pc = "send" /\ sentFrom' = [sentFrom EXCEPT ![k] = @ \cup {a}]
        /\ UNCHANGED <<binding, state>>
    BY <1>3 DEF Send, At, poolVars
  <2>2. k \in Key /\ a \in Addr
    BY <1>0, <2>1, WorkerFacts DEF WorkerOK, Holding
  <2>3. ASSUME k \notin Excused PROVE a = binding[k]
    <3>1. BoundHome(k)
      BY <2>2, <2>3 DEF HomeInv, AtHome, Excused
    <3> QED
      BY <2>1, <3>1 DEF BoundHome, WorkerHome
  <2> HIDE DEF k, a
  <2>4. Book!Send(k, a)
    BY <1>0, <2>1, <2>2, <2>3 DEF Book!Send, Excused
  <2> QED
    BY <2>2, <2>4
<1>4. ASSUME UNCHANGED sentFrom, \A k \in Key : binding'[k] \in {binding[k], None}
      PROVE  Book!Disturb
  <2>1. \A k \in Key : \/ binding'[k] = binding[k]
                       \/ binding'[k] = None /\ k \in Excused'
    BY <1>0, <1>1, <1>4
  <2> QED
    BY <1>0, <1>4, <2>1, BookDisturb
<1> QED
  BY <1>0, <1>2, <1>3, <1>4, UpStepShape

(* The start: a key goes back to the recorded address, full or not, and a  *)
(* key that has none of its own or cannot go back has sent nothing, or is  *)
(* excused.                                                                *)
LEMMA BookRestore ==
  ASSUME BookInv, CoreInv', Record, NEW j \in Key, RestoreKey(j)
  PROVE  (\E k \in Key, a \in Addr : Book!Assign(k, a) \/ Book!Return(k, a))
         \/ Book!Disturb
<1>0. /\ CoreInv /\ Quiet /\ None \notin Addr
      /\ phase = "restoring" /\ j \in restore /\ UNCHANGED <<phase, sentFrom, state>>
      /\ binding \in [Key -> AddrOrNone]
  BY PoolAssumption DEF BookInv, HomeInv, IInv, PoolAssumption, RestoreKey, markVars,
                        CoreInv, MapTypeOK
<1>1. binding[j] = None
  BY <1>0 DEF BookInv, Unrestored
<1>2. ASSUME j \notin Excused PROVE RecordedHome(j)
  BY <1>0, <1>2 DEF BookInv, HomeInv, AtHome, Excused
<1>3. CASE Adoptable(row[j].egress, row[j].tier)
  <2> DEFINE a == row[j].egress
  <2>1. /\ a \in Addr /\ state[a] # "banned" /\ binding' = [binding EXCEPT ![j] = a]
    BY <1>3 DEF RestoreKey, Adoptable, Adopt
  <2>2. j \notin Excused => sentFrom[j] \subseteq {a}
    BY <1>2 DEF RecordedHome
  <2> HIDE DEF a
  <2>3. Book!Return(j, a)
    BY <1>0, <1>1, <2>1, <2>2 DEF Book!Return, Excused
  <2> QED
    BY <2>1, <2>3
<1>4. CASE ~Adoptable(row[j].egress, row[j].tier)
  <2>1. PICK addr \in AddrOrNone : BindInPool(j, row[j].tier, addr)
    BY <1>4 DEF RestoreKey
  <2>2. j \notin Excused => sentFrom[j] = {}
    BY <1>0, <1>2, <1>4 DEF RecordedHome, Quiet, Adoptable
  <2>3. \A k \in Key \ Excused' : binding'[k] = binding[k] \/ binding'[k] \in Addr
    BY <1>0, <1>1, <2>1
       DEF BindInPool, DropBanned, mapVars, Candidates, AddrOrNone
  <2> QED
    BY <1>0, <2>1, <2>2, <2>3, BookBind
<1> QED
  BY <1>3, <1>4

(* The end of the process.                                                 *)
LEMMA BookStop ==
  ASSUME Stop
  PROVE  Book!Crash
BY DEF Stop, PoolReset, Book!Crash

LEMMA BookBoot ==
  ASSUME BookInv, CoreInv', Record, BootStep
  PROVE  (\E k \in Key, a \in Addr : Book!Assign(k, a) \/ Book!Return(k, a))
         \/ Book!Open \/ Book!Disturb
<1>1. CASE Start
  <2>1. UNCHANGED <<binding, sentFrom>> /\ (phase' = "up") = (phase = "up")
    BY <1>1 DEF Start, poolVars
  <2> QED
    BY <2>1, BookDisturb
<1>2. CASE Serve
  <2>1. /\ UNCHANGED <<binding, state, sentFrom>>
        /\ phase = "restoring" /\ phase' \in {"down", "up"}
    BY <1>2 DEF Serve, poolVars
  <2>2. CASE phase' = "up"
    BY <2>1, <2>2 DEF Book!Open
  <2>3. CASE phase' = "down"
    BY <2>1, <2>3, BookDisturb
  <2> QED
    BY <2>1, <2>2, <2>3
<1>3. ASSUME NEW j \in Key, RestoreKey(j)
      PROVE  (\E k \in Key, a \in Addr : Book!Assign(k, a) \/ Book!Return(k, a))
             \/ Book!Disturb
  BY <1>3, BookRestore
<1> QED
  BY <1>1, <1>2, <1>3 DEF BootStep

LEMMA BookNext ==
  ASSUME BookInv, BookInv', Step, Record
  PROVE  Book!Next
<1>1. HomeInv /\ CoreInv'
  BY DEF BookInv, HomeInv, IInv
<1>2. Excused \subseteq Excused' /\ Excused' \subseteq Key
  BY DEF Record, Excused, BookInv, HomeInv, IInv
<1>3. CASE Stop
  BY <1>2, <1>3, BookStop DEF Book!Next, Excused
<1>4. CASE phase = "up" /\ ~Stop
  BY <1>1, <1>2, <1>4, BookUp DEF Book!Next, Excused
<1>5. CASE phase # "up" /\ ~Stop
  BY <1>1, <1>2, <1>5, ByPhase, BookBoot DEF Book!Next, Excused
<1> QED
  BY <1>3, <1>4, <1>5

(* The gateway implements the book of addresses: start, requests, probes,  *)
(* operator, tasks and stop together, interleaved in any order, do nothing *)
(* that the book does not allow.                                           *)
THEOREM BookImplemented == Spec => ImplementsBook
<1>1. Init => Book!Init
  BY DEF Init, PoolInit, Book!Init
<1>2. BookInv /\ BookInv' /\ [Next]_vars => [Book!Next]_(Book!vars)
  <2>1. CASE Next
    BY <2>1, BookNext DEF Next
  <2>2. CASE UNCHANGED vars
    BY <2>2 DEF vars, poolVars, ctlVars, histVars, Book!vars
  <2> QED
    BY <2>1, <2>2
<1> QED
  BY <1>1, <1>2, BookInvariant, PTL DEF Spec, ImplementsBook, Book!Spec
=============================================================================
