------------------------ MODULE EgressBindingProofs ------------------------
(***************************************************************************)
(* Proofs about EgressBinding, for every set of keys, addresses and        *)
(* workers, every hash and every capacity: addresses carry no more keys    *)
(* than they have room for (CapacityRespected), and no key stays behind on *)
(* a banned address (EvacuationComplete).                                  *)
(***************************************************************************)
EXTENDS EgressBinding, FiniteSetTheorems, TLAPS

(* What the maps of the pool hold.  Whatever a caller passes as key, only  *)
(* keys get entries.                                                       *)
MapTypeOK ==
  /\ binding \in [Key -> AddrOrNone]
  /\ client \in [Key -> AddrOrNone]
  /\ adopted \in SUBSET Key

(* No address that is banned now gets a key: the keys on it can only       *)
(* become fewer.                                                           *)
BannedOnlyLose ==
  \A a \in Addr : state[a] = "banned" => KeysOn(a)' \subseteq KeysOn(a)

LEMMA KeysOnFinite ==
  ASSUME NEW S, NEW T, S \subseteq T, T \subseteq Key
  PROVE  /\ IsFiniteSet(S) /\ Cardinality(S) \in Nat
         /\ IsFiniteSet(T) /\ Cardinality(T) \in Nat
         /\ Cardinality(S) <= Cardinality(T)
<1>1. IsFiniteSet(Key)
  BY PoolAssumption DEF PoolAssumption
<1>2. IsFiniteSet(T)
  BY <1>1, FS_Subset
<1> QED
  BY <1>2, FS_Subset, FS_CardinalityType

(* A step that binds no key anew and adopts none back keeps the capacity:  *)
(* on every address the counted keys become fewer.                         *)
LEMMA FewerKeysFit ==
  ASSUME MapTypeOK, CapacityRespected,
         \A a \in Addr : (KeysOn(a) \ adopted)' \subseteq KeysOn(a) \ adopted
  PROVE  CapacityRespected'
<1> SUFFICES ASSUME NEW a \in Addr
             PROVE  Cardinality((KeysOn(a) \ adopted)') <= MaxKeys[a]
  BY DEF CapacityRespected
<1> DEFINE S == (KeysOn(a) \ adopted)'
<1> DEFINE T == KeysOn(a) \ adopted
<1>1. S \subseteq T /\ T \subseteq Key
  BY DEF KeysOn
<1>2. Cardinality(T) <= MaxKeys[a]
  BY DEF CapacityRespected
<1>3. MaxKeys[a] \in Nat
  BY PoolAssumption DEF PoolAssumption
<1> HIDE DEF S, T
<1>4. Cardinality(S) \in Nat /\ Cardinality(T) \in Nat /\ Cardinality(S) <= Cardinality(T)
  BY <1>1, KeysOnFinite
<1>5. Cardinality(S) <= MaxKeys[a]
  BY <1>2, <1>3, <1>4
<1> QED
  BY <1>5 DEF S

(* The binding and the counted keys after a change of one key's binding.   *)
LEMMA OtherKeysKeep ==
  ASSUME MapTypeOK, NEW k, NEW addr,
         binding' = [binding EXCEPT ![k] = addr]
  PROVE  /\ k \in Key => binding'[k] = addr
         /\ \A j \in Key : j # k => binding'[j] = binding[j]
         /\ \A a \in Addr : a # addr => KeysOn(a)' \subseteq KeysOn(a) \ {k}
BY DEF MapTypeOK, KeysOn

(* BindInPool, whichever key and tier it is called with, keeps the maps    *)
(* well formed, respects the capacity and binds nothing to a banned        *)
(* address.                                                                *)
LEMMA BindInPoolSafe ==
  ASSUME MapTypeOK, CapacityRespected,
         NEW k, NEW t, NEW addr \in AddrOrNone, BindInPool(k, t, addr)
  PROVE  MapTypeOK' /\ CapacityRespected' /\ BannedOnlyLose
<1>1. CASE UNCHANGED mapVars
  BY <1>1 DEF mapVars, MapTypeOK, CapacityRespected, BannedOnlyLose, KeysOn
<1>2. CASE /\ Candidates(k, t) # {}
           /\ addr \in Candidates(k, t) \cap Hash(k, Candidates(k, t))
           /\ DropBanned(k, addr)
  <2>1. /\ addr \in Addr /\ Assignable(addr)
        /\ Cardinality(KeysOn(addr) \ {k}) < MaxKeys[addr]
    BY <1>2 DEF Candidates
  <2>2. binding' = [binding EXCEPT ![k] = addr] /\ adopted' = adopted \ {k}
    BY <1>2 DEF DropBanned
  <2>3. MapTypeOK'
    BY <1>2, <2>1 DEF MapTypeOK, DropBanned, AddrOrNone
  <2>4. \A a \in Addr : a # addr => KeysOn(a)' \subseteq KeysOn(a) \ {k}
    BY <2>2, OtherKeysKeep
  <2>5. BannedOnlyLose
    BY <2>1, <2>4 DEF BannedOnlyLose, Assignable
  <2>6. CapacityRespected'
    <3> SUFFICES ASSUME NEW a \in Addr
                 PROVE  Cardinality((KeysOn(a) \ adopted)') <= MaxKeys[a]
      BY DEF CapacityRespected
    <3>1. MaxKeys[a] \in Nat
      BY PoolAssumption DEF PoolAssumption
    <3>2. CASE a = addr
      <4> DEFINE S == (KeysOn(a) \ adopted)'
      <4> DEFINE T == KeysOn(a) \ {k}
      <4>1. S \subseteq T \cup {k} /\ T \subseteq Key
        BY <2>2 DEF KeysOn, MapTypeOK
      <4>2. Cardinality(T) < MaxKeys[a]
        BY <2>1, <3>2
      <4>3. S \subseteq Key
        BY DEF KeysOn
      <4> HIDE DEF S, T
      <4>4. IsFiniteSet(T) /\ Cardinality(T) \in Nat
        BY <4>1, KeysOnFinite
      <4>5. /\ IsFiniteSet(T \cup {k})
            /\ \/ Cardinality(T \cup {k}) = Cardinality(T)
               \/ Cardinality(T \cup {k}) = Cardinality(T) + 1
        BY <4>4, FS_AddElement
      <4>6. Cardinality(S) <= Cardinality(T \cup {k})
        BY <4>1, <4>5, FS_Subset
      <4>7. Cardinality(S) \in Nat
        BY <4>3, KeysOnFinite
      <4>8. Cardinality(S) <= MaxKeys[a]
        BY <3>1, <4>2, <4>4, <4>5, <4>6, <4>7
      <4> QED
        BY <4>8 DEF S
    <3>3. CASE a # addr
      <4> DEFINE S == (KeysOn(a) \ adopted)'
      <4> DEFINE T == KeysOn(a) \ adopted
      <4>1. S \subseteq T /\ T \subseteq Key
        BY <2>2, <2>4, <3>3 DEF KeysOn
      <4>2. Cardinality(T) <= MaxKeys[a]
        BY DEF CapacityRespected
      <4> HIDE DEF S, T
      <4>3. Cardinality(S) \in Nat /\ Cardinality(T) \in Nat /\ Cardinality(S) <= Cardinality(T)
        BY <4>1, KeysOnFinite
      <4>4. Cardinality(S) <= MaxKeys[a]
        BY <3>1, <4>2, <4>3
      <4> QED
        BY <4>4 DEF S
    <3> QED
      BY <3>2, <3>3
  <2> QED
    BY <2>3, <2>5, <2>6
<1>3. CASE addr = None /\ DropBanned(k, None)
  <2>1. binding' = [binding EXCEPT ![k] = None] /\ adopted' = adopted \ {k}
    BY <1>3 DEF DropBanned
  <2>2. MapTypeOK'
    BY <1>3 DEF MapTypeOK, DropBanned, AddrOrNone
  <2>3. None \notin Addr
    BY PoolAssumption DEF PoolAssumption
  <2>4. \A a \in Addr : KeysOn(a)' \subseteq KeysOn(a) \ {k}
    BY <2>1, <2>3, OtherKeysKeep
  <2>5. BannedOnlyLose
    BY <2>4 DEF BannedOnlyLose
  <2>6. \A a \in Addr : (KeysOn(a) \ adopted)' \subseteq KeysOn(a) \ adopted
    BY <2>1, <2>4
  <2> QED
    BY <2>2, <2>5, <2>6, FewerKeysFit
<1> QED
  BY <1>1, <1>2, <1>3 DEF BindInPool

(* Unbind, of a rebinding or a release.                                    *)
LEMMA UnbindSafe ==
  ASSUME MapTypeOK, CapacityRespected, NEW k, Unbind(k)
  PROVE  /\ MapTypeOK' /\ CapacityRespected' /\ BannedOnlyLose
         /\ \A a \in Addr : KeysOn(a)' \subseteq KeysOn(a) \ {k}
<1>1. binding' = [binding EXCEPT ![k] = None] /\ adopted' = adopted \ {k}
  BY DEF Unbind
<1>2. MapTypeOK'
  BY DEF MapTypeOK, Unbind, AddrOrNone
<1>3. None \notin Addr
  BY PoolAssumption DEF PoolAssumption
<1>4. \A a \in Addr : KeysOn(a)' \subseteq KeysOn(a) \ {k}
  BY <1>1, <1>3, OtherKeysKeep
<1>5. \A a \in Addr : (KeysOn(a) \ adopted)' \subseteq KeysOn(a) \ adopted
  BY <1>1, <1>4
<1> QED
  BY <1>2, <1>4, <1>5, FewerKeysFit DEF BannedOnlyLose

(* Adopt does not look at the capacity, and what it binds is not counted.  *)
LEMMA AdoptSafe ==
  ASSUME MapTypeOK, CapacityRespected, NEW k \in Key, NEW addr, NEW t,
         Adoptable(addr, t), Adopt(k, addr)
  PROVE  MapTypeOK' /\ CapacityRespected' /\ BannedOnlyLose
<1>1. addr \in Addr /\ state[addr] # "banned"
  BY DEF Adoptable
<1>2. binding' = [binding EXCEPT ![k] = addr] /\ adopted' = adopted \cup {k}
  BY DEF Adopt
<1>3. MapTypeOK'
  BY <1>1 DEF MapTypeOK, Adopt, AddrOrNone
<1>4. \A j \in Key : j # k => binding'[j] = binding[j]
  BY <1>2, OtherKeysKeep
<1>5. \A a \in Addr : (KeysOn(a) \ adopted)' \subseteq KeysOn(a) \ adopted
  BY <1>2, <1>4 DEF KeysOn
<1>6. BannedOnlyLose
  BY <1>1, <1>2, OtherKeysKeep DEF BannedOnlyLose
<1> QED
  BY <1>3, <1>5, <1>6, FewerKeysFit

(* Steps that leave every binding, and those that only drop some.          *)
LEMMA BindingsKeptSafe ==
  ASSUME MapTypeOK, CapacityRespected, UNCHANGED <<binding, adopted>>,
         client' \in [Key -> AddrOrNone]
  PROVE  MapTypeOK' /\ CapacityRespected' /\ BannedOnlyLose
BY DEF MapTypeOK, CapacityRespected, BannedOnlyLose, KeysOn

LEMMA ReleaseBindingsSafe ==
  ASSUME MapTypeOK, CapacityRespected, NEW keep, ReleaseBindings(keep)
  PROVE  MapTypeOK' /\ CapacityRespected' /\ BannedOnlyLose
<1> DEFINE gone == {k \in Key \ keep : binding[k] # None}
<1>1. /\ binding' = [k \in Key |-> IF k \in gone THEN None ELSE binding[k]]
      /\ client' = [k \in Key |-> IF k \in gone THEN None ELSE client[k]]
      /\ adopted' = adopted \ gone
  BY DEF ReleaseBindings
<1>2. None \notin Addr
  BY PoolAssumption DEF PoolAssumption
<1> HIDE DEF gone
<1>3. MapTypeOK'
  BY <1>1 DEF MapTypeOK, AddrOrNone
<1>4. \A a \in Addr : KeysOn(a)' \subseteq KeysOn(a) \ gone
  BY <1>1, <1>2 DEF KeysOn
<1>5. \A a \in Addr : (KeysOn(a) \ adopted)' \subseteq KeysOn(a) \ adopted
  BY <1>1, <1>4
<1> QED
  BY <1>3, <1>4, <1>5, FewerKeysFit DEF BannedOnlyLose

-----------------------------------------------------------------------------
(***************************************************************************)
(* Status of the addresses.                                                *)
(***************************************************************************)
StateTypeOK ==
  /\ state \in [Addr -> IPState]
  /\ streak \in [Addr -> 0 .. BanStreak]
  /\ reputation \in [Addr -> 0 .. 100]

(* What is banned stays banned; only TryUnban and a restart end a ban.     *)
BansKept == \A a \in Addr : state[a] = "banned" => state'[a] = "banned"

LEMMA LoweredType ==
  ASSUME StateTypeOK, NEW a \in Addr, NEW n \in Nat
  PROVE  Lowered(a, n) \in 0 .. 100
BY DEF StateTypeOK, Lowered

LEMMA MarksSafe ==
  ASSUME StateTypeOK, NEW a \in Addr,
         \/ MarkSuccess(a) \/ MarkFailure(a) \/ MarkBanned(a)
         \/ UNCHANGED markVars
  PROVE  StateTypeOK' /\ BansKept
<1>0. BanStreak \in Nat
  BY PoolAssumption DEF PoolAssumption
<1>1. CASE MarkSuccess(a)
  BY <1>0, <1>1 DEF MarkSuccess, StateTypeOK, BansKept, IPState
<1>2. CASE MarkFailure(a)
  <2> DEFINE n == IF streak[a] < BanStreak THEN streak[a] + 1 ELSE BanStreak
  <2> DEFINE s == FailureState(a, n)
  <2> DEFINE q == IF s = "banned" THEN 0
                  ELSE IF s = "cooldown" THEN Lowered(a, 10) ELSE reputation[a]
  <2>1. /\ state' = [state EXCEPT ![a] = s]
        /\ streak' = [streak EXCEPT ![a] = n]
        /\ reputation' = [reputation EXCEPT ![a] = q]
    BY <1>2 DEF MarkFailure
  <2>2. s \in IPState /\ (state[a] = "banned" => s = "banned")
    BY DEF FailureState, IPState
  <2>3. n \in 0 .. BanStreak
    BY <1>0 DEF StateTypeOK
  <2>4. q \in 0 .. 100
    BY LoweredType DEF StateTypeOK
  <2> HIDE DEF s, n, q
  <2> QED
    BY <2>1, <2>2, <2>3, <2>4 DEF StateTypeOK, BansKept
<1>3. CASE MarkBanned(a)
  <2>1. Lowered(a, 30) \in 0 .. 100
    BY LoweredType
  <2> QED
    BY <1>3, <2>1 DEF MarkBanned, StateTypeOK, BansKept, IPState
<1>4. CASE UNCHANGED markVars
  BY <1>4 DEF markVars, StateTypeOK, BansKept
<1> QED
  BY <1>1, <1>2, <1>3, <1>4

LEMMA PenalizeSafe ==
  ASSUME MapTypeOK, StateTypeOK, NEW k \in Key, Penalize(k)
  PROVE  StateTypeOK' /\ BansKept
<1>1. CASE binding[k] = None
  BY <1>1 DEF Penalize, markVars, StateTypeOK, BansKept
<1>2. CASE binding[k] # None
  <2>1. binding[k] \in Addr
    BY <1>2 DEF MapTypeOK, AddrOrNone
  <2>2. MarkFailure(binding[k])
    BY <1>2 DEF Penalize
  <2> QED
    BY <2>1, <2>2, MarksSafe
<1> QED
  BY <1>1, <1>2

-----------------------------------------------------------------------------
(***************************************************************************)
(* The inductive invariant.                                                *)
(*                                                                         *)
(* A worker's record r is in order, given the states st of the addresses   *)
(* and the bindings bd: the key and the address it works with are known as *)
(* soon as it uses them; once it has marked an address, the address is     *)
(* banned; and once it has listed the keys, every key on the address is    *)
(* still on the list.                                                      *)
(***************************************************************************)
Holding    == {"create", "send", "guard", "ban"}
Evacuation == {"list", "evacuate", "rebind"}

WorkerOK(r, st, bd) ==
  /\ r \in WorkerType
  /\ r.pc # "idle" => r.key \in Key
  /\ r.pc = "rebind" => r.cur \in Key
  /\ r.pc \in Holding \cup {"compare", "persist"} => r.addr \in Addr
  /\ r.pc \in Evacuation => r.addr \in Addr /\ st[r.addr] = "banned"
  /\ r.pc \in {"evacuate", "rebind"} => {k \in Key : bd[k] = r.addr} \subseteq r.todo

AuthTypeOK == authFails \in [Addr -> SUBSET Key]

TablesTypeOK ==
  /\ row \in [Key -> RowType]
  /\ entry \in [Key -> Tier \cup {None}] /\ barred \in SUBSET Key
  /\ phase \in {"down", "restoring", "up"} /\ restore \in SUBSET Key
  /\ used \in BoundType

AdminOK(x) == x \in AdminType /\ (x.pc # "idle" => x.key \in Key)

TasksTypeOK == AdminOK(adm) /\ rec \in RecType

SentTypeOK == sentFrom \in [Key -> SUBSET Addr]

WorkersOK ==
  /\ wk \in [Worker -> WorkerType]
  /\ \A w \in Worker : WorkerOK(wk[w], state, binding)

CoreInv ==
  /\ MapTypeOK /\ StateTypeOK /\ AuthTypeOK
  /\ TablesTypeOK /\ TasksTypeOK /\ SentTypeOK
  /\ WorkersOK /\ CapacityRespected

IInv == CoreInv /\ moved \in SUBSET Key /\ dormant \in SUBSET Key

(* What every step but an unban and a restart does to the pool.            *)
PoolSafe ==
  /\ MapTypeOK' /\ CapacityRespected' /\ BannedOnlyLose
  /\ StateTypeOK' /\ BansKept

LEMMA IInvImplies == IInv => TypeOK /\ CapacityRespected /\ EvacuationComplete
<1> SUFFICES ASSUME IInv PROVE TypeOK /\ CapacityRespected /\ EvacuationComplete
  OBVIOUS
<1>1. PoolTypeOK
  BY DEF IInv, CoreInv, MapTypeOK, StateTypeOK, AuthTypeOK, PoolTypeOK
<1>2. TypeOK
  BY <1>1 DEF IInv, CoreInv, TablesTypeOK, TasksTypeOK, AdminOK, SentTypeOK,
         WorkersOK, TypeOK
<1>3. EvacuationComplete
  BY DEF IInv, CoreInv, WorkersOK, EvacuationComplete, WorkerOK, KeysOn
<1> QED
  BY <1>2, <1>3 DEF IInv, CoreInv

LEMMA IdleOK ==
  ASSUME NEW st, NEW bd
  PROVE  IdleWorker \in WorkerType /\ WorkerOK(IdleWorker, st, bd)
BY DEF IdleWorker, WorkerType, WorkerOK, Holding, Evacuation, AddrOrNone

(* Workers that do not move stay in order.                                 *)
LEMMA OthersOK ==
  ASSUME BannedOnlyLose, BansKept, NEW r, WorkerOK(r, state, binding)
  PROVE  WorkerOK(r, state', binding')
BY DEF WorkerOK, BannedOnlyLose, BansKept, KeysOn, Evacuation

LEMMA WorkersUnmoved ==
  ASSUME WorkersOK, BannedOnlyLose, BansKept, UNCHANGED wk
  PROVE  WorkersOK'
BY OthersOK DEF WorkersOK

LEMMA WorkerMoved ==
  ASSUME WorkersOK, BannedOnlyLose, BansKept, NEW w \in Worker, NEW r,
         WStep(w, r), WorkerOK(r, state', binding')
  PROVE  WorkersOK'
<1>1. r \in WorkerType
  BY DEF WorkerOK
<1>2. wk' \in [Worker -> WorkerType]
  BY <1>1 DEF WorkersOK, WStep
<1>3. \A v \in Worker : WorkerOK(wk'[v], state', binding')
  <2> SUFFICES ASSUME NEW v \in Worker
               PROVE  WorkerOK(wk'[v], state', binding')
    OBVIOUS
  <2>1. CASE v = w
    BY <2>1 DEF WorkersOK, WStep
  <2>2. CASE v # w
    <3>1. wk'[v] = wk[v] /\ WorkerOK(wk[v], state, binding)
      BY <2>2 DEF WorkersOK, WStep
    <3> QED
      BY <3>1, OthersOK
  <2> QED
    BY <2>1, <2>2
<1> QED
  BY <1>2, <1>3 DEF WorkersOK

LEMMA PoolUnchangedSafe ==
  ASSUME CoreInv, UNCHANGED mapVars, UNCHANGED markVars
  PROVE  PoolSafe
<1>1. UNCHANGED <<binding, client, adopted, state, streak, reputation>>
  BY DEF mapVars, markVars
<1>2. client' \in [Key -> AddrOrNone]
  BY <1>1 DEF CoreInv, MapTypeOK
<1>3. MapTypeOK' /\ CapacityRespected' /\ BannedOnlyLose
  BY <1>1, <1>2, BindingsKeptSafe DEF CoreInv
<1> QED
  BY <1>1, <1>3 DEF PoolSafe, CoreInv, StateTypeOK, BansKept

LEMMA MarksPoolSafe ==
  ASSUME CoreInv, UNCHANGED mapVars, StateTypeOK', BansKept
  PROVE  PoolSafe
<1>1. UNCHANGED <<binding, client, adopted>>
  BY DEF mapVars
<1>2. client' \in [Key -> AddrOrNone]
  BY <1>1 DEF CoreInv, MapTypeOK
<1> QED
  BY <1>1, <1>2, BindingsKeptSafe DEF CoreInv, PoolSafe

LEMMA MapsPoolSafe ==
  ASSUME CoreInv, MapTypeOK', CapacityRespected', BannedOnlyLose, UNCHANGED markVars
  PROVE  PoolSafe
BY DEF CoreInv, PoolSafe, markVars, StateTypeOK, BansKept

(* The bounds and the record of the database.                              *)
LEMMA SpendType ==
  ASSUME TablesTypeOK, NEW what, NEW bound,
         \/ what = "requests" /\ bound = MaxRequests
         \/ what = "ops" /\ bound = MaxOps
         \/ what = "faults" /\ bound = MaxFaults
         \/ what = "dbFails" /\ bound = MaxDBFails
         \/ what = "stops" /\ bound = MaxStops,
         Spend(what, bound)
  PROVE  used' \in BoundType
BY BindingAssumption DEF TablesTypeOK, Spend, BoundType, BindingAssumption

LEMMA WriteRecordType ==
  ASSUME TablesTypeOK, NEW k, NEW addr \in AddrOrNone, WriteRecord(k, addr)
  PROVE  row' \in [Key -> RowType] /\ used' \in BoundType
<1>1. CASE UNCHANGED used /\ k \in Listed /\ row' = [row EXCEPT ![k].egress = addr]
  <2>1. [row[k] EXCEPT !.egress = addr] \in RowType
    BY <1>1 DEF TablesTypeOK, Listed, RowType, NoRow
  <2> QED
    BY <1>1, <2>1 DEF TablesTypeOK, Listed
<1>2. CASE UNCHANGED used /\ row' = row
  BY <1>2 DEF TablesTypeOK
<1>3. CASE DBFails
  BY <1>3, SpendType DEF TablesTypeOK, DBFails
<1> QED
  BY <1>1, <1>2, <1>3 DEF WriteRecord

(* Steps that touch neither the tables nor the tasks.                      *)
LEMMA OthersKept ==
  ASSUME CoreInv, UNCHANGED <<row, others, used>>
  PROVE  TablesTypeOK' /\ TasksTypeOK' /\ SentTypeOK'
BY DEF CoreInv, TablesTypeOK, TasksTypeOK, SentTypeOK, others, ctlVars

LEMMA Parts ==
  ASSUME PoolSafe, AuthTypeOK', TablesTypeOK', TasksTypeOK', SentTypeOK', WorkersOK'
  PROVE  CoreInv'
BY DEF PoolSafe, CoreInv

LEMMA PoolVarsKept ==
  ASSUME CoreInv, UNCHANGED poolVars
  PROVE  /\ PoolSafe /\ AuthTypeOK'
         /\ UNCHANGED <<binding, client, adopted, state, authFails>>
<1>1. UNCHANGED mapVars /\ UNCHANGED markVars /\ UNCHANGED authFails
  BY DEF poolVars, mapVars, markVars
<1> QED
  BY <1>1, PoolUnchangedSafe DEF CoreInv, AuthTypeOK, mapVars, markVars

(* A worker's record, taken apart.                                         *)
LEMMA WorkerFacts ==
  ASSUME CoreInv, NEW w \in Worker
  PROVE  wk[w] \in WorkerType /\ WorkerOK(wk[w], state, binding)
BY DEF CoreInv, WorkersOK, WorkerOK

-----------------------------------------------------------------------------
(***************************************************************************)
(* Requests and probes up to the answer.                                   *)
(***************************************************************************)
LEMMA SelectSafe ==
  ASSUME CoreInv, NEW w \in Worker, NEW k \in Key, Select(w, k) \/ Probe(w, k)
  PROVE  CoreInv'
<1> DEFINE r == IF Select(w, k)
                THEN [IdleWorker EXCEPT !.pc = "lookup", !.key = k, !.tier = entry[k]]
                ELSE [IdleWorker EXCEPT !.pc = "lookup", !.key = k, !.probe = TRUE]
<1>1. /\ Spend("requests", MaxRequests)
      /\ UNCHANGED <<poolVars, row, ctlVars, adm, rec, sentFrom>>
  BY DEF Select, Probe
<1>2. WStep(w, r)
  BY DEF Select, Probe
<1>3. r \in WorkerType
  <2>1. Select(w, k) => entry[k] \in Tier
    BY DEF Select, CoreInv, TablesTypeOK
  <2> QED
    BY <2>1, IdleOK DEF IdleWorker, WorkerType
<1>4. r.pc = "lookup" /\ r.key = k
  BY DEF IdleWorker
<1> HIDE DEF r
<1>5. WorkerOK(r, state', binding')
  BY <1>3, <1>4 DEF WorkerOK, Holding, Evacuation
<1>6. PoolSafe /\ AuthTypeOK'
  BY <1>1, PoolVarsKept
<1>7. WorkersOK'
  BY <1>2, <1>5, <1>6, WorkerMoved DEF CoreInv, PoolSafe
<1>8. TablesTypeOK' /\ TasksTypeOK' /\ SentTypeOK'
  BY <1>1, SpendType DEF CoreInv, TablesTypeOK, TasksTypeOK, SentTypeOK, ctlVars
<1> QED
  BY <1>6, <1>7, <1>8, Parts

LEMMA HaveClientOK ==
  ASSUME NEW r \in WorkerType, r.key \in Key, NEW src \in Addr, NEW st, NEW bd
  PROVE  WorkerOK(HaveClient(r, src), st, bd)
<1> DEFINE q == HaveClient(r, src)
<1>1. q \in WorkerType /\ q.pc \in {"send", "compare"} /\ q.key = r.key /\ q.addr = src
  BY DEF HaveClient, WorkerType, AddrOrNone
<1> HIDE DEF q
<1>2. WorkerOK(q, st, bd)
  BY <1>1 DEF WorkerOK, Holding, Evacuation
<1> QED
  BY <1>2 DEF q

LEMMA LookupSafe ==
  ASSUME CoreInv, NEW w \in Worker, Lookup(w)
  PROVE  CoreInv'
<1> DEFINE k == wk[w].key
<1> DEFINE r == [wk[w] EXCEPT !.prev = binding[k]]
<1> DEFINE q == IF client[k] # None THEN HaveClient(r, client[k])
                ELSE [r EXCEPT !.pc = "bind"]
<1>1. /\ wk[w].pc = "lookup" /\ WStep(w, q)
      /\ UNCHANGED <<poolVars, row, others, used>>
  BY DEF Lookup, At
<1>2. wk[w] \in WorkerType /\ k \in Key
  BY <1>1, WorkerFacts DEF WorkerOK
<1>3. binding[k] \in AddrOrNone /\ client[k] \in AddrOrNone
  BY <1>2 DEF CoreInv, MapTypeOK
<1>4. r \in WorkerType /\ r.key = k
  BY <1>2, <1>3 DEF WorkerType
<1> HIDE DEF r, k
<1>5. WorkerOK(q, state', binding')
  <2>1. CASE client[k] # None
    BY <1>2, <1>3, <1>4, <2>1, HaveClientOK DEF AddrOrNone
  <2>2. CASE client[k] = None
    <3> DEFINE b == [r EXCEPT !.pc = "bind"]
    <3>1. b \in WorkerType /\ b.pc = "bind" /\ b.key = k
      BY <1>4 DEF WorkerType
    <3> HIDE DEF b
    <3>2. WorkerOK(b, state', binding')
      BY <1>2, <3>1 DEF WorkerOK, Holding, Evacuation
    <3> QED
      BY <2>2, <3>2 DEF b
  <2> QED
    BY <2>1, <2>2
<1>6. PoolSafe /\ AuthTypeOK'
  BY <1>1, PoolVarsKept
<1> HIDE DEF q
<1>7. WorkersOK'
  BY <1>1, <1>5, <1>6, WorkerMoved DEF CoreInv, PoolSafe
<1> QED
  BY <1>1, <1>6, <1>7, OthersKept, Parts

(* BindInPool called by anyone.                                            *)
LEMMA BindPoolSafe ==
  ASSUME CoreInv, NEW k, NEW t, NEW addr \in AddrOrNone, BindInPool(k, t, addr),
         UNCHANGED markVars
  PROVE  PoolSafe
BY BindInPoolSafe, MapsPoolSafe DEF CoreInv

LEMMA BindKeySafe ==
  ASSUME CoreInv, NEW w \in Worker, BindKey(w)
  PROVE  CoreInv'
<1>1. PICK addr \in AddrOrNone :
        /\ wk[w].pc = "bind"
        /\ BindInPool(wk[w].key, wk[w].tier, addr)
        /\ WStep(w, IF addr = None THEN IdleWorker
                    ELSE [wk[w] EXCEPT !.pc = "create", !.addr = addr])
        /\ UNCHANGED <<markVars, authFails, row, others, used>>
  BY DEF BindKey, At
<1>2. PoolSafe
  BY <1>1, BindPoolSafe
<1>3. WorkersOK'
  <2>1. CASE addr = None
    BY <1>1, <1>2, <2>1, IdleOK, WorkerMoved DEF CoreInv, PoolSafe
  <2>2. CASE addr # None
    <3> DEFINE q == [wk[w] EXCEPT !.pc = "create", !.addr = addr]
    <3>1. wk[w] \in WorkerType /\ wk[w].key \in Key
      BY <1>1, WorkerFacts DEF WorkerOK
    <3>2. q \in WorkerType /\ q.pc = "create" /\ q.key \in Key /\ q.addr \in Addr
      BY <2>2, <3>1 DEF WorkerType, AddrOrNone
    <3>3. WStep(w, q)
      BY <1>1, <2>2
    <3> HIDE DEF q
    <3>4. WorkerOK(q, state', binding')
      BY <3>2 DEF WorkerOK, Holding, Evacuation
    <3> QED
      BY <1>2, <3>3, <3>4, WorkerMoved DEF CoreInv, PoolSafe
  <2> QED
    BY <2>1, <2>2
<1>4. AuthTypeOK'
  BY <1>1 DEF CoreInv, AuthTypeOK
<1> QED
  BY <1>1, <1>2, <1>3, <1>4, OthersKept, Parts

LEMMA CreateSafe ==
  ASSUME CoreInv, NEW w \in Worker, Create(w)
  PROVE  CoreInv'
<1> DEFINE k == wk[w].key
<1>1. /\ wk[w].pc = "create" /\ CreateClient(k, wk[w].addr)
      /\ WStep(w, HaveClient(wk[w], client'[k]))
      /\ UNCHANGED <<markVars, authFails, row, others, used>>
  BY DEF Create, At
<1>2. wk[w] \in WorkerType /\ k \in Key /\ wk[w].addr \in Addr
  BY <1>1, WorkerFacts DEF WorkerOK, Holding
<1>3. /\ client' \in [Key -> AddrOrNone] /\ client'[k] \in Addr
      /\ UNCHANGED <<binding, adopted>>
  BY <1>1, <1>2 DEF CreateClient, CoreInv, MapTypeOK, AddrOrNone
<1>4. PoolSafe
  BY <1>1, <1>3, BindingsKeptSafe, MapsPoolSafe DEF CoreInv
<1>5. WorkerOK(HaveClient(wk[w], client'[k]), state', binding')
  BY <1>2, <1>3, HaveClientOK
<1>6. WorkersOK'
  BY <1>1, <1>4, <1>5, WorkerMoved DEF CoreInv, PoolSafe
<1>7. AuthTypeOK'
  BY <1>1 DEF CoreInv, AuthTypeOK
<1> QED
  BY <1>1, <1>4, <1>6, <1>7, OthersKept, Parts

LEMMA CompareSafe ==
  ASSUME CoreInv, NEW w \in Worker, Compare(w)
  PROVE  CoreInv'
<1> DEFINE bound == binding[wk[w].key]
<1> DEFINE q == IF bound = wk[w].prev THEN [wk[w] EXCEPT !.pc = "send"]
                ELSE [wk[w] EXCEPT !.pc = "persist", !.prev = bound]
<1>1. /\ wk[w].pc = "compare" /\ WStep(w, q)
      /\ UNCHANGED <<poolVars, row, others, used>>
  BY DEF Compare, At
<1>2. wk[w] \in WorkerType /\ wk[w].key \in Key /\ wk[w].addr \in Addr
  BY <1>1, WorkerFacts DEF WorkerOK
<1>3. bound \in AddrOrNone
  BY <1>2 DEF CoreInv, MapTypeOK
<1> HIDE DEF bound
<1>4. q \in WorkerType /\ q.pc \in {"send", "persist"} /\ q.key \in Key /\ q.addr \in Addr
  BY <1>2, <1>3 DEF WorkerType
<1> HIDE DEF q
<1>5. WorkerOK(q, state', binding')
  BY <1>4 DEF WorkerOK, Holding, Evacuation
<1>6. PoolSafe /\ AuthTypeOK'
  BY <1>1, PoolVarsKept
<1>7. WorkersOK'
  BY <1>1, <1>5, <1>6, WorkerMoved DEF CoreInv, PoolSafe
<1> QED
  BY <1>1, <1>6, <1>7, OthersKept, Parts

LEMMA PersistSafe ==
  ASSUME CoreInv, NEW w \in Worker, Persist(w)
  PROVE  CoreInv'
<1> DEFINE q == [wk[w] EXCEPT !.pc = "send"]
<1>1. /\ wk[w].pc = "persist" /\ WriteRecord(wk[w].key, wk[w].prev) /\ WStep(w, q)
      /\ UNCHANGED <<poolVars, others>>
  BY DEF Persist, At
<1>2. /\ wk[w] \in WorkerType /\ wk[w].key \in Key /\ wk[w].addr \in Addr
      /\ wk[w].prev \in AddrOrNone
  BY <1>1, WorkerFacts DEF WorkerOK, WorkerType
<1>3. q \in WorkerType /\ q.pc = "send" /\ q.key \in Key /\ q.addr \in Addr
  BY <1>2 DEF WorkerType
<1> HIDE DEF q
<1>4. WorkerOK(q, state', binding')
  BY <1>3 DEF WorkerOK, Holding, Evacuation
<1>5. PoolSafe /\ AuthTypeOK'
  BY <1>1, PoolVarsKept
<1>6. WorkersOK'
  BY <1>1, <1>4, <1>5, WorkerMoved DEF CoreInv, PoolSafe
<1>7. TablesTypeOK' /\ TasksTypeOK' /\ SentTypeOK'
  BY <1>1, <1>2, WriteRecordType
     DEF CoreInv, TablesTypeOK, TasksTypeOK, SentTypeOK, others, ctlVars
<1> QED
  BY <1>5, <1>6, <1>7, Parts

LEMMA SendSafe ==
  ASSUME CoreInv, NEW w \in Worker, Send(w)
  PROVE  CoreInv'
<1> DEFINE r == wk[w]
<1> DEFINE q == IF r.probe THEN IdleWorker
                ELSE [IdleWorker EXCEPT !.pc = "wait", !.key = r.key]
<1>1. /\ r.pc = "send" /\ WStep(w, q)
      /\ sentFrom' = [sentFrom EXCEPT ![r.key] = @ \cup {r.addr}]
      /\ UNCHANGED <<poolVars, row, ctlVars, adm, rec, used>>
  BY DEF Send, At
<1>2. r \in WorkerType /\ r.key \in Key /\ r.addr \in Addr
  BY <1>1, WorkerFacts DEF WorkerOK, Holding
<1>3. SentTypeOK'
  BY <1>1, <1>2 DEF CoreInv, SentTypeOK
<1>4. WorkerOK(q, state', binding')
  <2>1. CASE r.probe
    BY <2>1, IdleOK
  <2>2. CASE ~r.probe
    <3> DEFINE x == [IdleWorker EXCEPT !.pc = "wait", !.key = r.key]
    <3>1. x \in WorkerType /\ x.pc = "wait" /\ x.key \in Key
      BY <1>2, IdleOK DEF IdleWorker, WorkerType
    <3> HIDE DEF x
    <3>2. WorkerOK(x, state', binding')
      BY <3>1 DEF WorkerOK, Holding, Evacuation
    <3> QED
      BY <2>2, <3>2 DEF x
  <2> QED
    BY <2>1, <2>2
<1> HIDE DEF q
<1>5. PoolSafe /\ AuthTypeOK'
  BY <1>1, PoolVarsKept
<1>6. WorkersOK'
  BY <1>1, <1>4, <1>5, WorkerMoved DEF CoreInv, PoolSafe
<1>7. TablesTypeOK' /\ TasksTypeOK'
  BY <1>1 DEF CoreInv, TablesTypeOK, TasksTypeOK, ctlVars
<1> QED
  BY <1>3, <1>5, <1>6, <1>7, Parts

-----------------------------------------------------------------------------
(***************************************************************************)
(* The answer.                                                             *)
(***************************************************************************)
LEMMA MoveToIdle ==
  ASSUME CoreInv, PoolSafe, NEW w \in Worker, WStep(w, IdleWorker)
  PROVE  WorkersOK'
BY IdleOK, WorkerMoved DEF CoreInv, PoolSafe

LEMMA MapsKept ==
  ASSUME CoreInv, UNCHANGED mapVars
  PROVE  MapTypeOK'
BY DEF CoreInv, MapTypeOK, mapVars

LEMMA SucceedSafe ==
  ASSUME CoreInv, NEW w \in Worker, Succeed(w)
  PROVE  CoreInv'
<1> DEFINE k == wk[w].key
<1> DEFINE a == binding[k]
<1>1. /\ wk[w].pc = "wait" /\ WStep(w, IdleWorker)
      /\ IF a = None THEN UNCHANGED <<markVars, authFails>>
         ELSE MarkSuccess(a) /\ ClearAuthFailure(a, k)
      /\ UNCHANGED <<mapVars, row, others, used>>
  BY DEF Succeed, At
<1>2. k \in Key
  BY <1>1, WorkerFacts DEF WorkerOK
<1>3. a \in AddrOrNone
  BY <1>2 DEF CoreInv, MapTypeOK
<1> HIDE DEF a, k
<1>4. StateTypeOK' /\ BansKept /\ AuthTypeOK'
  <2>1. CASE a = None
    BY <1>1, <2>1 DEF CoreInv, StateTypeOK, BansKept, AuthTypeOK, markVars
  <2>2. CASE a # None
    <3>1. a \in Addr /\ MarkSuccess(a) /\ ClearAuthFailure(a, k)
      BY <1>1, <1>3, <2>2 DEF AddrOrNone
    <3>2. AuthTypeOK'
      BY <3>1 DEF CoreInv, AuthTypeOK, ClearAuthFailure
    <3> QED
      BY <3>1, <3>2, MarksSafe DEF CoreInv
  <2> QED
    BY <2>1, <2>2
<1>5. PoolSafe
  BY <1>1, <1>4, MarksPoolSafe
<1>6. WorkersOK'
  BY <1>1, <1>5, MoveToIdle
<1> QED
  BY <1>1, <1>4, <1>5, <1>6, OthersKept, Parts

LEMMA FailFaultySafe ==
  ASSUME CoreInv, NEW w \in Worker, FailFaulty(w)
  PROVE  CoreInv'
<1>1. /\ wk[w].pc = "wait" /\ WStep(w, IdleWorker) /\ Spend("faults", MaxFaults)
      /\ Penalize(wk[w].key) /\ UNCHANGED <<mapVars, authFails, row, others>>
  BY DEF FailFaulty, At
<1>2. wk[w].key \in Key
  BY <1>1, WorkerFacts DEF WorkerOK
<1>3. StateTypeOK' /\ BansKept
  BY <1>1, <1>2, PenalizeSafe DEF CoreInv
<1>4. PoolSafe
  BY <1>1, <1>3, MarksPoolSafe
<1>5. WorkersOK'
  BY <1>1, <1>4, MoveToIdle
<1>6. AuthTypeOK' /\ TablesTypeOK' /\ TasksTypeOK' /\ SentTypeOK'
  BY <1>1, SpendType
     DEF CoreInv, AuthTypeOK, TablesTypeOK, TasksTypeOK, SentTypeOK, others, ctlVars
<1> QED
  BY <1>4, <1>5, <1>6, Parts

(* A key that is barred, or no longer, beside the pool.                    *)
LEMMA BarredKept ==
  ASSUME CoreInv, barred' \in SUBSET Key,
         UNCHANGED <<row, entry, phase, restore, adm, rec, sentFrom, used>>
  PROVE  TablesTypeOK' /\ TasksTypeOK' /\ SentTypeOK'
BY DEF CoreInv, TablesTypeOK, TasksTypeOK, SentTypeOK

LEMMA FailUnrelatedSafe ==
  ASSUME CoreInv, NEW w \in Worker, FailUnrelated(w)
  PROVE  CoreInv'
<1>1. /\ WStep(w, IdleWorker) /\ barred' \in {barred, barred \ {wk[w].key}}
      /\ UNCHANGED <<poolVars, row, entry, phase, restore, adm, rec, sentFrom, used>>
  BY DEF FailUnrelated
<1>2. PoolSafe /\ AuthTypeOK'
  BY <1>1, PoolVarsKept
<1>3. WorkersOK'
  BY <1>1, <1>2, MoveToIdle
<1>4. barred' \in SUBSET Key
  BY <1>1 DEF CoreInv, TablesTypeOK
<1> QED
  BY <1>1, <1>2, <1>3, <1>4, BarredKept, Parts

LEMMA RefusedBarred ==
  ASSUME CoreInv, NEW w \in Worker, wk[w].pc # "idle", EndRefused(w)
  PROVE  barred' \in SUBSET Key /\ WStep(w, IdleWorker)
BY WorkerFacts DEF EndRefused, WorkerOK, CoreInv, TablesTypeOK

LEMMA FailAuthSafe ==
  ASSUME CoreInv, NEW w \in Worker, FailAuth(w)
  PROVE  CoreInv'
<1> DEFINE k == wk[w].key
<1> DEFINE a == binding[k]
<1> DEFINE q == [wk[w] EXCEPT !.pc = "guard", !.addr = a]
<1>1. /\ wk[w].pc = "wait"
      /\ \/ EndRefused(w) /\ UNCHANGED authFails
         \/ a # None /\ MarkAuthFailure(a, k) /\ WStep(w, q) /\ UNCHANGED barred
         \/ a # None /\ MarkAuthFailure(a, k) /\ EndRefused(w)
      /\ UNCHANGED <<mapVars, markVars, row, entry, phase, restore, adm, rec,
                     sentFrom, used>>
  BY DEF FailAuth, At
<1>2. wk[w] \in WorkerType /\ k \in Key
  BY <1>1, WorkerFacts DEF WorkerOK
<1>3. a \in AddrOrNone
  BY <1>2 DEF CoreInv, MapTypeOK
<1>4. PoolSafe
  BY <1>1, PoolUnchangedSafe
<1>5. ASSUME MarkAuthFailure(a, k) PROVE AuthTypeOK'
  <2> HIDE DEF a, k
  <2>1. PICK old \in SUBSET (authFails[a] \ {k}) :
          authFails' = [authFails EXCEPT ![a] = old \cup {k}]
    BY <1>5 DEF MarkAuthFailure
  <2>2. a \in Addr => old \cup {k} \in SUBSET Key
    BY <1>2, <2>1 DEF CoreInv, AuthTypeOK
  <2> QED
    BY <2>1, <2>2 DEF CoreInv, AuthTypeOK
<1>6. AuthTypeOK'
  BY <1>1, <1>5 DEF CoreInv, AuthTypeOK
<1>7. a # None => WorkerOK(q, state', binding')
  <2> SUFFICES ASSUME a # None PROVE WorkerOK(q, state', binding')
    OBVIOUS
  <2>1. q \in WorkerType /\ q.pc = "guard" /\ q.key \in Key /\ q.addr \in Addr
    BY <1>2, <1>3 DEF WorkerType, AddrOrNone
  <2> HIDE DEF q
  <2> QED
    BY <2>1 DEF WorkerOK, Holding, Evacuation
<1> HIDE DEF q, a, k
<1>8. WorkersOK' /\ barred' \in SUBSET Key
  <2>1. CASE EndRefused(w)
    BY <1>1, <1>4, <2>1, RefusedBarred, MoveToIdle
  <2>2. CASE a # None /\ WStep(w, q) /\ UNCHANGED barred
    BY <1>4, <1>7, <2>2, WorkerMoved DEF CoreInv, PoolSafe, TablesTypeOK
  <2> QED
    BY <1>1, <2>1, <2>2
<1> QED
  BY <1>1, <1>4, <1>6, <1>8, BarredKept, Parts

LEMMA GuardSafe ==
  ASSUME CoreInv, NEW w \in Worker, Guard(w)
  PROVE  CoreInv'
<1> DEFINE q == [wk[w] EXCEPT !.pc = "ban"]
<1>1. /\ wk[w].pc = "guard"
      /\ \/ WStep(w, q) /\ UNCHANGED barred
         \/ EndRefused(w)
      /\ UNCHANGED <<poolVars, row, entry, phase, restore, adm, rec, sentFrom, used>>
  BY DEF Guard, At
<1>2. wk[w] \in WorkerType /\ wk[w].key \in Key /\ wk[w].addr \in Addr
  BY <1>1, WorkerFacts DEF WorkerOK, Holding
<1>3. PoolSafe /\ AuthTypeOK'
  BY <1>1, PoolVarsKept
<1>4. WorkerOK(q, state', binding')
  <2>1. q \in WorkerType /\ q.pc = "ban" /\ q.key \in Key /\ q.addr \in Addr
    BY <1>2 DEF WorkerType
  <2> HIDE DEF q
  <2> QED
    BY <2>1 DEF WorkerOK, Holding, Evacuation
<1> HIDE DEF q
<1>5. WorkersOK' /\ barred' \in SUBSET Key
  <2>1. CASE EndRefused(w)
    BY <1>1, <1>3, <2>1, RefusedBarred, MoveToIdle
  <2>2. CASE WStep(w, q) /\ UNCHANGED barred
    BY <1>3, <1>4, <2>2, WorkerMoved DEF CoreInv, PoolSafe, TablesTypeOK
  <2> QED
    BY <1>1, <2>1, <2>2
<1> QED
  BY <1>1, <1>3, <1>5, BarredKept, Parts

-----------------------------------------------------------------------------
(***************************************************************************)
(* EvacuateIP.  From the mark on, no address that is banned gains a key,   *)
(* so the list read after the mark stays an upper bound, and a key leaves  *)
(* it only together with its binding.                                      *)
(***************************************************************************)
LEMMA BanSafe ==
  ASSUME CoreInv, NEW w \in Worker, Ban(w)
  PROVE  CoreInv'
<1> DEFINE a == wk[w].addr
<1> DEFINE q == [wk[w] EXCEPT !.pc = "list"]
<1>1. /\ wk[w].pc = "ban" /\ MarkBanned(a) /\ WStep(w, q)
      /\ UNCHANGED <<mapVars, authFails, row, others, used>>
  BY DEF Ban, At
<1>2. wk[w] \in WorkerType /\ wk[w].key \in Key /\ a \in Addr
  BY <1>1, WorkerFacts DEF WorkerOK, Holding
<1>3. StateTypeOK' /\ BansKept
  BY <1>1, <1>2, MarksSafe DEF CoreInv
<1>4. state'[a] = "banned"
  BY <1>1, <1>2 DEF MarkBanned, CoreInv, StateTypeOK
<1>5. PoolSafe
  BY <1>1, <1>3, MarksPoolSafe
<1>6. WorkerOK(q, state', binding')
  <2>1. q \in WorkerType /\ q.pc = "list" /\ q.key \in Key /\ q.addr = a
    BY <1>2 DEF WorkerType
  <2> HIDE DEF q, a
  <2> QED
    BY <1>2, <1>4, <2>1 DEF WorkerOK, Holding, Evacuation
<1> HIDE DEF q
<1>7. WorkersOK'
  BY <1>1, <1>5, <1>6, WorkerMoved DEF CoreInv, PoolSafe
<1>8. AuthTypeOK'
  BY <1>1 DEF CoreInv, AuthTypeOK
<1> QED
  BY <1>1, <1>5, <1>7, <1>8, OthersKept, Parts

LEMMA ListKeysSafe ==
  ASSUME CoreInv, NEW w \in Worker, ListKeys(w)
  PROVE  CoreInv'
<1> DEFINE a == wk[w].addr
<1> DEFINE q == [wk[w] EXCEPT !.pc = "evacuate", !.todo = KeysOn(a)]
<1>1. /\ wk[w].pc = "list" /\ WStep(w, q)
      /\ UNCHANGED <<poolVars, row, others, used>>
  BY DEF ListKeys, At
<1>2. /\ wk[w] \in WorkerType /\ wk[w].key \in Key
      /\ a \in Addr /\ state[a] = "banned"
  BY <1>1, WorkerFacts DEF WorkerOK, Evacuation
<1>3. PoolSafe /\ AuthTypeOK' /\ UNCHANGED <<binding, state>>
  BY <1>1, PoolVarsKept
<1>4. WorkerOK(q, state', binding')
  <2>1. KeysOn(a) \subseteq Key
    BY DEF KeysOn
  <2>2. /\ q \in WorkerType /\ q.pc = "evacuate" /\ q.key \in Key /\ q.addr = a
        /\ q.todo = KeysOn(a)
    BY <1>2, <2>1 DEF WorkerType
  <2> HIDE DEF q, a
  <2> QED
    BY <1>2, <1>3, <2>2 DEF WorkerOK, Holding, Evacuation, KeysOn
<1> HIDE DEF q
<1>5. WorkersOK'
  BY <1>1, <1>3, <1>4, WorkerMoved DEF CoreInv, PoolSafe
<1> QED
  BY <1>1, <1>3, <1>5, OthersKept, Parts

LEMMA EvacuateUnbindSafe ==
  ASSUME CoreInv, NEW w \in Worker, EvacuateUnbind(w)
  PROVE  CoreInv'
<1> DEFINE r == wk[w]
<1>1. PICK k \in r.todo :
        /\ r.pc = "evacuate" /\ Unbind(k)
        /\ WStep(w, [r EXCEPT !.pc = "rebind", !.cur = k, !.todo = @ \ {k}])
        /\ UNCHANGED <<markVars, authFails, row, others, used>>
  BY DEF EvacuateUnbind, At
<1> DEFINE q == [r EXCEPT !.pc = "rebind", !.cur = k, !.todo = @ \ {k}]
<1>2. /\ r \in WorkerType /\ r.key \in Key /\ r.addr \in Addr
      /\ state[r.addr] = "banned" /\ KeysOn(r.addr) \subseteq r.todo
  BY <1>1, WorkerFacts DEF WorkerOK, Evacuation, KeysOn
<1>3. k \in Key
  BY <1>1, <1>2 DEF WorkerType
<1>4. MapTypeOK' /\ CapacityRespected' /\ BannedOnlyLose
  BY <1>1, UnbindSafe DEF CoreInv
<1>5. PoolSafe
  BY <1>1, <1>4, MapsPoolSafe
<1>6. {j \in Key : binding'[j] = r.addr} \subseteq r.todo \ {k}
  <2>1. PICK a \in Addr : a = r.addr
    BY <1>2
  <2>2. KeysOn(a)' \subseteq KeysOn(a) \ {k}
    BY <1>1, UnbindSafe DEF CoreInv
  <2>3. {j \in Key : binding'[j] = a} \subseteq KeysOn(a) \ {k}
    BY <2>2 DEF KeysOn
  <2> QED
    BY <1>2, <2>1, <2>3
<1>7. state'[r.addr] = "banned"
  BY <1>2, <1>5 DEF PoolSafe, BansKept
<1>8. WorkerOK(q, state', binding')
  <2>1. /\ q \in WorkerType /\ q.pc = "rebind" /\ q.key \in Key /\ q.cur = k
        /\ q.addr = r.addr /\ q.todo = r.todo \ {k}
    BY <1>2, <1>3 DEF WorkerType
  <2> HIDE DEF q, r
  <2> QED
    BY <1>2, <1>3, <1>6, <1>7, <2>1 DEF WorkerOK, Holding, Evacuation
<1>9. WStep(w, q)
  BY <1>1
<1> HIDE DEF q
<1>10. WorkersOK'
  BY <1>5, <1>8, <1>9, WorkerMoved DEF CoreInv, PoolSafe
<1>11. AuthTypeOK'
  BY <1>1 DEF CoreInv, AuthTypeOK
<1> QED
  BY <1>1, <1>5, <1>10, <1>11, OthersKept, Parts

(* The second half puts the key anywhere but on a banned address.          *)
LEMMA EvacuateBindSafe ==
  ASSUME CoreInv, NEW w \in Worker, EvacuateBind(w)
  PROVE  CoreInv'
<1> DEFINE r == wk[w]
<1>1. PICK addr \in AddrOrNone :
        /\ r.pc = "rebind" /\ BindInPool(r.cur, TierOf[r.addr], addr)
        /\ WStep(w, [r EXCEPT !.pc = "evacuate", !.cur = None,
                       !.done = IF addr = None THEN @
                                ELSE @ \cup {<<r.cur, addr>>}])
        /\ UNCHANGED <<markVars, authFails, row, others, used>>
  BY DEF EvacuateBind, At
<1> DEFINE d == IF addr = None THEN r.done ELSE r.done \cup {<<r.cur, addr>>}
<1> DEFINE q == [r EXCEPT !.pc = "evacuate", !.cur = None, !.done = d]
<1>2. /\ r \in WorkerType /\ r.key \in Key /\ r.cur \in Key /\ r.addr \in Addr
      /\ state[r.addr] = "banned" /\ KeysOn(r.addr) \subseteq r.todo
  BY <1>1, WorkerFacts DEF WorkerOK, Evacuation, KeysOn
<1>3. PoolSafe
  BY <1>1, BindPoolSafe
<1>4. {j \in Key : binding'[j] = r.addr} \subseteq r.todo
  <2>1. PICK a \in Addr : a = r.addr
    BY <1>2
  <2>2. KeysOn(a)' \subseteq KeysOn(a)
    BY <1>2, <1>3, <2>1 DEF PoolSafe, BannedOnlyLose
  <2>3. {j \in Key : binding'[j] = a} \subseteq KeysOn(a)
    BY <2>2 DEF KeysOn
  <2> QED
    BY <1>2, <2>1, <2>3
<1>5. state'[r.addr] = "banned"
  BY <1>2, <1>3 DEF PoolSafe, BansKept
<1>6. d \in SUBSET (Key \X Addr)
  <2>1. r.done \in SUBSET (Key \X Addr)
    BY <1>2 DEF WorkerType
  <2> QED
    BY <1>2, <2>1 DEF AddrOrNone
<1>7. WStep(w, q)
  BY <1>1
<1> HIDE DEF d
<1>8. WorkerOK(q, state', binding')
  <2>1. /\ q \in WorkerType /\ q.pc = "evacuate" /\ q.key \in Key
        /\ q.addr = r.addr /\ q.todo = r.todo
    BY <1>2, <1>6 DEF WorkerType
  <2> HIDE DEF q, r
  <2> QED
    BY <1>2, <1>4, <1>5, <2>1 DEF WorkerOK, Holding, Evacuation
<1> HIDE DEF q
<1>9. WorkersOK'
  BY <1>3, <1>7, <1>8, WorkerMoved DEF CoreInv, PoolSafe
<1>10. AuthTypeOK'
  BY <1>1 DEF CoreInv, AuthTypeOK
<1> QED
  BY <1>1, <1>3, <1>9, <1>10, OthersKept, Parts

LEMMA EvacuatePersistSafe ==
  ASSUME CoreInv, NEW w \in Worker, EvacuatePersist(w)
  PROVE  CoreInv'
<1> DEFINE r == wk[w]
<1>1. PICK m \in r.done :
        /\ r.pc = "evacuate" /\ WriteRecord(m[1], m[2])
        /\ WStep(w, [r EXCEPT !.done = @ \ {m}])
        /\ UNCHANGED <<poolVars, others>>
  BY DEF EvacuatePersist, At
<1> DEFINE q == [r EXCEPT !.done = @ \ {m}]
<1>2. r \in WorkerType /\ WorkerOK(r, state, binding)
  BY WorkerFacts
<1>3. m[2] \in AddrOrNone
  BY <1>1, <1>2 DEF WorkerType, AddrOrNone
<1>4. PoolSafe /\ AuthTypeOK' /\ UNCHANGED <<binding, state>>
  BY <1>1, PoolVarsKept
<1>5. WStep(w, q)
  BY <1>1
<1>6. WorkerOK(q, state', binding')
  <2>1. /\ q \in WorkerType /\ q.pc = r.pc /\ q.key = r.key
        /\ q.addr = r.addr /\ q.todo = r.todo
    BY <1>2 DEF WorkerType
  <2> HIDE DEF q, r
  <2> QED
    BY <1>1, <1>2, <1>4, <2>1 DEF WorkerOK, Holding, Evacuation
<1> HIDE DEF q
<1>7. WorkersOK'
  BY <1>4, <1>5, <1>6, WorkerMoved DEF CoreInv, PoolSafe
<1>8. TablesTypeOK' /\ TasksTypeOK' /\ SentTypeOK'
  BY <1>1, <1>3, WriteRecordType
     DEF CoreInv, TablesTypeOK, TasksTypeOK, SentTypeOK, others, ctlVars
<1> QED
  BY <1>4, <1>7, <1>8, Parts

LEMMA EvacuateEndSafe ==
  ASSUME CoreInv, NEW w \in Worker, EvacuateEnd(w)
  PROVE  CoreInv'
<1>1. /\ wk[w].pc = "evacuate" /\ EndRefused(w)
      /\ UNCHANGED <<poolVars, row, entry, phase, restore, adm, rec, sentFrom, used>>
  BY DEF EvacuateEnd, At
<1>2. PoolSafe /\ AuthTypeOK'
  BY <1>1, PoolVarsKept
<1>3. barred' \in SUBSET Key /\ WorkersOK'
  BY <1>1, <1>2, RefusedBarred, MoveToIdle
<1> QED
  BY <1>1, <1>2, <1>3, BarredKept, Parts

LEMMA WorkerStepSafe ==
  ASSUME CoreInv, NEW w \in Worker, WorkerStep(w)
  PROVE  CoreInv'
BY LookupSafe, BindKeySafe, CreateSafe, CompareSafe, PersistSafe, SendSafe,
   SucceedSafe, FailFaultySafe, FailUnrelatedSafe, FailAuthSafe, GuardSafe,
   BanSafe, ListKeysSafe, EvacuateUnbindSafe, EvacuateBindSafe,
   EvacuatePersistSafe, EvacuateEndSafe
   DEF WorkerStep

-----------------------------------------------------------------------------
(***************************************************************************)
(* The operator and the background tasks: no worker moves.                 *)
(***************************************************************************)
LEMMA Unmoved ==
  ASSUME CoreInv, PoolSafe, AuthTypeOK', TablesTypeOK', TasksTypeOK',
         UNCHANGED <<wk, sentFrom>>
  PROVE  CoreInv'
<1>1. WorkersOK'
  BY WorkersUnmoved DEF CoreInv, PoolSafe
<1>2. SentTypeOK'
  BY DEF CoreInv, SentTypeOK
<1> QED
  BY <1>1, <1>2, Parts

LEMMA UnbindPoolSafe ==
  ASSUME CoreInv, NEW k, Unbind(k), UNCHANGED markVars
  PROVE  PoolSafe
BY UnbindSafe, MapsPoolSafe DEF CoreInv

LEMMA BeginType ==
  ASSUME CoreInv, NEW k \in Key, NEW t \in Tier \cup {AnyTier}, NEW pc, NEW op,
         pc \in {"refresh", "bind", "release"},
         op \in {"import", "tier", "ban", "revive", "rebind", "delete"},
         Begin(pc, op, k, t)
  PROVE  AdminOK(adm') /\ used' \in BoundType
<1>1. used' \in BoundType
  BY SpendType DEF Begin, CoreInv
<1> QED
  BY <1>1 DEF Begin, IdleAdmin, AdminOK, AdminType, AddrOrNone

LEMMA OperatorSafe ==
  ASSUME CoreInv, NEW k \in Key,
         \/ \E t \in Tier : Import(k, t) \/ PatchTier(k, t)
         \/ \E s \in {"active", "banned"} : PatchStatus(k, s)
         \/ Delete(k)
  PROVE  CoreInv'
<1>1. /\ AdminOK(adm') /\ used' \in BoundType
      /\ row' \in [Key -> RowType]
      /\ UNCHANGED <<poolVars, ctlVars, wk, rec, sentFrom>>
  <2>0. row \in [Key -> RowType]
    BY DEF CoreInv, TablesTypeOK
  <2>1. ASSUME NEW t \in Tier, Import(k, t)
        PROVE  /\ AdminOK(adm') /\ used' \in BoundType
               /\ row' \in [Key -> RowType]
               /\ UNCHANGED <<poolVars, ctlVars, wk, rec, sentFrom>>
    <3>1. IF k \in Listed THEN [row[k] EXCEPT !.tier = t] \in RowType
          ELSE [status |-> "active", tier |-> t, egress |-> None] \in RowType
      BY <2>0 DEF RowType, NoRow, Listed, AddrOrNone
    <3> QED
      BY <2>0, <2>1, <3>1, BeginType DEF Import
  <2>2. ASSUME NEW t \in Tier, PatchTier(k, t)
        PROVE  /\ AdminOK(adm') /\ used' \in BoundType
               /\ row' \in [Key -> RowType]
               /\ UNCHANGED <<poolVars, ctlVars, wk, rec, sentFrom>>
    <3>1. [row[k] EXCEPT !.tier = t] \in RowType
      BY <2>0, <2>2 DEF PatchTier, RowType, NoRow, Listed
    <3> QED
      BY <2>0, <2>2, <3>1, BeginType DEF PatchTier
  <2>3. ASSUME NEW s \in {"active", "banned"}, PatchStatus(k, s)
        PROVE  /\ AdminOK(adm') /\ used' \in BoundType
               /\ row' \in [Key -> RowType]
               /\ UNCHANGED <<poolVars, ctlVars, wk, rec, sentFrom>>
    <3>1. [row[k] EXCEPT !.status = s] \in RowType /\ row[k].tier \in Tier
      BY <2>0, <2>3 DEF PatchStatus, RowType, NoRow, Listed
    <3> QED
      BY <2>0, <2>3, <3>1, BeginType DEF PatchStatus
  <2>4. ASSUME Delete(k)
        PROVE  /\ AdminOK(adm') /\ used' \in BoundType
               /\ row' \in [Key -> RowType]
               /\ UNCHANGED <<poolVars, ctlVars, wk, rec, sentFrom>>
    <3>1. NoRow \in RowType
      BY DEF RowType
    <3> QED
      BY <2>0, <2>4, <3>1, BeginType DEF Delete
  <2> QED
    BY <2>1, <2>2, <2>3, <2>4
<1>2. PoolSafe /\ AuthTypeOK'
  BY <1>1, PoolVarsKept
<1>3. TablesTypeOK' /\ TasksTypeOK'
  BY <1>1 DEF CoreInv, TablesTypeOK, TasksTypeOK, ctlVars
<1> QED
  BY <1>1, <1>2, <1>3, Unmoved

LEMMA RebindSafe ==
  ASSUME CoreInv, NEW k \in Key, Rebind(k)
  PROVE  CoreInv'
<1>1. StateTypeOK' /\ BansKept
  BY PenalizeSafe DEF Rebind, CoreInv
<1>2. MapTypeOK' /\ CapacityRespected' /\ BannedOnlyLose
  BY UnbindSafe DEF Rebind, CoreInv
<1>3. PoolSafe
  BY <1>1, <1>2 DEF PoolSafe
<1>4. AdminOK(adm') /\ used' \in BoundType
  BY BeginType DEF Rebind
<1>5. AuthTypeOK' /\ TablesTypeOK' /\ TasksTypeOK'
  BY <1>4 DEF Rebind, CoreInv, AuthTypeOK, TablesTypeOK, TasksTypeOK, ctlVars
<1> QED
  BY <1>3, <1>5, Unmoved DEF Rebind

LEMMA EntriesType ==
  ASSUME TablesTypeOK
  PROVE  /\ LoadedEntries \in [Key -> Tier \cup {None}]
         /\ \A k : RefreshedEntries(k) \in [Key -> Tier \cup {None}]
<1>1. \A k \in Active : row[k].tier \in Tier
  BY DEF TablesTypeOK, Active, RowType, NoRow
<1>2. LoadedEntries \in [Key -> Tier \cup {None}]
  BY <1>1 DEF LoadedEntries
<1>3. ASSUME NEW k PROVE RefreshedEntries(k) \in [Key -> Tier \cup {None}]
  BY <1>1 DEF RefreshedEntries, TablesTypeOK
<1> QED
  BY <1>2, <1>3

LEMMA DBFailsType ==
  ASSUME TablesTypeOK, DBFails
  PROVE  used' \in BoundType /\ row' = row
BY SpendType DEF DBFails

LEMMA AdminStepSafe ==
  ASSUME CoreInv, AdminStep
  PROVE  CoreInv'
<1>0. AdminOK(adm) /\ adm \in AdminType /\ AdminOK(IdleAdmin)
  BY DEF CoreInv, TasksTypeOK, IdleAdmin, AdminOK, AdminType, AddrOrNone
<1>1. CASE AdminRefresh
  <2> DEFINE k == adm.key
  <2>1. /\ adm.pc = "refresh"
        /\ barred' = CASE adm.op = "ban" -> barred \cup {k}
                       [] adm.op = "revive" -> barred \ {k}
                       [] OTHER -> barred
        /\ \/ entry' = RefreshedEntries(k) /\ UNCHANGED <<row, used>>
           \/ entry' = entry /\ DBFails
        /\ adm' = IF adm.op = "tier" THEN [adm EXCEPT !.pc = "unbind"] ELSE IdleAdmin
        /\ UNCHANGED <<poolVars, phase, restore, wk, rec, sentFrom>>
    BY <1>1 DEF AdminRefresh, AdminAt
  <2>2. k \in Key
    BY <1>0, <2>1 DEF AdminOK
  <2>3. barred' \in {barred, barred \cup {k}, barred \ {k}}
    BY <2>1
  <2>4. AdminOK(adm')
    BY <1>0, <2>1, <2>2 DEF AdminOK, AdminType
  <2> HIDE DEF k
  <2>5. barred' \in SUBSET Key
    BY <2>2, <2>3 DEF CoreInv, TablesTypeOK
  <2>6. /\ entry' \in [Key -> Tier \cup {None}]
        /\ row' = row /\ used' \in BoundType
    BY <2>1, EntriesType, DBFailsType DEF CoreInv, TablesTypeOK
  <2>7. PoolSafe /\ AuthTypeOK'
    BY <2>1, PoolVarsKept
  <2>8. TablesTypeOK' /\ TasksTypeOK'
    BY <2>1, <2>4, <2>5, <2>6 DEF CoreInv, TablesTypeOK, TasksTypeOK
  <2> QED
    BY <2>1, <2>7, <2>8, Unmoved
<1>2. CASE AdminUnbind \/ AdminRelease
  <2>1. /\ adm.pc # "idle" /\ Unbind(adm.key)
        /\ \/ adm' = [adm EXCEPT !.pc = "bind"]
           \/ adm' = [adm EXCEPT !.pc = "reload"]
        /\ UNCHANGED <<markVars, authFails, row, ctlVars, wk, rec, used, sentFrom>>
    BY <1>2 DEF AdminUnbind, AdminRelease, AdminAt
  <2>2. AdminOK(adm')
    BY <1>0, <2>1 DEF AdminOK, AdminType
  <2>3. PoolSafe
    BY <2>1, UnbindPoolSafe
  <2>4. AuthTypeOK' /\ TablesTypeOK' /\ TasksTypeOK'
    BY <2>1, <2>2 DEF CoreInv, AuthTypeOK, TablesTypeOK, TasksTypeOK, ctlVars
  <2> QED
    BY <2>1, <2>3, <2>4, Unmoved
<1>3. CASE AdminBind
  <2>1. PICK addr \in AddrOrNone :
          /\ adm.pc = "bind" /\ BindInPool(adm.key, adm.tier, addr)
          /\ adm' = IF addr = None THEN AfterBind
                    ELSE [adm EXCEPT !.pc = "persist", !.addr = addr]
          /\ UNCHANGED <<markVars, authFails, row, ctlVars, wk, rec, used, sentFrom>>
    BY <1>3 DEF AdminBind, AdminAt
  <2>2. AdminOK(adm')
    BY <1>0, <2>1 DEF AdminOK, AdminType, AfterBind
  <2>3. PoolSafe
    BY <2>1, BindPoolSafe
  <2>4. AuthTypeOK' /\ TablesTypeOK' /\ TasksTypeOK'
    BY <2>1, <2>2 DEF CoreInv, AuthTypeOK, TablesTypeOK, TasksTypeOK, ctlVars
  <2> QED
    BY <2>1, <2>3, <2>4, Unmoved
<1>4. CASE AdminPersist
  <2>1. /\ adm.pc = "persist" /\ WriteRecord(adm.key, adm.addr)
        /\ adm' = AfterBind
        /\ UNCHANGED <<poolVars, ctlVars, wk, rec, sentFrom>>
    BY <1>4 DEF AdminPersist, AdminAt
  <2>2. AdminOK(adm') /\ adm.addr \in AddrOrNone
    BY <1>0, <2>1 DEF AdminOK, AdminType, AfterBind
  <2>3. PoolSafe /\ AuthTypeOK'
    BY <2>1, PoolVarsKept
  <2>4. TablesTypeOK' /\ TasksTypeOK'
    BY <2>1, <2>2, WriteRecordType DEF CoreInv, TablesTypeOK, TasksTypeOK, ctlVars
  <2> QED
    BY <2>1, <2>3, <2>4, Unmoved
<1>5. CASE AdminReload
  <2>1. /\ \/ entry' = LoadedEntries /\ UNCHANGED <<row, used>>
           \/ entry' = entry /\ DBFails
        /\ adm' = IdleAdmin
        /\ UNCHANGED <<poolVars, barred, phase, restore, wk, rec, sentFrom>>
    BY <1>5 DEF AdminReload
  <2>2. /\ entry' \in [Key -> Tier \cup {None}]
        /\ row' = row /\ used' \in BoundType
    BY <2>1, EntriesType, DBFailsType DEF CoreInv, TablesTypeOK
  <2>3. PoolSafe /\ AuthTypeOK'
    BY <2>1, PoolVarsKept
  <2>4. TablesTypeOK' /\ TasksTypeOK'
    BY <1>0, <2>1, <2>2 DEF CoreInv, TablesTypeOK, TasksTypeOK
  <2> QED
    BY <2>1, <2>3, <2>4, Unmoved
<1> QED
  BY <1>1, <1>2, <1>3, <1>4, <1>5 DEF AdminStep

LEMMA RecStepSafe ==
  ASSUME CoreInv, RecStep
  PROVE  CoreInv'
<1>0. /\ rec \in RecType
      /\ \A todo \in SUBSET Key : RecContinue(todo) \in RecType
  BY DEF CoreInv, TasksTypeOK, RecContinue, IdleRec, RecType, AddrOrNone
<1>1. CASE RecList
  <2>1. [k \in Key |-> row[k].egress] \in [Key -> AddrOrNone]
    BY DEF CoreInv, TablesTypeOK, RowType, NoRow, AddrOrNone
  <2>2. rec' \in RecType
    BY <1>1, <2>1 DEF RecList, IdleRec, RecType, Listed, AddrOrNone
  <2>3. PoolSafe /\ AuthTypeOK'
    BY <1>1, PoolVarsKept DEF RecList
  <2> QED
    BY <1>1, <2>2, <2>3, Unmoved
       DEF RecList, bystanders, ctlVars, CoreInv, TablesTypeOK, TasksTypeOK
<1>2. CASE RecRelease
  <2>1. rec' \in RecType
    BY <1>0, <1>2 DEF RecRelease, RecType
  <2>2. MapTypeOK' /\ CapacityRespected' /\ BannedOnlyLose
    BY <1>2, ReleaseBindingsSafe DEF RecRelease, CoreInv
  <2>3. PoolSafe
    BY <1>2, <2>2, MapsPoolSafe DEF RecRelease
  <2> QED
    BY <1>2, <2>1, <2>3, Unmoved
       DEF RecRelease, bystanders, ctlVars, CoreInv, AuthTypeOK, TablesTypeOK, TasksTypeOK
<1>3. CASE RecCompare
  <2>1. PICK k \in rec.todo :
          /\ rec' = IF binding[k] \in {None, rec.seen[k]} THEN RecContinue(rec.todo \ {k})
                    ELSE [rec EXCEPT !.pc = "write", !.cur = k, !.addr = binding[k]]
          /\ UNCHANGED <<poolVars, row, bystanders, used>>
    BY <1>3 DEF RecCompare
  <2>2. k \in Key /\ binding[k] \in AddrOrNone
    BY <1>0, <2>1 DEF RecType, CoreInv, MapTypeOK
  <2>3. rec' \in RecType
    BY <1>0, <2>1, <2>2 DEF RecType
  <2>4. PoolSafe /\ AuthTypeOK'
    BY <2>1, PoolVarsKept
  <2> QED
    BY <2>1, <2>3, <2>4, Unmoved
       DEF bystanders, ctlVars, CoreInv, TablesTypeOK, TasksTypeOK
<1>4. CASE RecWrite
  <2>1. rec' \in RecType /\ rec.addr \in AddrOrNone
    BY <1>0, <1>4 DEF RecWrite, RecType
  <2>2. PoolSafe /\ AuthTypeOK'
    BY <1>4, PoolVarsKept DEF RecWrite
  <2>3. row' \in [Key -> RowType] /\ used' \in BoundType
    BY <1>4, <2>1, WriteRecordType DEF RecWrite, CoreInv
  <2> QED
    BY <1>4, <2>1, <2>2, <2>3, Unmoved
       DEF RecWrite, bystanders, ctlVars, CoreInv, TablesTypeOK, TasksTypeOK
<1> QED
  BY <1>1, <1>2, <1>3, <1>4 DEF RecStep

LEMMA KeyReloadSafe ==
  ASSUME CoreInv, KeyReload
  PROVE  CoreInv'
<1>1. client' \in [Key -> AddrOrNone] /\ UNCHANGED <<binding, adopted>>
  BY DEF KeyReload, RetainClients, CoreInv, MapTypeOK, AddrOrNone
<1>2. PoolSafe
  BY <1>1, BindingsKeptSafe, MapsPoolSafe DEF KeyReload, CoreInv
<1>3. AuthTypeOK' /\ TablesTypeOK' /\ TasksTypeOK'
  BY EntriesType DEF KeyReload, CoreInv, AuthTypeOK, TablesTypeOK, TasksTypeOK
<1> QED
  BY <1>2, <1>3, Unmoved DEF KeyReload

LEMMA VerifySafe ==
  ASSUME CoreInv, NEW a \in Addr, Verify(a)
  PROVE  CoreInv'
<1>1. StateTypeOK' /\ BansKept
  BY MarksSafe DEF Verify, CoreInv
<1>2. PoolSafe
  BY <1>1, MarksPoolSafe DEF Verify
<1>3. AuthTypeOK' /\ TablesTypeOK' /\ TasksTypeOK'
  BY SpendType DEF Verify, CoreInv, AuthTypeOK, TablesTypeOK, TasksTypeOK, ctlVars
<1> QED
  BY <1>2, <1>3, Unmoved DEF Verify

(* The only step that ends a ban while the process runs: not under an      *)
(* evacuation.                                                             *)
LEMMA UnbanSafe ==
  ASSUME CoreInv, NEW a \in Addr, Unban(a)
  PROVE  CoreInv'
<1>1. /\ ~Evacuating(a) /\ state' = [state EXCEPT ![a] = "cooldown"]
      /\ streak' = [streak EXCEPT ![a] = 0] /\ UNCHANGED reputation
      /\ UNCHANGED <<binding, client, adopted>>
      /\ UNCHANGED <<authFails, row, ctlVars, wk, adm, rec, used, sentFrom>>
  BY DEF Unban, TryUnban, mapVars
<1>2. StateTypeOK'
  BY <1>1, PoolAssumption DEF CoreInv, StateTypeOK, IPState, PoolAssumption
<1>3. client' \in [Key -> AddrOrNone]
  BY <1>1 DEF CoreInv, MapTypeOK
<1>4. MapTypeOK' /\ CapacityRespected'
  BY <1>1, <1>3, BindingsKeptSafe DEF CoreInv
<1>5. ASSUME NEW w \in Worker
      PROVE  WorkerOK(wk[w], state', binding)
  <2>1. wk[w] \in WorkerType /\ WorkerOK(wk[w], state, binding)
    BY WorkerFacts
  <2>2. wk[w].pc \in Evacuation => wk[w].addr # a
    BY <1>1 DEF Evacuating, Evacuation
  <2>3. wk[w].pc \in Evacuation => state'[wk[w].addr] = "banned"
    BY <1>1, <2>1, <2>2 DEF WorkerOK, CoreInv, StateTypeOK
  <2> QED
    BY <2>1, <2>3 DEF WorkerOK
<1>6. WorkersOK'
  BY <1>1, <1>5 DEF CoreInv, WorkersOK
<1> QED
  BY <1>1, <1>2, <1>4, <1>6
     DEF CoreInv, AuthTypeOK, TablesTypeOK, TasksTypeOK, SentTypeOK, ctlVars

-----------------------------------------------------------------------------
(***************************************************************************)
(* Start and stop.                                                         *)
(***************************************************************************)
LEMMA EmptyPoolOK ==
  ASSUME binding = [k \in Key |-> None]
  PROVE  CapacityRespected
<1>1. \A a \in Addr : KeysOn(a) \ adopted = {}
  BY PoolAssumption DEF KeysOn, PoolAssumption
<1>2. Cardinality({}) = 0
  BY FS_EmptySet
<1>3. \A a \in Addr : MaxKeys[a] \in Nat
  BY PoolAssumption DEF PoolAssumption
<1> QED
  BY <1>1, <1>2, <1>3 DEF CapacityRespected

LEMMA EmptyPoolTypes ==
  ASSUME PoolInit
  PROVE  MapTypeOK /\ StateTypeOK /\ AuthTypeOK /\ CapacityRespected
<1>1. MapTypeOK /\ AuthTypeOK
  BY DEF PoolInit, MapTypeOK, AuthTypeOK, AddrOrNone
<1>2. StateTypeOK
  BY PoolAssumption DEF PoolInit, StateTypeOK, IPState, PoolAssumption
<1> QED
  BY <1>1, <1>2, EmptyPoolOK DEF PoolInit

LEMMA InitCoreInv == Init => CoreInv
<1> SUFFICES ASSUME Init PROVE CoreInv
  OBVIOUS
<1>1. MapTypeOK /\ StateTypeOK /\ AuthTypeOK /\ CapacityRespected
  BY EmptyPoolTypes DEF Init
<1>2. TablesTypeOK
  BY BindingAssumption DEF Init, TablesTypeOK, BoundType, BindingAssumption
<1>3. TasksTypeOK
  BY DEF Init, TasksTypeOK, AdminOK, IdleAdmin, AdminType, IdleRec, RecType, AddrOrNone
<1>4. SentTypeOK
  BY DEF Init, SentTypeOK
<1>5. WorkersOK
  BY IdleOK DEF Init, WorkersOK
<1> QED
  BY <1>1, <1>2, <1>3, <1>4, <1>5 DEF CoreInv

LEMMA StopSafe ==
  ASSUME CoreInv, Stop
  PROVE  CoreInv'
<1>1. PoolInit'
  BY DEF Stop, PoolReset, PoolInit
<1>2. MapTypeOK' /\ StateTypeOK' /\ AuthTypeOK' /\ CapacityRespected'
  BY <1>1, EmptyPoolTypes, PTL
<1>3. TablesTypeOK'
  BY SpendType DEF Stop, CoreInv, TablesTypeOK
<1>4. TasksTypeOK'
  BY DEF Stop, TasksTypeOK, AdminOK, IdleAdmin, AdminType, IdleRec, RecType, AddrOrNone
<1>5. SentTypeOK'
  BY DEF Stop, CoreInv, SentTypeOK
<1>6. WorkersOK'
  BY IdleOK DEF Stop, WorkersOK
<1> QED
  BY <1>2, <1>3, <1>4, <1>5, <1>6 DEF CoreInv

LEMMA BootStepSafe ==
  ASSUME CoreInv, BootStep
  PROVE  CoreInv'
<1>1. CASE Start \/ Serve
  <2>1. UNCHANGED <<poolVars, row, barred, wk, adm, rec, used, sentFrom>>
    BY <1>1 DEF Start, Serve
  <2>2. PoolSafe /\ AuthTypeOK'
    BY <2>1, PoolVarsKept
  <2>3. TablesTypeOK'
    BY <1>1, <2>1, EntriesType DEF Start, Serve, CoreInv, TablesTypeOK, Active
  <2>4. TasksTypeOK'
    BY <2>1 DEF CoreInv, TasksTypeOK
  <2> QED
    BY <2>1, <2>2, <2>3, <2>4, Unmoved
<1>2. ASSUME NEW k \in Key, RestoreKey(k)
      PROVE  CoreInv'
  <2>1. /\ restore' = restore \ {k}
        /\ UNCHANGED <<markVars, authFails, entry, barred, phase, wk, adm, rec, sentFrom>>
    BY <1>2 DEF RestoreKey
  <2>2. PoolSafe /\ row' \in [Key -> RowType] /\ used' \in BoundType
    <3>1. CASE /\ Adoptable(row[k].egress, row[k].tier) /\ Adopt(k, row[k].egress)
               /\ UNCHANGED <<row, used>>
      BY <2>1, <3>1, AdoptSafe, MapsPoolSafe DEF CoreInv, TablesTypeOK
    <3>2. ASSUME NEW addr \in AddrOrNone, BindInPool(k, row[k].tier, addr),
                 UNCHANGED <<row, used>> \/ WriteRecord(k, addr)
          PROVE  PoolSafe /\ row' \in [Key -> RowType] /\ used' \in BoundType
      BY <2>1, <3>2, BindPoolSafe, WriteRecordType DEF CoreInv, TablesTypeOK
    <3> QED
      BY <1>2, <3>1, <3>2 DEF RestoreKey
  <2>3. AuthTypeOK' /\ TablesTypeOK' /\ TasksTypeOK'
    BY <2>1, <2>2 DEF CoreInv, AuthTypeOK, TablesTypeOK, TasksTypeOK
  <2> QED
    BY <2>1, <2>2, <2>3, Unmoved
<1> QED
  BY <1>1, <1>2 DEF BootStep

-----------------------------------------------------------------------------
(***************************************************************************)
(* All steps together.                                                     *)
(***************************************************************************)
LEMMA StepSafe == CoreInv /\ Step => CoreInv'
<1> SUFFICES ASSUME CoreInv, Step PROVE CoreInv'
  OBVIOUS
<1>1. ASSUME NEW w \in Worker, WorkerStep(w) PROVE CoreInv'
  BY <1>1, WorkerStepSafe
<1>2. ASSUME NEW w \in Worker, NEW k \in Key, Select(w, k) \/ Probe(w, k)
      PROVE  CoreInv'
  BY <1>2, SelectSafe
<1>3. CASE AdminStep \/ RecStep \/ BootStep \/ KeyReload \/ Stop
  BY <1>3, AdminStepSafe, RecStepSafe, BootStepSafe, KeyReloadSafe, StopSafe
<1>4. ASSUME NEW k \in Key, NEW t \in Tier, Import(k, t) \/ PatchTier(k, t)
      PROVE  CoreInv'
  BY <1>4, OperatorSafe
<1>5. ASSUME NEW k \in Key, NEW s \in {"active", "banned"}, PatchStatus(k, s)
      PROVE  CoreInv'
  BY <1>5, OperatorSafe
<1>6. ASSUME NEW k \in Key, Rebind(k) \/ Delete(k)
      PROVE  CoreInv'
  BY <1>6, RebindSafe, OperatorSafe
<1>7. ASSUME NEW a \in Addr, Unban(a) \/ Verify(a)
      PROVE  CoreInv'
  BY <1>7, UnbanSafe, VerifySafe
<1> QED
  BY <1>1, <1>2, <1>3, <1>4, <1>5, <1>6, <1>7 DEF Step

LEMMA RecordType ==
  ASSUME moved \in SUBSET Key, dormant \in SUBSET Key, Record
  PROVE  moved' \in SUBSET Key /\ dormant' \in SUBSET Key
BY DEF Record, BannedHomes, Ordered, Released, Unrecorded, Listed

LEMMA StutterSafe ==
  ASSUME IInv, UNCHANGED vars
  PROVE  IInv'
<1>1. /\ UNCHANGED poolVars /\ moved' = moved /\ dormant' = dormant
      /\ UNCHANGED <<row, ctlVars, wk, adm, rec, used, sentFrom>>
  BY DEF vars, histVars
<1>2. PoolSafe /\ AuthTypeOK'
  BY <1>1, PoolVarsKept DEF IInv
<1>3. TablesTypeOK' /\ TasksTypeOK'
  BY <1>1 DEF IInv, CoreInv, TablesTypeOK, TasksTypeOK, ctlVars
<1>4. CoreInv'
  BY <1>1, <1>2, <1>3, Unmoved DEF IInv
<1> QED
  BY <1>1, <1>4 DEF IInv

(* IInv is inductive: it holds when the process has not started yet, and   *)
(* no step of a request, a task, the operator, a start or a stop breaks it.*)
THEOREM InductiveInvariant == Spec => []IInv
<1>1. Init => IInv
  BY InitCoreInv DEF Init, IInv
<1>2. IInv /\ [Next]_vars => IInv'
  <2> SUFFICES ASSUME IInv, [Next]_vars PROVE IInv'
    OBVIOUS
  <2>1. CASE Next
    <3>1. CoreInv'
      BY <2>1, StepSafe DEF Next, IInv
    <3>2. moved' \in SUBSET Key /\ dormant' \in SUBSET Key
      BY <2>1, RecordType DEF Next, IInv
    <3> QED
      BY <3>1, <3>2 DEF IInv
  <2>2. CASE UNCHANGED vars
    BY <2>2, StutterSafe
  <2> QED
    BY <2>1, <2>2
<1> QED
  BY <1>1, <1>2, PTL DEF Spec

(* Type correctness of the pool, the tables and all the goroutines.        *)
THEOREM TypeCorrect == Spec => []TypeOK
BY InductiveInvariant, IInvImplies, PTL

(* However requests, evacuations, imports and rebindings interleave, no    *)
(* address gets more keys than its capacity from BindInPool, whatever      *)
(* address the hash proposes.                                              *)
THEOREM CapacityHolds == Spec => []CapacityRespected
BY InductiveInvariant, IInvImplies, PTL

(* No evacuation, of any number at the same time, leaves a key behind on   *)
(* the address it has banned: keys that are bound while it runs go to      *)
(* other addresses, and the ones that were there are on its list.          *)
THEOREM EvacuationHolds == Spec => []EvacuationComplete
BY InductiveInvariant, IInvImplies, PTL
=============================================================================
