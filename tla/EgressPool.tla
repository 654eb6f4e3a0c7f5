----------------------------- MODULE EgressPool -----------------------------
(***************************************************************************)
(* The egress pool of one gateway process, internal/egress/egress.go, in   *)
(* multi_ip mode (in direct mode every operation is a no-op).              *)
(*                                                                         *)
(* The pool holds two maps under p.mu, the binding key -> address and the  *)
(* HTTP client of a key, and a status, failure streak, reputation and set  *)
(* of authentication failures per address under ip.mu.  One operator below *)
(* is one critical section; an operation of the code that leaves a lock    *)
(* and takes it again (rebind, ClientForPool, EvacuateIP) is put together  *)
(* from several of them by EgressBinding, which interleaves them.          *)
(*                                                                         *)
(* A client is represented by the source address its dialer pins.  The     *)
(* FNV hash that picks among the candidate addresses is the parameter      *)
(* Hash: the set of candidates it may return.  A singleton is one concrete *)
(* hash; the whole candidate set stands for every hash at once.            *)
(***************************************************************************)
EXTENDS Integers, FiniteSets

CONSTANTS
  Key,            \* ids of upstream keys
  Addr,           \* addresses of the pool (egress.ips)
  Tier,           \* tiers of keys: hot, warm, cold
  AnyTier,        \* PoolAny: no restriction
  None,           \* the empty string: no address
  TierOf,         \* TierOf[a]: tier an address serves, or AnyTier
  MaxKeys,        \* MaxKeys[a]: capacity of an address
  Hash(_, _),     \* Hash(k, C): candidates of C that k's hash may select
  CooldownStreak, \* failures in a row that suspend an address (code: 3)
  BanStreak       \* failures in a row that ban an address (code: 6)

ASSUME PoolAssumption ==
  /\ IsFiniteSet(Key) /\ IsFiniteSet(Addr)
  /\ AnyTier \notin Tier /\ None \notin Key \cup Addr \cup Tier
  /\ TierOf \in [Addr -> Tier \cup {AnyTier}]
  /\ MaxKeys \in [Addr -> Nat \ {0}]
  /\ CooldownStreak \in Nat \ {0} /\ BanStreak \in Nat
  /\ CooldownStreak < BanStreak

ASSUME HashAssumption ==
  \A k \in Key : \A C \in SUBSET Addr : C # {} => Hash(k, C) \cap C # {}

VARIABLES
  binding,     \* binding[k]: address of key k, or None
  client,      \* client[k]: source address of k's cached client, or None
  state,       \* state[a]: status of address a
  streak,      \* streak[a]: failStreak
  reputation,  \* reputation[a], 100 at start
  authFails,   \* authFails[a]: keys with a recent authentication failure
  adopted      \* history: keys whose binding was adopted from the database

mapVars  == <<binding, client, adopted>>
markVars == <<state, streak, reputation>>
poolVars == <<binding, client, adopted, state, streak, reputation, authFails>>

AddrOrNone == Addr \cup {None}
IPState == {"active", "suspect", "cooldown", "banned"}

\* failStreak is unbounded in the code and only compared with the two
\* thresholds: it saturates at the larger one.
PoolTypeOK ==
  /\ binding \in [Key -> AddrOrNone]
  /\ client \in [Key -> AddrOrNone]
  /\ state \in [Addr -> IPState]
  /\ streak \in [Addr -> 0 .. BanStreak]
  /\ reputation \in [Addr -> 0 .. 100]
  /\ authFails \in [Addr -> SUBSET Key]
  /\ adopted \in SUBSET Key

\* NewPool, NewPooledIP: an empty pool of fresh addresses.
PoolInit ==
  /\ binding = [k \in Key |-> None]
  /\ client = [k \in Key |-> None]
  /\ state = [a \in Addr |-> "active"]
  /\ streak = [a \in Addr |-> 0]
  /\ reputation = [a \in Addr |-> 100]
  /\ authFails = [a \in Addr |-> {}]
  /\ adopted = {}

\* The process ends: everything above lives in its memory only.
PoolReset ==
  /\ binding' = [k \in Key |-> None]
  /\ client' = [k \in Key |-> None]
  /\ state' = [a \in Addr |-> "active"]
  /\ streak' = [a \in Addr |-> 0]
  /\ reputation' = [a \in Addr |-> 100]
  /\ authFails' = [a \in Addr |-> {}]
  /\ adopted' = {}

-----------------------------------------------------------------------------
(***************************************************************************)
(* Status of one address (ip.mu).                                          *)
(***************************************************************************)

Lowered(a, n) == IF reputation[a] > n THEN reputation[a] - n ELSE 0

\* MarkSuccess: ends the streak; only suspect and cooldown become active.
MarkSuccess(a) ==
  /\ streak' = [streak EXCEPT ![a] = 0]
  /\ state' = [state EXCEPT ![a] = IF @ \in {"suspect", "cooldown"}
                                   THEN "active" ELSE @]
  /\ UNCHANGED reputation

\* MarkFailure: suspect, cooldown and banned by the length of the streak; a
\* banned address stays banned.
FailureState(a, n) ==
  IF state[a] = "banned" \/ n >= BanStreak THEN "banned"
  ELSE IF n >= CooldownStreak THEN "cooldown" ELSE "suspect"

MarkFailure(a) ==
  LET n == IF streak[a] < BanStreak THEN streak[a] + 1 ELSE BanStreak
      s == FailureState(a, n) IN
  /\ streak' = [streak EXCEPT ![a] = n]
  /\ state' = [state EXCEPT ![a] = s]
  /\ reputation' = [reputation EXCEPT ![a] =
       IF s = "banned" THEN 0 ELSE IF s = "cooldown" THEN Lowered(a, 10) ELSE @]

\* MarkBanned keeps the streak.
MarkBanned(a) ==
  /\ state' = [state EXCEPT ![a] = "banned"]
  /\ reputation' = [reputation EXCEPT ![a] = Lowered(a, 30)]
  /\ UNCHANGED streak

\* TryUnban, once the back-off has passed.
TryUnban(a) ==
  /\ state[a] = "banned"
  /\ state' = [state EXCEPT ![a] = "cooldown"]
  /\ streak' = [streak EXCEPT ![a] = 0]
  /\ UNCHANGED reputation

\* MarkAuthFailure: k enters the set, any older entry may have left the
\* detection window.
MarkAuthFailure(a, k) ==
  \E old \in SUBSET (authFails[a] \ {k}) :
    authFails' = [authFails EXCEPT ![a] = old \cup {k}]

ClearAuthFailure(a, k) == authFails' = [authFails EXCEPT ![a] = @ \ {k}]

\* Assignable: active and reputation at or above 50.
Assignable(a) == state[a] = "active" /\ reputation[a] >= 50

OtherAssignable(a) == \E b \in Addr \ {a} : Assignable(b)

-----------------------------------------------------------------------------
(***************************************************************************)
(* Bindings and clients (p.mu).                                            *)
(***************************************************************************)

Accepts(a, tier) ==
  TierOf[a] = AnyTier \/ tier = AnyTier \/ TierOf[a] = tier

KeysOn(a) == {k \in Key : binding[k] = a}

\* Mutants of Candidates: a full address takes one more key, and an address
\* takes keys in any state.
CandidatesOverfull(k, tier) ==
  {a \in Addr : /\ Assignable(a) /\ Accepts(a, tier)
                /\ Cardinality(KeysOn(a) \ {k}) <= MaxKeys[a]}
CandidatesAnyState(k, tier) ==
  {a \in Addr : /\ Accepts(a, tier)
                /\ Cardinality(KeysOn(a) \ {k}) < MaxKeys[a]}

\* The load of an address counts every binding except that of k.
Candidates(k, tier) ==
  {a \in Addr : /\ Assignable(a) /\ Accepts(a, tier)
                /\ Cardinality(KeysOn(a) \ {k}) < MaxKeys[a]}

\* Mutant of Keeps: a suspended address does not keep its keys.
KeepsAssignable(k) == binding[k] # None /\ Assignable(binding[k])

\* The existing binding is good: BindInPool returns it, whatever the tier.
Keeps(k) == binding[k] # None /\ state[binding[k]] # "banned"

\* A binding to a banned address goes, with the client.
DropBanned(k, addr) ==
  /\ binding' = [binding EXCEPT ![k] = addr]
  /\ client' = IF binding[k] = None THEN client
               ELSE [client EXCEPT ![k] = None]
  /\ adopted' = adopted \ {k}

\* BindInPool(k, tier) returns addr, or None with ErrNoIP.
BindInPool(k, tier, addr) ==
  \/ /\ Keeps(k) /\ addr = binding[k]
     /\ UNCHANGED mapVars
  \/ /\ ~Keeps(k) /\ Candidates(k, tier) # {}
     /\ addr \in Candidates(k, tier) \cap Hash(k, Candidates(k, tier))
     /\ DropBanned(k, addr)
  \/ /\ ~Keeps(k) /\ Candidates(k, tier) = {}
     /\ addr = None
     /\ DropBanned(k, None)

\* ClientForPool, second critical section: the client another caller made in
\* the meantime, or a new one with the address BindInPool returned.
CreateClient(k, addr) ==
  /\ client' = [client EXCEPT ![k] = IF @ = None THEN addr ELSE @]
  /\ UNCHANGED <<binding, adopted>>

\* rebind and Release up to the unlock, and closeClientLocked.
Unbind(k) ==
  /\ binding' = [binding EXCEPT ![k] = None]
  /\ client' = [client EXCEPT ![k] = None]
  /\ adopted' = adopted \ {k}

\* Rebind also counts a failure against the address it leaves.
Penalize(k) ==
  IF binding[k] = None THEN UNCHANGED markVars ELSE MarkFailure(binding[k])

\* Adopt: the record of the database, unless the address is banned or of
\* another tier.  The capacity is not checked.
Adoptable(addr, tier) ==
  addr \in Addr /\ state[addr] # "banned" /\ Accepts(addr, tier)

Adopt(k, addr) ==
  /\ binding' = [binding EXCEPT ![k] = addr]
  /\ client' = IF binding[k] \in {None, addr} THEN client
               ELSE [client EXCEPT ![k] = None]
  /\ adopted' = adopted \cup {k}

\* RetainClients: clients of keys that are not live go, bindings stay.
RetainClients(live) ==
  /\ client' = [k \in Key |-> IF k \in live THEN client[k] ELSE None]
  /\ UNCHANGED <<binding, adopted>>

\* ReleaseBindings: bindings of keys outside keep go, with their clients.
ReleaseBindings(keep) ==
  LET gone == {k \in Key \ keep : binding[k] # None} IN
  /\ binding' = [k \in Key |-> IF k \in gone THEN None ELSE binding[k]]
  /\ client' = [k \in Key |-> IF k \in gone THEN None ELSE client[k]]
  /\ adopted' = adopted \ gone

(* BindInPool never puts a key on a full address: apart from the keys that *)
(* Adopt brought back from the database, which it does not count against   *)
(* the capacity, no address carries more than MaxKeys keys.                *)
CapacityRespected ==
  \A a \in Addr : Cardinality(KeysOn(a) \ adopted) <= MaxKeys[a]
=============================================================================
