---------------------------- MODULE AddressBook ----------------------------
(***************************************************************************)
(* What the egress pool and everything around it promise the owner of a    *)
(* key: which address a key has, and from where its requests leave.  There *)
(* are no requests, tasks, clients, records or locks here; the detailed    *)
(* module EgressBinding implements this one.                               *)
(*                                                                         *)
(* A key is excused once something has happened that may change its        *)
(* address; what that is, the implementation has to name.  Every other key *)
(* keeps its address, through all starts of the process.                   *)
(***************************************************************************)
EXTENDS Integers, FiniteSets

CONSTANTS
  Key,
  Addr,
  None,       \* no address
  Capacity    \* Capacity[a]: how many keys an address takes

VARIABLES
  book,       \* book[k]: the address of key k, or None
  banned,     \* addresses the provider refuses
  sent,       \* sent[k]: the addresses from which requests of k have left
  excused,    \* keys that may have changed their address
  open        \* whether the process serves

vars == <<book, banned, sent, excused, open>>

Init ==
  /\ book = [k \in Key |-> None] /\ sent = [k \in Key |-> {}]
  /\ banned = {} /\ excused = {} /\ open = FALSE

Others(k, a) == {j \in Key \ {k} : book[j] = a}

\* A key without a good address gets one that is good and has room.
Assign(k, a) ==
  /\ book[k] \in banned \cup {None}
  /\ a \in Addr \ banned /\ Cardinality(Others(k, a)) < Capacity[a]
  /\ k \notin excused => sent[k] \subseteq {a}
  /\ book' = [book EXCEPT ![k] = a] /\ UNCHANGED <<banned, sent, open>>

\* Before the process serves, a key gets back what it had; a full address
\* does not turn it away.
Return(k, a) ==
  /\ ~open /\ book[k] = None
  /\ a \in Addr \ banned
  /\ k \notin excused => sent[k] \subseteq {a}
  /\ book' = [book EXCEPT ![k] = a] /\ UNCHANGED <<banned, sent, open>>

Open == open' = TRUE /\ UNCHANGED <<book, banned, sent>>

\* A request leaves from the address of its key.
Send(k, a) ==
  /\ open /\ a \in Addr
  /\ k \notin excused => a = book[k]
  /\ sent' = [sent EXCEPT ![k] = @ \cup {a}] /\ UNCHANGED <<book, banned, open>>

\* Addresses are banned and given back, and keys lose theirs; whoever is
\* concerned is excused.
Disturb ==
  /\ banned' \in SUBSET Addr
  /\ \A k \in Key, a \in banned' \ banned :
       a = book[k] \/ a \in sent[k] => k \in excused'
  /\ book' \in [Key -> Addr \cup {None}]
  /\ \A k \in Key : book'[k] = book[k] \/ (book'[k] = None /\ k \in excused')
  /\ UNCHANGED <<sent, open>>

\* The process ends, and the book with it.
Crash ==
  /\ book' = [k \in Key |-> None] /\ banned' = {} /\ open' = FALSE
  /\ UNCHANGED sent

Next ==
  /\ excused \subseteq excused' /\ excused' \subseteq Key
  /\ \/ \E k \in Key, a \in Addr : Assign(k, a) \/ Return(k, a) \/ Send(k, a)
     \/ Open \/ Disturb \/ Crash

Spec == Init /\ [][Next]_vars
=============================================================================
