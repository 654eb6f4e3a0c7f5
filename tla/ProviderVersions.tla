-------------------------- MODULE ProviderVersions --------------------------
(***************************************************************************)
(* Provider configuration: the table provider_configs with its version     *)
(* history config_versions (internal/store/providers_write.go and          *)
(* providers_rollback.go), the admin handlers that write it, the audit     *)
(* log, the hot reload into the running process                            *)
(* (cmd/gateway/provider_reload.go, internal/confsnap) and the start of    *)
(* the process with its seeding from the config file                       *)
(* (cmd/gateway/provider_seed.go, main.go).  The file may declare any      *)
(* providers, or none, which Load and Validate accept.             *)
(*                                                                         *)
(* A write transaction locks the row (SELECT ... FOR UPDATE), so it is one *)
(* step; so is the single SELECT of the reload.  Requests of several       *)
(* admins interleave between their steps: the handler reads the row before *)
(* the transaction, the reload reads the table after the commit, and swaps *)
(* the snapshot later still.  A request ends early when the client goes    *)
(* away, the database fails or a guard refuses it.                         *)
(*                                                                         *)
(* A configuration is its content, its quota kind and its enabled flag.  A *)
(* snapshot in service is the set of the providers in it, each with the    *)
(* row version it was built from, or FromFile.  The running number of the  *)
(* snapshot, shown by /readyz only, is left out.                           *)
(***************************************************************************)
EXTENDS Integers, Sequences, FiniteSets

CONSTANTS
  Provider,    \* provider names
  Supported,   \* those with a compiled-in adapter (confsnap)
  Admin,       \* slots for concurrent admin requests
  Content,     \* contents of a configuration
  Kind,        \* quota kinds
  MaxVersion   \* bound: versions written

ASSUME ProviderAssumption ==
  /\ Provider # {} /\ Supported \subseteq Provider
  /\ Content # {} /\ Kind # {}
  /\ MaxVersion \in Nat

VARIABLES
  file,      \* the providers that the config file declares
  row,       \* row[p]: the row of provider_configs; version 0: no row
  history,   \* config_versions, the id being the position
  audit,     \* audit_logs: who wrote which version over which
  proc,      \* "down", "seeding" or "up"
  toSeed,    \* providers the running start still has to seed
  served,    \* the snapshot in service
  req,       \* req[a]: the admin request in slot a
  \* History variables, read by no guard:
  past,      \* past[n]: what the table offered after the n-th write
  settled,   \* writes behind which no reload can fall any more
  confirmed  \* the newest write has been answered with "reloaded": true

table == <<row, history>>
process == <<file, proc, toSeed>>
recorded == <<past, settled, confirmed>>
vars == <<file, row, history, audit, proc, toSeed, served, req, past, settled,
          confirmed>>

FromFile == 0
NoVersion == -1

Snapshot == [provider : Provider, content : Content, kind : Kind,
             enabled : BOOLEAN, deleted : BOOLEAN]

Row == [content : Content, kind : Kind, enabled : BOOLEAN, deleted : BOOLEAN,
        version : 0 .. MaxVersion]

Op == {"create", "update", "delete", "rollback", "reload"}

Served == Provider \X (0 .. MaxVersion)

Request ==
  [pc : {"idle", "read", "written", "listed"}, op : Op, p : Provider,
   expected : {NoVersion} \cup 0 .. MaxVersion,  \* the optimistic lock, if any
   target : 0 .. MaxVersion,                     \* the version to roll back to
   previous : 0 .. MaxVersion,                   \* row version the handler read
   version : 0 .. MaxVersion,                    \* version the request wrote
   listed : SUBSET Served,                       \* what its reload read
   seen : 0 .. MaxVersion]                       \* writes before that (history)

TypeOK ==
  /\ file \subseteq Provider
  /\ row \in [Provider -> Row]
  /\ history \in Seq(Snapshot) /\ Len(history) <= MaxVersion
  /\ audit \subseteq [version : 1 .. MaxVersion, previous : 0 .. MaxVersion,
                      locked : BOOLEAN]
  /\ proc \in {"down", "seeding", "up"}
  /\ toSeed \subseteq Provider
  /\ served \subseteq Served
  /\ req \in [Admin -> Request]
  /\ past \in Seq(SUBSET Served) /\ Len(past) = Len(history)
  /\ settled \in 0 .. Len(history) /\ confirmed \in BOOLEAN

Absent == [content |-> CHOOSE c \in Content : TRUE,
           kind |-> CHOOSE k \in Kind : TRUE,
           enabled |-> FALSE, deleted |-> FALSE, version |-> 0]

Idle == [pc |-> "idle", op |-> "reload", p |-> CHOOSE p \in Provider : TRUE,
         expected |-> NoVersion, target |-> 0, previous |-> 0, version |-> 0,
         listed |-> {}, seen |-> 0]

Exists(p) == row[p].version > 0

\* What a table offers for service: the providers enabled and not deleted, at
\* the version of their row.
Offered(t) ==
  {<<p, t[p].version>> :
     p \in {q \in Provider : t[q].version > 0 /\ t[q].enabled /\ ~t[q].deleted}}

VersionsOf(p) == {i \in 1 .. Len(history) : history[i].provider = p}

Init ==
  /\ file \in SUBSET Provider
  /\ row = [p \in Provider |-> Absent]
  /\ history = <<>>
  /\ audit = {}
  /\ proc = "down" /\ toSeed = {}
  /\ served = {}
  /\ req = [a \in Admin |-> Idle]
  /\ past = <<>> /\ settled = 0 /\ confirmed = FALSE

-----------------------------------------------------------------------------
(***************************************************************************)
(* What a write leaves behind.                                             *)
(***************************************************************************)

NextVersion == Len(history) + 1

\* One transaction: a version with snapshot s, and the row pointing to it with
\* the given deleted flag.
Record(s, deleted) ==
  /\ NextVersion <= MaxVersion
  /\ history' = Append(history, s)
  /\ row' = [row EXCEPT ![s.provider] =
               [content |-> s.content, kind |-> row[s.provider].kind,
                enabled |-> s.enabled, deleted |-> deleted,
                version |-> NextVersion]]

\* Bookkeeping of the request in slot a once its transaction has committed.
Committed(a, r) ==
  /\ req' = [req EXCEPT ![a] =
               [r EXCEPT !.pc = "written", !.version = NextVersion]]
  /\ past' = Append(past, Offered(row'))
  /\ confirmed' = FALSE
  /\ UNCHANGED <<audit, process, served, settled>>

\* Mutant of Unlocked: the version is compared with the row that the handler
\* read before the transaction.
UnlockedAtRead(r) == r.expected \in {NoVersion, r.previous}

\* The optimistic lock, checked under the row lock.
Unlocked(r) == r.expected \in {NoVersion, row[r.p].version}

\* Mutant of KindAllowed: the quota kind is not compared.
KindAllowedAny(p, k) == k \in Kind

KindAllowed(p, k) == k = row[p].kind

-----------------------------------------------------------------------------
(***************************************************************************)
(* Admin requests.                                                         *)
(***************************************************************************)

\* POST /admin/providers.  The name must be free, also of a deleted provider.
Create(a, p, c, k, e) ==
  /\ proc = "up" /\ req[a].pc = "idle"
  /\ ~Exists(p)
  /\ NextVersion <= MaxVersion
  /\ history' = Append(history, [provider |-> p, content |-> c, kind |-> k,
                                 enabled |-> e, deleted |-> FALSE])
  /\ row' = [row EXCEPT ![p] = [content |-> c, kind |-> k, enabled |-> e,
                                deleted |-> FALSE, version |-> NextVersion]]
  /\ Committed(a, [Idle EXCEPT !.op = "create", !.p = p])

\* PUT, DELETE and rollback read the row first, outside the transaction; the
\* client may have seen any version the provider has had.
Receive(a, op, p, v, t) ==
  /\ proc = "up" /\ req[a].pc = "idle"
  /\ Exists(p)
  /\ v \in {NoVersion} \cup VersionsOf(p)
  /\ IF op = "rollback"
       THEN t \in VersionsOf(p) /\ KindAllowed(p, history[t].kind)
       ELSE t = 0
  /\ req' = [req EXCEPT ![a] =
               [Idle EXCEPT !.pc = "read", !.op = op, !.p = p, !.expected = v,
                            !.target = t, !.previous = row[p].version]]
  /\ UNCHANGED <<table, audit, process, served, recorded>>

\* Mutant of Update: the row gets the version number the client sent.
UpdateKeepsVersion(a, c, k, e) ==
  LET r == req[a]
  IN /\ r.pc = "read" /\ r.op = "update"
     /\ Unlocked(r)
     /\ NextVersion <= MaxVersion
     /\ history' = Append(history, [provider |-> r.p, content |-> c, kind |-> k,
                                    enabled |-> e, deleted |-> FALSE])
     /\ row' = [row EXCEPT ![r.p] = [content |-> c, kind |-> k, enabled |-> e,
                                     deleted |-> FALSE, version |-> r.expected]]
     /\ Committed(a, r)

\* UpdateProvider: replaces the whole configuration, and undeletes it.
Update(a, c, k, e) ==
  LET r == req[a]
  IN /\ r.pc = "read" /\ r.op = "update"
     /\ KindAllowed(r.p, k)
     /\ Unlocked(r)
     /\ Record([provider |-> r.p, content |-> c, kind |-> k, enabled |-> e,
                deleted |-> FALSE], FALSE)
     /\ Committed(a, r)

\* DeleteProvider: soft, and disables.
Delete(a) ==
  LET r == req[a]
  IN /\ r.pc = "read" /\ r.op = "delete"
     /\ ~row[r.p].deleted
     /\ Unlocked(r)
     /\ Record([provider |-> r.p, content |-> row[r.p].content,
                kind |-> row[r.p].kind, enabled |-> FALSE, deleted |-> TRUE],
               TRUE)
     /\ Committed(a, r)

\* RollbackProvider: a new version with the content of the target.  Its
\* snapshot is taken from the current row, whose deleted flag it carries over;
\* the row gets the flag of the target.
Rollback(a) ==
  LET r == req[a]
      target == history[r.target]
  IN /\ r.pc = "read" /\ r.op = "rollback"
     /\ Unlocked(r)
     /\ KindAllowed(r.p, target.kind)
     /\ Record([provider |-> r.p, content |-> target.content,
                kind |-> row[r.p].kind, enabled |-> target.enabled,
                deleted |-> row[r.p].deleted],
               target.deleted)
     /\ Committed(a, r)

-----------------------------------------------------------------------------
(***************************************************************************)
(* Hot reload.                                                             *)
(***************************************************************************)

\* ListProviderConfigs without deleted rows, then providersFromConfigs.
LiveRows == Offered(row)

\* providersFromConfigs refuses an empty set, confsnap.Build an unknown name.
Buildable(S) == S # {} /\ \A s \in S : s[1] \in Supported

\* The audit entry of the handler, then the reload reads the table.
AuditAndList(a) ==
  LET r == req[a]
  IN /\ r.pc = "written"
     /\ audit' = audit \cup {[version |-> r.version, previous |-> r.previous,
                              locked |-> r.expected # NoVersion]}
     /\ req' = [req EXCEPT ![a].pc = "listed", ![a].listed = LiveRows,
                         ![a].seen = Len(history)]
     /\ UNCHANGED <<table, process, served, recorded>>

\* POST /admin/reload-config.
ReceiveReload(a) ==
  /\ proc = "up" /\ req[a].pc = "idle"
  /\ req' = [req EXCEPT ![a] = [Idle EXCEPT !.pc = "listed", !.listed = LiveRows,
                                         !.seen = Len(history)]]
  /\ UNCHANGED <<table, audit, process, served, recorded>>

\* What is settled once slot a has swapped in its list: the writes the list
\* has seen, unless another request still holds an older list.
SettledBy(a) ==
  IF /\ settled < req[a].seen
     /\ \A b \in Admin : req[b].pc = "listed" => req[a].seen <= req[b].seen
    THEN req[a].seen ELSE settled

\* Mutant of Install: only the provider that the request wrote is replaced in
\* the snapshot in service.
InstallPatched(a) ==
  LET r == req[a]
      patched == {s \in served : s[1] # r.p} \cup {s \in r.listed : s[1] = r.p}
  IN /\ r.pc = "listed"
     /\ Buildable(patched)
     /\ served' = IF r.op = "reload" THEN r.listed ELSE patched
     /\ settled' = SettledBy(a)
     /\ confirmed' = (confirmed \/ r.version = Len(history))
     /\ req' = [req EXCEPT ![a] = Idle]
     /\ UNCHANGED <<table, audit, process, past>>

\* The snapshot is built from what was read and swapped in.
Install(a) ==
  LET r == req[a]
  IN /\ r.pc = "listed"
     /\ Buildable(r.listed)
     /\ served' = r.listed
     /\ settled' = SettledBy(a)
     /\ confirmed' = (confirmed \/ r.version = Len(history))
     /\ req' = [req EXCEPT ![a] = Idle]
     /\ UNCHANGED <<table, audit, process, past>>

\* The request ends before its next step: refused, cancelled, or failed.  What
\* it committed stays, without a reload.
GiveUp(a) ==
  /\ req[a].pc # "idle"
  /\ req' = [req EXCEPT ![a] = Idle]
  /\ UNCHANGED <<table, audit, process, served, recorded>>

-----------------------------------------------------------------------------
(***************************************************************************)
(* Start and stop of the process.                                          *)
(***************************************************************************)

\* The file is edited between two runs of the process, which reads it once.
EditFile(F) ==
  /\ proc = "down"
  /\ file' = F
  /\ UNCHANGED <<table, audit, proc, toSeed, served, req, recorded>>

Configured == \E p \in Provider : Exists(p) /\ ~row[p].deleted

\* Mutant of Start: a file that declares nothing is seeded without complaint.
StartAnyhow ==
  /\ proc = "down"
  /\ proc' = "seeding"
  /\ toSeed' = IF Configured THEN {} ELSE file
  /\ UNCHANGED <<table, audit, file, served, req, recorded>>

\* seedProviderConfigs counts the rows that are not deleted, disabled ones
\* included.  Without any, the file is the seed, and the start fails if it
\* declares nothing.
Start ==
  /\ proc = "down"
  /\ Configured \/ file # {}
  /\ proc' = "seeding"
  /\ toSeed' = IF Configured THEN {} ELSE file
  /\ UNCHANGED <<table, audit, file, served, req, recorded>>

\* One provider, in a transaction of its own.
Seed(p) ==
  /\ proc = "seeding" /\ p \in toSeed
  /\ ~Exists(p)
  /\ NextVersion <= MaxVersion
  /\ history' = Append(history, [provider |-> p, content |-> Absent.content,
                                 kind |-> Absent.kind, enabled |-> TRUE,
                                 deleted |-> FALSE])
  /\ row' = [row EXCEPT ![p] = [content |-> Absent.content, kind |-> Absent.kind,
                                enabled |-> TRUE, deleted |-> FALSE,
                                version |-> NextVersion]]
  /\ past' = Append(past, Offered(row'))
  /\ toSeed' = toSeed \ {p}
  /\ UNCHANGED <<audit, file, proc, served, req, settled, confirmed>>

\* The snapshot of the config file, which must build, replaced by that of the
\* table when it can be read and built; then the process accepts requests.
Boot ==
  /\ proc = "seeding" /\ toSeed = {}
  /\ file \subseteq Supported
  /\ proc' = "up"
  /\ \/ /\ Buildable(LiveRows)
        /\ served' = LiveRows
        /\ settled' = Len(history)
     \/ /\ served' = file \X {FromFile}
        /\ settled' = 0
  /\ UNCHANGED <<table, audit, file, toSeed, req, past, confirmed>>

\* The process dies, or the start fails (database error, a name to seed that a
\* deleted row occupies, a name in the file without an adapter).
Stop ==
  /\ proc # "down"
  /\ proc' = "down"
  /\ toSeed' = {} /\ served' = {}
  /\ req' = [a \in Admin |-> Idle]
  /\ settled' = 0 /\ confirmed' = FALSE
  /\ UNCHANGED <<table, audit, file, past>>

Next ==
  \/ \E a \in Admin :
       \/ \E p \in Provider, c \in Content, k \in Kind, e \in BOOLEAN :
            Create(a, p, c, k, e)
       \/ \E op \in {"update", "delete", "rollback"}, p \in Provider,
             v \in {NoVersion} \cup 1 .. MaxVersion, t \in 0 .. MaxVersion :
            Receive(a, op, p, v, t)
       \/ \E c \in Content, k \in Kind, e \in BOOLEAN : Update(a, c, k, e)
       \/ Delete(a)
       \/ Rollback(a)
       \/ AuditAndList(a)
       \/ ReceiveReload(a)
       \/ Install(a)
       \/ GiveUp(a)
  \/ \E F \in SUBSET Provider : EditFile(F)
  \/ Start
  \/ \E p \in Provider : Seed(p)
  \/ Boot
  \/ Stop

Spec == Init /\ [][Next]_vars

-----------------------------------------------------------------------------
(***************************************************************************)
(* Safety.                                                                 *)
(***************************************************************************)

(***************************************************************************)
(* Table and history do not drift apart: every row points to the newest    *)
(* version of its provider, and that version describes it (up to the       *)
(* deleted flag, see HeadSnapshotMatchesRow).  providers_write.go names    *)
(* this the reason for writing both in one transaction.                    *)
(***************************************************************************)
RowIsNewestVersion ==
  \A p \in Provider :
    LET r == row[p]
    IN /\ \A i \in VersionsOf(p) : i <= r.version
       /\ Exists(p) =>
            /\ r.version \in VersionsOf(p)
            /\ history[r.version].content = r.content
            /\ history[r.version].kind = r.kind
            /\ history[r.version].enabled = r.enabled

(***************************************************************************)
(* The audit log of a write under the optimistic lock names the version    *)
(* that it really replaced, although the handler reads that version        *)
(* outside the transaction: no other write came in between.  (Without the  *)
(* lock it may name an older one.)                                         *)
(***************************************************************************)
AuditTellsReplaced ==
  \A e \in audit : e.locked =>
    \A i \in VersionsOf(history[e.version].provider) :
      i <= e.previous \/ i >= e.version

(***************************************************************************)
(* Whatever reloads overlap, fail or come late, and whatever is written    *)
(* between their reading and their swap, the process serves the table as   *)
(* it was at one moment, never a mix of two.  A late reload may bring an   *)
(* older table back (provider_reload.go has no lock around reading and     *)
(* swapping), but none older than a table that was swapped in while no     *)
(* reload with an older list was under way.  Until then it may instead be  *)
(* the config file, the whole of it and nothing else.                      *)
(***************************************************************************)
ServesOneTable ==
  proc = "up" =>
    \/ \E n \in 1 .. Len(history) : n >= settled /\ served = past[n]
    \/ settled = 0 /\ served = file \X {FromFile}

(***************************************************************************)
(* A process serves nothing only in the one way that is left open: its     *)
(* config file declares nothing, the table has had rows, so that seeding   *)
(* did not refuse the start, and no reload has put the table in service    *)
(* since: none is settled, and the newest write was not answered as        *)
(* reloaded.  Otherwise the boot falls back to the file and the reload     *)
(* keeps what it has.  All that is served has an adapter.                  *)
(***************************************************************************)
EmptyOnlyFromFile ==
  proc = "up" =>
    /\ \A s \in served : s[1] \in Supported
    /\ served = {} =>
         /\ file = {} /\ \E p \in Provider : Exists(p)
         /\ settled = 0 /\ ~confirmed

-----------------------------------------------------------------------------
(***************************************************************************)
(* What the comments promise, and the code does not keep (see README).     *)
(***************************************************************************)

(***************************************************************************)
(* A write that was answered with "reloaded": true is in service as long   *)
(* as nothing is written after it (admin_provider_version.go: the reload   *)
(* of this process being complete means that it has taken effect).         *)
(***************************************************************************)
ConfirmedIsServed ==
  LET newest == Len(history)
  IN proc = "up" /\ confirmed /\ newest > 0 =>
       LET p == history[newest].provider
       IN row[p].enabled /\ ~row[p].deleted => <<p, newest>> \in served

(***************************************************************************)
(* The newest snapshot tells whether the provider is deleted, so that a    *)
(* rollback can be rolled back (providers_rollback.go, providers_write.go).*)
(***************************************************************************)
HeadSnapshotMatchesRow ==
  \A p \in Provider : Exists(p) => history[row[p].version].deleted = row[p].deleted

(***************************************************************************)
(* A running process serves at least one provider: provider_seed.go and    *)
(* provider_reload.go call one that serves none the costliest failure,     *)
(* and load.go has Validate refuse a file that declares none.              *)
(***************************************************************************)
ServesSomething == proc = "up" => served # {}
=============================================================================
