----------------------- MODULE ProviderVersionsProofs -----------------------
(***************************************************************************)
(* Proofs about ProviderVersions, for every value of its constants.        *)
(*                                                                         *)
(* Every write, of a request or of the seeding, appends one version and    *)
(* points one row to it (Appends).  The inductive invariant IInv adds to   *)
(* the invariants what a request relies on between its steps: that the     *)
(* version it expects is no newer than the row it read, that nothing was   *)
(* written between the version it audits and its own, and that the list of *)
(* a reload is the table at one moment, no older than what is settled.     *)
(***************************************************************************)
EXTENDS ProviderVersions, TLAPS

\* The common part of all writes: version s, row of its provider, flag d.
Appends(s, d) ==
  /\ s \in Snapshot /\ d \in BOOLEAN
  /\ NextVersion <= MaxVersion
  /\ history' = Append(history, s)
  /\ row' = [row EXCEPT ![s.provider] =
               [content |-> s.content, kind |-> s.kind, enabled |-> s.enabled,
                deleted |-> d, version |-> NextVersion]]

\* Requests that read the row, and requests that wrote theirs.
ReadNotOlder ==
  \A a \in Admin : req[a].pc = "read" =>
    /\ req[a].expected <= req[a].previous
    /\ req[a].op = "rollback" => req[a].target \in VersionsOf(req[a].p)

WroteOver(version, previous) ==
  /\ version \in 1 .. Len(history)
  /\ \A i \in VersionsOf(history[version].provider) : i <= previous \/ i >= version

WrittenOver ==
  \A a \in Admin :
    LET r == req[a] IN
    r.pc = "written" =>
      /\ r.version \in 1 .. Len(history)
      /\ r.expected # NoVersion => WroteOver(r.version, r.previous)

AuditedOver ==
  \A e \in audit :
    /\ e.version \in 1 .. Len(history)
    /\ e.locked => WroteOver(e.version, e.previous)

\* The table now, and the lists of reloads, are tables there have been.
PastNow ==
  /\ Len(history) = 0 => LiveRows = {}
  /\ Len(history) > 0 => LiveRows = past[Len(history)]

ListedOnce ==
  \A a \in Admin : req[a].pc = "listed" =>
    /\ settled <= req[a].seen /\ req[a].seen <= Len(history)
    /\ req[a].listed # {} => req[a].seen > 0 /\ req[a].listed = past[req[a].seen]

\* Requests and their answers are there only while the process is up.
OnlyWhenUp ==
  proc # "up" => ~confirmed /\ \A a \in Admin : req[a].pc = "idle"

\* A start that seeding did not refuse.
StartJustified == proc # "down" => file # {} \/ \E p \in Provider : Exists(p)

IInv ==
  /\ TypeOK
  /\ RowIsNewestVersion
  /\ ReadNotOlder
  /\ WrittenOver
  /\ AuditedOver
  /\ PastNow
  /\ ListedOnce
  /\ ServesOneTable
  /\ EmptyOnlyFromFile
  /\ OnlyWhenUp
  /\ StartJustified

-----------------------------------------------------------------------------
(***************************************************************************)
(* The next version follows all versions there are.                        *)
(***************************************************************************)
LEMMA NextVersionType ==
  ASSUME TypeOK
  PROVE  /\ Len(history) \in Nat /\ NextVersion = Len(history) + 1
         /\ history \in Seq(Snapshot) /\ NextVersion \in Nat \ {0}
BY DEF TypeOK, NextVersion

(***************************************************************************)
(* The slot of no request, and the row of no provider, are well-typed.     *)
(***************************************************************************)
LEMMA IdleType == Idle \in Request
<1>1. (CHOOSE p \in Provider : TRUE) \in Provider
  BY ProviderAssumption
<1>2. 0 \in 0 .. MaxVersion
  BY ProviderAssumption
<1>3. QED
  BY <1>1, <1>2 DEF Idle, Request, Op

\* The same for the row that stands for no row.
LEMMA AbsentType == Absent \in Row /\ Absent.content \in Content /\ Absent.kind \in Kind
<1>1. (CHOOSE c \in Content : TRUE) \in Content /\ (CHOOSE k \in Kind : TRUE) \in Kind
  BY ProviderAssumption
<1>2. 0 \in 0 .. MaxVersion
  BY ProviderAssumption
<1>3. QED
  BY <1>1, <1>2 DEF Absent, Row

(***************************************************************************)
(* What an append does to the history: old versions stay, one is added.    *)
(***************************************************************************)
LEMMA AppendEffect ==
  ASSUME TypeOK, NEW s, NEW d, Appends(s, d)
  PROVE  /\ Len(history') = NextVersion
         /\ history'[NextVersion] = s
         /\ \A i \in 1 .. Len(history) : history'[i] = history[i]
         /\ history' \in Seq(Snapshot)
         /\ \A p \in Provider : VersionsOf(p)' =
              VersionsOf(p) \cup (IF p = s.provider THEN {NextVersion} ELSE {})
<1>1. history \in Seq(Snapshot) /\ s \in Snapshot /\ history' = Append(history, s)
  BY DEF TypeOK, Appends
<1>2. Len(history') = NextVersion
  BY <1>1 DEF NextVersion
<1>3. history'[NextVersion] = s
  BY <1>1 DEF NextVersion
<1>4. \A i \in 1 .. Len(history) : history'[i] = history[i]
  BY <1>1
<1>5. history' \in Seq(Snapshot)
  BY <1>1
<1>6. ASSUME NEW p \in Provider
      PROVE  VersionsOf(p)' =
               VersionsOf(p) \cup (IF p = s.provider THEN {NextVersion} ELSE {})
  BY <1>1, <1>2, <1>3, <1>4, <1>6, NextVersionType DEF VersionsOf
<1>7. QED
  BY <1>2, <1>3, <1>4, <1>5, <1>6

\* A write of the request in slot a: an append, followed by its bookkeeping.
WriteOf(a, s, d, r) ==
  /\ Appends(s, d)
  /\ Committed(a, r)
  /\ r.p = s.provider
  /\ r.expected = NoVersion \/ (r = req[a] /\ r.pc = "read" /\ Unlocked(r))
  /\ proc = "up"

(***************************************************************************)
(* Each of the four handlers that write performs such a write.             *)
(***************************************************************************)
LEMMA CreateWrites ==
  ASSUME TypeOK, NEW a \in Admin, NEW p \in Provider, NEW c \in Content,
         NEW k \in Kind, NEW e \in BOOLEAN, Create(a, p, c, k, e)
  PROVE  \E s \in Snapshot, d \in BOOLEAN, r \in Request : WriteOf(a, s, d, r)
<1> DEFINE s == [provider |-> p, content |-> c, kind |-> k, enabled |-> e,
                 deleted |-> FALSE]
           r == [Idle EXCEPT !.op = "create", !.p = p]
<1>1. s \in Snapshot
  BY DEF Snapshot
<1>2. Idle \in Request
  BY IdleType
<1>3. r \in Request /\ r.p = p /\ r.expected = NoVersion
  BY <1>2 DEF Request, Op, Idle
<1>4. Appends(s, FALSE)
  BY <1>1 DEF Create, Appends
<1>5. Committed(a, r)
  BY DEF Create
<1>6. WriteOf(a, s, FALSE, r)
  BY <1>3, <1>4, <1>5 DEF WriteOf, Create
<1>7. QED
  BY <1>1, <1>3, <1>6

\* The same for PUT.
LEMMA UpdateWrites ==
  ASSUME TypeOK, OnlyWhenUp, NEW a \in Admin, NEW c \in Content,
         NEW k \in Kind, NEW e \in BOOLEAN, Update(a, c, k, e)
  PROVE  \E s \in Snapshot, d \in BOOLEAN, r \in Request : WriteOf(a, s, d, r)
<1> DEFINE s == [provider |-> req[a].p, content |-> c, kind |-> k,
                 enabled |-> e, deleted |-> FALSE]
<1>1. req[a] \in Request /\ req[a].p \in Provider
  BY DEF TypeOK, Request
<1>2. s \in Snapshot
  BY <1>1 DEF Snapshot
<1>3. Appends(s, FALSE)
  BY <1>1, <1>2 DEF Update, Appends, Record, KindAllowed
<1>4. WriteOf(a, s, FALSE, req[a])
  BY <1>3 DEF WriteOf, Update, OnlyWhenUp
<1>5. QED
  BY <1>1, <1>2, <1>4

\* The same for DELETE.
LEMMA DeleteWrites ==
  ASSUME TypeOK, OnlyWhenUp, NEW a \in Admin, Delete(a)
  PROVE  \E s \in Snapshot, d \in BOOLEAN, r \in Request : WriteOf(a, s, d, r)
<1> DEFINE p == req[a].p
           s == [provider |-> p, content |-> row[p].content,
                 kind |-> row[p].kind, enabled |-> FALSE, deleted |-> TRUE]
<1>1. req[a] \in Request /\ p \in Provider
  BY DEF TypeOK, Request
<1>2. row[p] \in Row
  BY <1>1 DEF TypeOK
<1>3. s \in Snapshot
  BY <1>1, <1>2 DEF Snapshot, Row
<1>4. Appends(s, TRUE)
  BY <1>1, <1>3 DEF Delete, Appends, Record
<1>5. WriteOf(a, s, TRUE, req[a])
  BY <1>4 DEF WriteOf, Delete, OnlyWhenUp
<1>6. QED
  BY <1>1, <1>3, <1>5

\* The same for the rollback, whose target is a version of the provider.
LEMMA RollbackWrites ==
  ASSUME TypeOK, OnlyWhenUp, ReadNotOlder, NEW a \in Admin, Rollback(a)
  PROVE  \E s \in Snapshot, d \in BOOLEAN, r \in Request : WriteOf(a, s, d, r)
<1> DEFINE p == req[a].p
           t == history[req[a].target]
           s == [provider |-> p, content |-> t.content, kind |-> row[p].kind,
                 enabled |-> t.enabled, deleted |-> row[p].deleted]
<1>1. req[a] \in Request /\ p \in Provider
  BY DEF TypeOK, Request
<1>2. row[p] \in Row
  BY <1>1 DEF TypeOK
<1>3. req[a].target \in 1 .. Len(history)
  BY DEF ReadNotOlder, Rollback, VersionsOf
<1>4. t \in Snapshot
  BY <1>3 DEF TypeOK
<1>5. s \in Snapshot /\ t.deleted \in BOOLEAN
  BY <1>1, <1>2, <1>4 DEF Snapshot, Row
<1>6. Appends(s, t.deleted)
  BY <1>1, <1>5 DEF Rollback, Appends, Record
<1>7. WriteOf(a, s, t.deleted, req[a])
  BY <1>6 DEF WriteOf, Rollback, OnlyWhenUp
<1>8. QED
  BY <1>1, <1>5, <1>7

-----------------------------------------------------------------------------
(***************************************************************************)
(* What any append preserves: types, the link from row to history, and     *)
(* that nothing was written between two given versions.                    *)
(***************************************************************************)
LEMMA AppendTypes ==
  ASSUME TypeOK, NEW s, NEW d, Appends(s, d)
  PROVE  /\ row' \in [Provider -> Row]
         /\ history' \in Seq(Snapshot) /\ Len(history') <= MaxVersion
         /\ Len(history') \in Nat /\ NextVersion \in 1 .. MaxVersion
<1>1. NextVersion \in 1 .. MaxVersion
  BY NextVersionType, ProviderAssumption DEF Appends
<1>2. NextVersion \in 0 .. MaxVersion
  BY <1>1
<1> DEFINE new == [content |-> s.content, kind |-> s.kind,
                   enabled |-> s.enabled, deleted |-> d, version |-> NextVersion]
<1>3. new \in Row
  BY <1>2 DEF Appends, Snapshot, Row
<1>4. row' = [row EXCEPT ![s.provider] = new]
  BY DEF Appends
<1>5. row' \in [Provider -> Row]
  BY <1>3, <1>4 DEF TypeOK
<1>6. QED
  BY <1>1, <1>5, AppendEffect, NextVersionType

\* What a well-typed table offers can be served.
LEMMA OfferedType ==
  ASSUME NEW t \in [Provider -> Row]
  PROVE  Offered(t) \in SUBSET Served
BY DEF Offered, Served, Row

\* The tables there have been: the old ones stay, the new one is added.
LEMMA AppendKeepsPast ==
  ASSUME TypeOK, NEW s, NEW d, Appends(s, d), past' = Append(past, Offered(row')),
         settled' = settled
  PROVE  /\ past' \in Seq(SUBSET Served) /\ Len(past') = Len(history')
         /\ settled' \in 0 .. Len(history')
         /\ \A n \in 1 .. Len(history) :
              n \in 1 .. Len(history') /\ past'[n] = past[n]
         /\ PastNow'
<1>1. Offered(row') \in SUBSET Served
  BY AppendTypes, OfferedType
<1>2. past \in Seq(SUBSET Served) /\ Len(past) = Len(history)
      /\ settled \in 0 .. Len(history)
  BY DEF TypeOK
<1>3. Len(history') = Len(history) + 1 /\ Len(history) \in Nat
  BY AppendEffect, NextVersionType
<1>4. past' \in Seq(SUBSET Served) /\ Len(past') = Len(history')
  BY <1>1, <1>2, <1>3
<1>5. \A n \in 1 .. Len(history) : past'[n] = past[n]
  BY <1>1, <1>2
<1>6. past'[Len(history')] = LiveRows'
  BY <1>1, <1>2, <1>3 DEF LiveRows, Offered
<1>7. QED
  BY <1>2, <1>3, <1>4, <1>5, <1>6 DEF PastNow

\* After a write there is a row.
LEMMA AppendExists ==
  ASSUME TypeOK, NEW s, NEW d, Appends(s, d)
  PROVE  \E p \in Provider : Exists(p)'
<1>1. s.provider \in Provider /\ NextVersion > 0
  BY NextVersionType DEF Appends, Snapshot
<1>2. row'[s.provider].version = NextVersion
  BY <1>1 DEF Appends, TypeOK
<1>3. QED
  BY <1>1, <1>2 DEF Exists

\* The link from row to history.
LEMMA AppendKeepsNewest ==
  ASSUME TypeOK, RowIsNewestVersion, NEW s, NEW d, Appends(s, d)
  PROVE  RowIsNewestVersion'
<1>1. s \in Snapshot /\ s.provider \in Provider
  BY DEF Appends, Snapshot
<1>2. NextVersion \in Nat \ {0} /\ NextVersion = Len(history) + 1
  BY NextVersionType
<1>3. ASSUME NEW p \in Provider, p = s.provider
      PROVE  /\ \A i \in VersionsOf(p)' : i <= row'[p].version
             /\ Exists(p)' =>
                  /\ row'[p].version \in VersionsOf(p)'
                  /\ history'[row'[p].version].content = row'[p].content
                  /\ history'[row'[p].version].kind = row'[p].kind
                  /\ history'[row'[p].version].enabled = row'[p].enabled
  <2>1. row'[p] = [content |-> s.content, kind |-> s.kind, enabled |-> s.enabled,
                   deleted |-> d, version |-> NextVersion]
    BY <1>1, <1>3 DEF TypeOK, Appends
  <2>2. VersionsOf(p)' = VersionsOf(p) \cup {NextVersion}
    BY <1>3, AppendEffect
  <2>3. \A i \in VersionsOf(p) : i \in Nat /\ i <= NextVersion
    BY <1>2, NextVersionType DEF VersionsOf
  <2>4. history'[NextVersion] = s
    BY AppendEffect
  <2>5. QED
    BY <1>2, <2>1, <2>2, <2>3, <2>4
<1>4. ASSUME NEW p \in Provider, p # s.provider
      PROVE  /\ \A i \in VersionsOf(p)' : i <= row'[p].version
             /\ Exists(p)' =>
                  /\ row'[p].version \in VersionsOf(p)'
                  /\ history'[row'[p].version].content = row'[p].content
                  /\ history'[row'[p].version].kind = row'[p].kind
                  /\ history'[row'[p].version].enabled = row'[p].enabled
  <2>1. row'[p] = row[p]
    BY <1>4 DEF TypeOK, Appends
  <2>2. VersionsOf(p)' = VersionsOf(p)
    BY <1>4, AppendEffect
  <2>3. row[p].version \in VersionsOf(p) => history'[row[p].version] = history[row[p].version]
    BY AppendEffect DEF VersionsOf
  <2>4. Exists(p)' <=> Exists(p)
    BY <2>1 DEF Exists
  <2>5. QED
    BY <2>1, <2>2, <2>3, <2>4 DEF RowIsNewestVersion
<1>5. QED
  BY <1>3, <1>4 DEF RowIsNewestVersion

\* That no version was written between two.
LEMMA AppendKeepsWroteOver ==
  ASSUME TypeOK, NEW s, NEW d, Appends(s, d)
  PROVE  \A v, q : WroteOver(v, q) => WroteOver(v, q)'
<1> SUFFICES ASSUME NEW v, NEW q, WroteOver(v, q)
             PROVE  WroteOver(v, q)'
  OBVIOUS
<1>1. v \in 1 .. Len(history) /\ history[v] \in Snapshot
  BY DEF WroteOver, TypeOK
<1>2. Len(history') = Len(history) + 1 /\ Len(history) \in Nat
  BY AppendEffect, NextVersionType
<1>3. history'[v] = history[v]
  BY <1>1, AppendEffect
<1> DEFINE p == history[v].provider
<1>4. VersionsOf(p)' \subseteq VersionsOf(p) \cup {NextVersion}
  <2>1. PICK q2 \in Provider : q2 = p
    BY <1>1 DEF Snapshot
  <2>2. VersionsOf(q2)' \subseteq VersionsOf(q2) \cup {NextVersion}
    BY AppendEffect
  <2>3. QED
    BY <2>1, <2>2, <1>3 DEF VersionsOf
<1>5. \A i \in VersionsOf(p)' : i <= q \/ i >= v
  BY <1>1, <1>2, <1>4, NextVersionType DEF WroteOver
<1>6. QED
  BY <1>1, <1>2, <1>3, <1>5 DEF WroteOver, VersionsOf

-----------------------------------------------------------------------------
(***************************************************************************)
(* A write of a request preserves the invariant.                           *)
(***************************************************************************)
LEMMA CommittedTypes ==
  ASSUME TypeOK, NEW a \in Admin, NEW r \in Request, Committed(a, r),
         NextVersion \in 1 .. MaxVersion
  PROVE  req' \in [Admin -> Request]
<1>1. [r EXCEPT !.pc = "written", !.version = NextVersion] \in Request
  <2>1. NextVersion \in 0 .. MaxVersion
    BY ProviderAssumption
  <2>2. QED
    BY <2>1 DEF Request
<1>2. QED
  BY <1>1 DEF Committed, TypeOK

\* The requests after a write: that of the writer, and the others.
LEMMA CommittedRequests ==
  ASSUME TypeOK, NEW a \in Admin, NEW r \in Request, Committed(a, r)
  PROVE  /\ /\ req'[a].pc = "written" /\ req'[a].version = NextVersion
            /\ req'[a].p = r.p /\ req'[a].expected = r.expected
            /\ req'[a].previous = r.previous
         /\ \A b \in Admin \ {a} : req'[b] = req[b]
<1>1. req'[a] = [r EXCEPT !.pc = "written", !.version = NextVersion]
  BY DEF Committed, TypeOK
<1>2. \A b \in Admin \ {a} : req'[b] = req[b]
  BY DEF Committed, TypeOK
<1>3. QED
  BY <1>1, <1>2 DEF Request

\* The version written under the optimistic lock replaces the one the request
\* read, with nothing in between.
LEMMA WriterWroteOver ==
  ASSUME TypeOK, RowIsNewestVersion, ReadNotOlder, NEW a \in Admin,
         NEW s \in Snapshot, NEW d \in BOOLEAN, NEW r \in Request,
         WriteOf(a, s, d, r), r.expected # NoVersion,
         NEW v, v = NextVersion, NEW q, q = r.previous
  PROVE  WroteOver(v, q)'
<1>1. Appends(s, d) /\ r = req[a] /\ r.pc = "read" /\ r.p = s.provider
      /\ r.expected = row[r.p].version
  BY DEF WriteOf, Unlocked
<1>2. row[r.p].version <= q /\ r.p \in Provider
  BY <1>1 DEF ReadNotOlder, Request
<1>3. q \in 0 .. MaxVersion /\ row[r.p].version \in 0 .. MaxVersion
  BY <1>2 DEF Request, TypeOK, Row
<1>4. \A i \in VersionsOf(r.p) : i \in Nat /\ i <= row[r.p].version
  BY <1>2 DEF RowIsNewestVersion, VersionsOf
<1>5. VersionsOf(r.p)' = VersionsOf(r.p) \cup {v}
  <2>1. PICK p \in Provider : p = r.p
    BY <1>2
  <2>2. VersionsOf(p)' = VersionsOf(p) \cup {v}
    BY <1>1, <2>1, AppendEffect
  <2>3. QED
    BY <2>1, <2>2, <1>1 DEF VersionsOf
<1>6. history'[v] = s /\ v \in 1 .. Len(history') /\ v \in Nat
  BY <1>1, AppendEffect, NextVersionType
<1>7. \A i \in {j \in 1 .. Len(history') : history'[j].provider = s.provider} :
        i <= q \/ i >= v
  <2>1. \A i \in VersionsOf(r.p)' : i <= q \/ i >= v
    BY <1>2, <1>3, <1>4, <1>5, <1>6, ProviderAssumption
  <2>2. PICK p \in Provider : p = r.p
    BY <1>2
  <2>3. {j \in 1 .. Len(history') : history'[j].provider = p} = VersionsOf(p)'
    BY DEF VersionsOf
  <2>4. VersionsOf(p)' = VersionsOf(p) \cup {v}
    BY <1>1, <2>2, AppendEffect
  <2>5. QED
    BY <2>2, <2>3, <2>4, <1>1, <1>2, <1>3, <1>4, <1>6, ProviderAssumption
<1>8. QED
  BY <1>6, <1>7 DEF WroteOver, VersionsOf

\* All parts of the invariant together.
LEMMA WriteKeeps ==
  ASSUME IInv, NEW a \in Admin, NEW s \in Snapshot, NEW d \in BOOLEAN,
         NEW r \in Request, WriteOf(a, s, d, r)
  PROVE  IInv'
<1> USE DEF IInv
<1>1. Appends(s, d) /\ Committed(a, r) /\ r.p = s.provider
  BY DEF WriteOf
<1>2. NextVersion \in 1 .. MaxVersion
  BY <1>1, AppendTypes
<1>3. TypeOK'
  BY <1>1, <1>2, AppendTypes, AppendKeepsPast, CommittedTypes
     DEF TypeOK, Committed, process
<1>4. RowIsNewestVersion'
  BY <1>1, AppendKeepsNewest
<1>5. ReadNotOlder'
  <2> SUFFICES ASSUME NEW b \in Admin, req'[b].pc = "read"
               PROVE  /\ req'[b].expected <= req'[b].previous
                      /\ req'[b].op = "rollback" =>
                           req'[b].target \in VersionsOf(req[b].p)'
    BY DEF ReadNotOlder, VersionsOf
  <2>1. b # a
    BY <1>1, CommittedRequests
  <2>2. /\ req'[b].pc = req[b].pc /\ req'[b].op = req[b].op
        /\ req'[b].p = req[b].p /\ req'[b].target = req[b].target
        /\ req'[b].expected = req[b].expected
        /\ req'[b].previous = req[b].previous
    BY <1>1, <2>1, CommittedRequests
  <2>3. req[b].op = "rollback" => req[b].target \in VersionsOf(req[b].p)
    BY <2>2 DEF ReadNotOlder
  <2>4. req[b].op = "rollback" =>
          /\ req[b].target \in 1 .. Len(history')
          /\ history'[req[b].target].provider = req[b].p
    BY <1>1, <2>3, AppendEffect, NextVersionType DEF VersionsOf
  <2>5. QED
    BY <2>2, <2>4 DEF ReadNotOlder, VersionsOf
<1>6. WrittenOver'
  <2> SUFFICES ASSUME NEW b \in Admin, req'[b].pc = "written"
               PROVE  /\ req'[b].version \in 1 .. Len(history')
                      /\ req'[b].expected # NoVersion =>
                           WroteOver(req[b].version, req[b].previous)'
    BY DEF WrittenOver, WroteOver, VersionsOf
  <2>1. CASE b = a
    <3>1. req'[a].version = NextVersion /\ req'[a].expected = r.expected
          /\ req'[a].previous = r.previous
      BY <1>1, CommittedRequests
    <3>2. NextVersion \in 1 .. Len(history')
      BY <1>1, AppendEffect, NextVersionType
    <3>3. ASSUME r.expected # NoVersion
          PROVE  WroteOver(req[a].version, req[a].previous)'
      <4>1. PICK v, q : v = NextVersion /\ q = r.previous
        OBVIOUS
      <4>2. WroteOver(v, q)'
        BY <1>1, <3>3, <4>1, WriterWroteOver
      <4>3. QED
        BY <3>1, <4>1, <4>2 DEF WroteOver, VersionsOf
    <3>4. QED
      BY <2>1, <3>1, <3>2, <3>3 DEF WroteOver, VersionsOf
  <2>2. CASE b # a
    <3>1. req'[b].version = req[b].version /\ req'[b].expected = req[b].expected
          /\ req'[b].previous = req[b].previous /\ req[b].pc = "written"
      BY <1>1, <2>2, CommittedRequests
    <3>2. PICK v, q : v = req[b].version /\ q = req[b].previous
      OBVIOUS
    <3>3. v \in 1 .. Len(history)
          /\ (req[b].expected # NoVersion => WroteOver(v, q))
      BY <3>1, <3>2 DEF WrittenOver
    <3>4. v \in 1 .. Len(history')
          /\ (req[b].expected # NoVersion => WroteOver(v, q)')
      BY <1>1, <3>3, AppendEffect, AppendKeepsWroteOver, NextVersionType
    <3>5. QED
      BY <3>1, <3>2, <3>4 DEF WroteOver, VersionsOf
  <2>3. QED
    BY <2>1, <2>2
<1>7. AuditedOver'
  <2>1. audit' = audit
    BY <1>1 DEF Committed
  <2>2. \A e \in audit : e.version \in 1 .. Len(history')
    BY <1>1, AppendEffect, NextVersionType DEF AuditedOver
  <2>3. \A e \in audit : e.locked => WroteOver(e.version, e.previous)'
    BY <1>1, AppendKeepsWroteOver DEF AuditedOver
  <2>4. QED
    BY <2>1, <2>2, <2>3 DEF AuditedOver, WroteOver, VersionsOf
<1>8. /\ past' = Append(past, Offered(row')) /\ settled' = settled
      /\ served' = served /\ proc' = proc /\ file' = file /\ ~confirmed'
      /\ proc = "up"
  BY <1>1 DEF Committed, process, WriteOf
<1>9. /\ \A n \in 1 .. Len(history) :
           n \in 1 .. Len(history') /\ past'[n] = past[n]
      /\ PastNow'
  BY <1>1, <1>8, AppendKeepsPast
<1>10. ListedOnce'
  <2> SUFFICES ASSUME NEW b \in Admin, req'[b].pc = "listed"
               PROVE  /\ settled' <= req'[b].seen /\ req'[b].seen <= Len(history')
                      /\ req'[b].listed # {} =>
                           req'[b].seen > 0 /\ req'[b].listed = past'[req'[b].seen]
    BY DEF ListedOnce
  <2>1. b # a
    BY <1>1, CommittedRequests
  <2>2. req'[b] = req[b] /\ req[b].pc = "listed" /\ req[b].seen \in Nat
    <3>1. req'[b] = req[b]
      BY <1>1, <2>1, CommittedRequests
    <3>2. req[b].seen \in 0 .. MaxVersion
      BY DEF TypeOK, Request
    <3>3. QED
      BY <3>1, <3>2, ProviderAssumption
  <2>3. req[b].seen <= Len(history) /\ Len(history') = Len(history) + 1
        /\ Len(history) \in Nat
    BY <1>1, <2>2, AppendEffect, NextVersionType DEF ListedOnce
  <2>4. req[b].listed # {} => req[b].listed = past'[req[b].seen] /\ req[b].seen > 0
    BY <1>9, <2>2, <2>3 DEF ListedOnce
  <2>5. settled' <= req[b].seen /\ req[b].seen <= Len(history')
    BY <1>8, <2>2, <2>3 DEF ListedOnce
  <2>6. QED
    BY <2>2, <2>4, <2>5
<1>11. ServesOneTable'
  BY <1>8, <1>9 DEF ServesOneTable
<1>12. EmptyOnlyFromFile' /\ StartJustified'
  <2>1. \E p \in Provider : Exists(p)'
    BY <1>1, AppendExists
  <2>2. QED
    BY <1>8, <2>1 DEF EmptyOnlyFromFile, StartJustified
<1>13. OnlyWhenUp'
  BY <1>8 DEF OnlyWhenUp
<1>14. QED
  BY <1>3, <1>4, <1>5, <1>6, <1>7, <1>9, <1>10, <1>11, <1>12, <1>13

(***************************************************************************)
(* Seeding one provider preserves it too: no request runs meanwhile.       *)
(***************************************************************************)
LEMMA SeedKeeps ==
  ASSUME IInv, NEW p \in Provider, Seed(p)
  PROVE  IInv'
<1> USE DEF IInv
<1> DEFINE s == [provider |-> p, content |-> Absent.content, kind |-> Absent.kind,
                 enabled |-> TRUE, deleted |-> FALSE]
<1>1. s \in Snapshot
  BY AbsentType DEF Snapshot
<1>2. Appends(s, FALSE)
  BY <1>1 DEF Seed, Appends
<1>3. /\ proc = "seeding" /\ past' = Append(past, Offered(row'))
      /\ UNCHANGED <<audit, file, proc, served, req, settled, confirmed>>
  BY DEF Seed
<1>4. \A a \in Admin : req'[a].pc = "idle"
  BY <1>3 DEF OnlyWhenUp
<1>5. TypeOK'
  BY <1>2, <1>3, AppendTypes, AppendKeepsPast DEF TypeOK, Seed
<1>6. RowIsNewestVersion'
  BY <1>2, AppendKeepsNewest
<1>7. ReadNotOlder' /\ WrittenOver' /\ ListedOnce' /\ OnlyWhenUp'
  BY <1>3, <1>4 DEF ReadNotOlder, WrittenOver, ListedOnce, OnlyWhenUp
<1>8. AuditedOver'
  <2>1. \A e \in audit : e.version \in 1 .. Len(history')
    <3>1. Len(history') = Len(history) + 1 /\ Len(history) \in Nat
      BY <1>2, AppendEffect, NextVersionType
    <3>2. \A e \in audit : e.version \in 1 .. Len(history)
      BY DEF AuditedOver
    <3>3. QED
      BY <3>1, <3>2
  <2>2. \A e \in audit : e.locked => WroteOver(e.version, e.previous)'
    BY <1>2, AppendKeepsWroteOver DEF AuditedOver
  <2>3. QED
    BY <1>3, <2>1, <2>2 DEF AuditedOver, WroteOver, VersionsOf
<1>9. PastNow'
  BY <1>2, <1>3, AppendKeepsPast
<1>10. ServesOneTable' /\ EmptyOnlyFromFile'
  BY <1>3 DEF ServesOneTable, EmptyOnlyFromFile
<1>11. StartJustified'
  BY <1>2, AppendExists DEF StartJustified
<1>12. QED
  BY <1>5, <1>6, <1>7, <1>8, <1>9, <1>10, <1>11

-----------------------------------------------------------------------------
(***************************************************************************)
(* The other steps of requests change one slot, and not the table.         *)
(***************************************************************************)
LEMMA LiveRowsType == TypeOK => LiveRows \in SUBSET Served
BY OfferedType DEF TypeOK, LiveRows

\* The parts of the invariant about requests and table survive if the new
\* slot satisfies them.
LEMMA SlotKeeps ==
  ASSUME IInv, NEW a \in Admin, NEW x \in Request,
         req' = [req EXCEPT ![a] = x], UNCHANGED <<table, proc>>,
         x.pc = "read" =>
           /\ x.expected <= x.previous
           /\ x.op = "rollback" => x.target \in VersionsOf(x.p),
         x.pc # "written",
         x.pc # "idle" => proc = "up",
         proc = "up" \/ confirmed' = confirmed
  PROVE  /\ req' \in [Admin -> Request]
         /\ RowIsNewestVersion' /\ ReadNotOlder' /\ WrittenOver'
         /\ OnlyWhenUp'
<1>1. \A b \in Admin : req'[b] = IF b = a THEN x ELSE req[b]
  BY DEF IInv, TypeOK
<1>2. req' \in [Admin -> Request]
  BY DEF IInv, TypeOK
<1>3. row' = row /\ history' = history /\ proc' = proc
  BY DEF table
<1>4. RowIsNewestVersion'
  BY <1>3 DEF IInv, RowIsNewestVersion, VersionsOf, Exists
<1>5. ReadNotOlder'
  BY <1>1, <1>3 DEF IInv, ReadNotOlder, VersionsOf
<1>6. WrittenOver'
  BY <1>1, <1>3 DEF IInv, WrittenOver, WroteOver, VersionsOf
<1>7. OnlyWhenUp'
  BY <1>1, <1>3 DEF IInv, OnlyWhenUp
<1>8. QED
  BY <1>2, <1>4, <1>5, <1>6, <1>7

\* So does the part about lists, if a new list is that of the table now.
LEMMA ListsKeep ==
  ASSUME IInv, NEW a \in Admin, NEW x, req' = [req EXCEPT ![a] = x],
         UNCHANGED <<table, recorded>>,
         x.pc = "listed" => x.listed = LiveRows /\ x.seen = Len(history)
  PROVE  ListedOnce'
<1>1. \A b \in Admin : req'[b] = IF b = a THEN x ELSE req[b]
  BY DEF IInv, TypeOK
<1>2. history' = history /\ past' = past /\ settled' = settled
  BY DEF table, recorded
<1>3. Len(history) \in Nat /\ settled <= Len(history)
  BY NextVersionType DEF IInv, TypeOK
<1>4. LiveRows # {} => Len(history) > 0 /\ LiveRows = past[Len(history)]
  BY <1>3 DEF IInv, PastNow
<1>5. QED
  BY <1>1, <1>2, <1>3, <1>4 DEF IInv, ListedOnce

\* The parts about audit log and process, for a step that touches neither.
LEMMA AuditKeeps ==
  ASSUME IInv, UNCHANGED <<table, audit>>
  PROVE  AuditedOver'
BY DEF IInv, AuditedOver, WroteOver, VersionsOf, table

\* The same for table, process and service.
LEMMA ServiceKeeps ==
  ASSUME IInv, UNCHANGED <<table, process, served, recorded>>
  PROVE  PastNow' /\ ServesOneTable' /\ EmptyOnlyFromFile' /\ StartJustified'
<1>1. /\ row' = row /\ history' = history /\ file' = file /\ proc' = proc
      /\ served' = served /\ past' = past /\ settled' = settled
      /\ confirmed' = confirmed
  BY DEF table, process, recorded
<1>2. PastNow'
  BY <1>1 DEF IInv, PastNow, LiveRows, Offered
<1>3. ServesOneTable'
  BY <1>1 DEF IInv, ServesOneTable
<1>4. EmptyOnlyFromFile' /\ StartJustified'
  BY <1>1 DEF IInv, EmptyOnlyFromFile, StartJustified, Exists
<1>5. QED
  BY <1>2, <1>3, <1>4

\* What a request expects is no newer than the row it reads with it.
LEMMA ReceiveKeeps ==
  ASSUME IInv, NEW a \in Admin, NEW op \in {"update", "delete", "rollback"},
         NEW p \in Provider, NEW v \in {NoVersion} \cup 1 .. MaxVersion,
         NEW t \in 0 .. MaxVersion, Receive(a, op, p, v, t)
  PROVE  IInv'
<1> DEFINE x == [Idle EXCEPT !.pc = "read", !.op = op, !.p = p, !.expected = v,
                             !.target = t, !.previous = row[p].version]
<1>1. row[p].version \in 0 .. MaxVersion
  BY DEF IInv, TypeOK, Row
<1>2. v \in {NoVersion} \cup 0 .. MaxVersion
  BY ProviderAssumption
<1>3. x \in Request /\ x.pc = "read" /\ x.op = op /\ x.p = p /\ x.expected = v
      /\ x.target = t /\ x.previous = row[p].version
  BY <1>1, <1>2, IdleType DEF Request, Op, Idle
<1>4. v <= row[p].version
  <2>1. v = NoVersion \/ v \in VersionsOf(p)
    BY DEF Receive
  <2>2. v \in VersionsOf(p) => v <= row[p].version
    BY DEF IInv, RowIsNewestVersion
  <2>3. QED
    BY <1>1, <2>1, <2>2, ProviderAssumption DEF NoVersion
<1>5. op = "rollback" => t \in VersionsOf(p)
  BY DEF Receive
<1>6. req' = [req EXCEPT ![a] = x] /\ proc = "up"
      /\ UNCHANGED <<table, audit, process, served, recorded>>
  BY DEF Receive
<1>7. proc' = proc /\ confirmed' = confirmed
  BY <1>6 DEF process, recorded
<1>8. /\ req' \in [Admin -> Request]
      /\ RowIsNewestVersion' /\ ReadNotOlder' /\ WrittenOver'
      /\ OnlyWhenUp'
  BY <1>3, <1>4, <1>5, <1>6, <1>7, SlotKeeps
<1>9. ListedOnce'
  BY <1>3, <1>6, ListsKeep
<1>10. /\ AuditedOver' /\ PastNow' /\ ServesOneTable' /\ EmptyOnlyFromFile'
       /\ StartJustified'
  BY <1>6, AuditKeeps, ServiceKeeps
<1>11. TypeOK'
  BY <1>6, <1>8 DEF IInv, TypeOK, table, process, recorded
<1>12. QED
  BY <1>8, <1>9, <1>10, <1>11 DEF IInv

\* A reload that has read the table.
LEMMA ReceiveReloadKeeps ==
  ASSUME IInv, NEW a \in Admin, ReceiveReload(a)
  PROVE  IInv'
<1> DEFINE x == [Idle EXCEPT !.pc = "listed", !.listed = LiveRows,
                             !.seen = Len(history)]
<1>1. Len(history) \in 0 .. MaxVersion
  BY NextVersionType, ProviderAssumption DEF IInv, TypeOK
<1>2. x \in Request /\ x.pc = "listed" /\ x.listed = LiveRows
      /\ x.seen = Len(history)
  BY <1>1, IdleType, LiveRowsType DEF Request, Idle, IInv
<1>3. req' = [req EXCEPT ![a] = x] /\ proc = "up"
      /\ UNCHANGED <<table, audit, process, served, recorded>>
  BY DEF ReceiveReload
<1>4. proc' = proc
  BY <1>3 DEF process
<1>5. /\ req' \in [Admin -> Request]
      /\ RowIsNewestVersion' /\ ReadNotOlder' /\ WrittenOver'
      /\ OnlyWhenUp'
  BY <1>2, <1>3, <1>4, SlotKeeps
<1>6. ListedOnce'
  BY <1>2, <1>3, ListsKeep
<1>7. /\ AuditedOver' /\ PastNow' /\ ServesOneTable' /\ EmptyOnlyFromFile'
      /\ StartJustified'
  BY <1>3, AuditKeeps, ServiceKeeps
<1>8. TypeOK'
  BY <1>3, <1>5 DEF IInv, TypeOK, table, process, recorded
<1>9. QED
  BY <1>5, <1>6, <1>7, <1>8 DEF IInv

\* What is audited is what was written.
LEMMA AuditAndListKeeps ==
  ASSUME IInv, NEW a \in Admin, AuditAndList(a)
  PROVE  IInv'
<1> DEFINE r == req[a]
           x == [r EXCEPT !.pc = "listed", !.listed = LiveRows,
                          !.seen = Len(history)]
           entry == [version |-> r.version, previous |-> r.previous,
                     locked |-> r.expected # NoVersion]
<1>1. r \in Request /\ r.pc = "written" /\ proc = "up"
  BY DEF IInv, TypeOK, AuditAndList, OnlyWhenUp
<1>2. Len(history) \in 0 .. MaxVersion
  BY NextVersionType, ProviderAssumption DEF IInv, TypeOK
<1>3. x \in Request /\ x.pc = "listed" /\ x.listed = LiveRows
      /\ x.seen = Len(history)
  BY <1>1, <1>2, LiveRowsType DEF Request, IInv
<1>4. req' = [req EXCEPT ![a] = x]
  BY <1>1 DEF AuditAndList, Request, IInv, TypeOK
<1>5. audit' = audit \cup {entry}
      /\ UNCHANGED <<table, process, served, recorded>>
  BY DEF AuditAndList
<1>6. proc' = proc
  BY <1>5 DEF process
<1>7. /\ req' \in [Admin -> Request]
      /\ RowIsNewestVersion' /\ ReadNotOlder' /\ WrittenOver'
      /\ OnlyWhenUp'
  BY <1>1, <1>3, <1>4, <1>5, <1>6, SlotKeeps
<1>8. ListedOnce'
  BY <1>3, <1>4, <1>5, ListsKeep
<1>9. entry.version \in 1 .. Len(history)
      /\ (entry.locked => WroteOver(entry.version, entry.previous))
  BY <1>1 DEF IInv, WrittenOver
<1>10. AuditedOver'
  BY <1>5, <1>9 DEF IInv, AuditedOver, WroteOver, VersionsOf, table
<1>11. PastNow' /\ ServesOneTable' /\ EmptyOnlyFromFile' /\ StartJustified'
  BY <1>5, ServiceKeeps
<1>12. entry \in [version : 1 .. MaxVersion, previous : 0 .. MaxVersion,
                  locked : BOOLEAN]
  <2>1. entry.version \in 1 .. MaxVersion
    BY <1>2, <1>9, ProviderAssumption
  <2>2. entry.previous \in 0 .. MaxVersion
    BY <1>1 DEF Request
  <2>3. QED
    BY <2>1, <2>2
<1>13. TypeOK'
  BY <1>5, <1>7, <1>12 DEF IInv, TypeOK, table, process, recorded
<1>14. QED
  BY <1>7, <1>8, <1>10, <1>11, <1>13 DEF IInv

\* What is swapped in is the table at the moment the list was read; what is
\* settled by it is no newer than any other list.
LEMMA InstallKeeps ==
  ASSUME IInv, NEW a \in Admin, Install(a)
  PROVE  IInv'
<1> DEFINE r == req[a]
<1>1. /\ req' = [req EXCEPT ![a] = Idle] /\ UNCHANGED <<table, audit, process, past>>
      /\ served' = r.listed /\ settled' = SettledBy(a)
      /\ confirmed' = (confirmed \/ r.version = Len(history))
      /\ r.pc = "listed" /\ Buildable(r.listed)
  BY DEF Install
<1>2. r \in Request /\ r.seen \in Nat
  BY ProviderAssumption DEF IInv, TypeOK, Request
<1>3. /\ row' = row /\ history' = history /\ proc' = proc /\ file' = file
      /\ toSeed' = toSeed
  BY <1>1 DEF table, process
<1>4. proc = "up"
  BY <1>1 DEF IInv, OnlyWhenUp
<1>5. Idle \in Request /\ Idle.pc = "idle"
  BY IdleType DEF Idle
<1>6. /\ req' \in [Admin -> Request]
      /\ RowIsNewestVersion' /\ ReadNotOlder' /\ WrittenOver'
      /\ OnlyWhenUp'
  BY <1>1, <1>3, <1>4, <1>5, SlotKeeps
<1>7. AuditedOver'
  BY <1>1, AuditKeeps
<1>8. PastNow'
  BY <1>1, <1>3 DEF IInv, PastNow, LiveRows, Offered
<1>9. /\ settled <= r.seen /\ r.seen <= Len(history)
      /\ r.seen > 0 /\ r.listed = past[r.seen]
  BY <1>1 DEF Buildable, IInv, ListedOnce
<1>10. settled \in Nat /\ Len(history) \in Nat
  BY NextVersionType DEF IInv, TypeOK
<1>11. settled' \in 0 .. Len(history) /\ settled' <= r.seen
       /\ (settled' = settled
            \/ \A b \in Admin : req[b].pc = "listed" => settled' <= req[b].seen)
  BY <1>1, <1>2, <1>9, <1>10 DEF SettledBy
<1>12. ListedOnce'
  <2> SUFFICES ASSUME NEW b \in Admin, req'[b].pc = "listed"
               PROVE  /\ settled' <= req'[b].seen /\ req'[b].seen <= Len(history')
                      /\ req'[b].listed # {} =>
                           req'[b].seen > 0 /\ req'[b].listed = past'[req'[b].seen]
    BY DEF ListedOnce
  <2>1. req'[b] = req[b] /\ req[b].pc = "listed"
    BY <1>1, <1>5 DEF IInv, TypeOK
  <2>2. settled' <= req[b].seen
    BY <1>11, <2>1 DEF IInv, ListedOnce
  <2>3. QED
    BY <1>1, <1>3, <2>1, <2>2 DEF IInv, ListedOnce
<1>13. ServesOneTable'
  BY <1>1, <1>2, <1>3, <1>9, <1>10, <1>11 DEF ServesOneTable
<1>14. EmptyOnlyFromFile' /\ StartJustified'
  BY <1>1, <1>3, <1>4 DEF Buildable, EmptyOnlyFromFile, StartJustified, Exists, IInv
<1>15. served' \in SUBSET Served /\ confirmed' \in BOOLEAN
  BY <1>1, <1>2 DEF Request, IInv, TypeOK
<1>16. TypeOK'
  BY <1>1, <1>3, <1>6, <1>11, <1>15 DEF IInv, TypeOK
<1>17. QED
  BY <1>6, <1>7, <1>8, <1>12, <1>13, <1>14, <1>16 DEF IInv

\* A request that ends leaves nothing that anyone relies on.
LEMMA GiveUpKeeps ==
  ASSUME IInv, NEW a \in Admin, GiveUp(a)
  PROVE  IInv'
<1>1. req' = [req EXCEPT ![a] = Idle]
      /\ UNCHANGED <<table, audit, process, served, recorded>>
  BY DEF GiveUp
<1>2. proc' = proc /\ confirmed' = confirmed
  BY <1>1 DEF process, recorded
<1>3. Idle \in Request /\ Idle.pc = "idle"
  BY IdleType DEF Idle
<1>4. /\ req' \in [Admin -> Request]
      /\ RowIsNewestVersion' /\ ReadNotOlder' /\ WrittenOver'
      /\ OnlyWhenUp'
  BY <1>1, <1>2, <1>3, SlotKeeps
<1>5. ListedOnce'
  BY <1>1, <1>3, ListsKeep
<1>6. /\ AuditedOver' /\ PastNow' /\ ServesOneTable' /\ EmptyOnlyFromFile'
      /\ StartJustified'
  BY <1>1, AuditKeeps, ServiceKeeps
<1>7. TypeOK'
  BY <1>1, <1>4 DEF IInv, TypeOK, table, process, recorded
<1>8. QED
  BY <1>4, <1>5, <1>6, <1>7 DEF IInv

-----------------------------------------------------------------------------
(***************************************************************************)
(* Starting, stopping and editing the file.  With no request under way,    *)
(* only the snapshot in service is to be looked at.                        *)
(***************************************************************************)
LEMMA ProcessKeeps ==
  ASSUME IInv, Start \/ Boot \/ Stop \/ (\E F \in SUBSET Provider : EditFile(F))
  PROVE  IInv'
<1> USE DEF IInv
<1>1. /\ row' = row /\ history' = history /\ audit' = audit /\ past' = past
  BY DEF Start, Boot, Stop, EditFile, table, recorded
<1>2. (\A a \in Admin : req'[a].pc = "idle") /\ req' \in [Admin -> Request]
  <2>1. CASE Start \/ Boot \/ \E F \in SUBSET Provider : EditFile(F)
    BY <2>1 DEF Start, Boot, EditFile, OnlyWhenUp, TypeOK
  <2>2. CASE Stop
    BY <2>2, IdleType DEF Stop, Idle
  <2>3. QED
    BY <2>1, <2>2
<1>3. ~confirmed'
  BY DEF Start, Boot, Stop, EditFile, recorded, OnlyWhenUp
<1>4. RowIsNewestVersion' /\ AuditedOver'
  BY <1>1 DEF RowIsNewestVersion, AuditedOver, WroteOver, VersionsOf, Exists
<1>5. ReadNotOlder' /\ WrittenOver' /\ ListedOnce' /\ OnlyWhenUp'
  BY <1>2, <1>3 DEF ReadNotOlder, WrittenOver, ListedOnce, OnlyWhenUp
<1>6. PastNow'
  BY <1>1 DEF PastNow, LiveRows, Offered
<1>7. StartJustified'
  <2>1. (\E p \in Provider : Exists(p)') <=> \E p \in Provider : Exists(p)
    BY <1>1 DEF Exists
  <2>2. CASE Start
    BY <2>1, <2>2 DEF Start, Configured, StartJustified
  <2>3. CASE Boot
    BY <2>1, <2>3 DEF Boot, StartJustified
  <2>4. CASE Stop \/ \E F \in SUBSET Provider : EditFile(F)
    BY <2>4 DEF Stop, EditFile, StartJustified
  <2>5. QED
    BY <2>2, <2>3, <2>4
<1>8. LiveRows # {} => Len(history) > 0 /\ LiveRows = past[Len(history)]
  BY NextVersionType DEF PastNow
<1>9. ServesOneTable'
  <2>1. CASE Boot
    BY <1>1, <1>8, <2>1, NextVersionType DEF Boot, Buildable, ServesOneTable
  <2>2. CASE Start \/ Stop \/ \E F \in SUBSET Provider : EditFile(F)
    BY <2>2 DEF Start, Stop, EditFile, ServesOneTable
  <2>3. QED
    BY <2>1, <2>2
<1>10. EmptyOnlyFromFile'
  <2>1. CASE Boot
    <3>1. file \subseteq Supported /\ file' = file /\ proc = "seeding"
      BY <2>1 DEF Boot
    <3>2. \A s \in served' : s[1] \in Supported
      BY <2>1, <3>1 DEF Boot, Buildable
    <3>3. ASSUME served' = {}
          PROVE  file' = {} /\ settled' = 0
      <4>1. served' = file \X {FromFile} /\ settled' = 0
        BY <2>1, <3>3 DEF Boot, Buildable
      <4>2. \A p \in file : <<p, FromFile>> \in file \X {FromFile}
        OBVIOUS
      <4>3. QED
        BY <3>1, <3>3, <4>1, <4>2
    <3>4. file' = {} => \E p \in Provider : Exists(p)'
      BY <1>1, <3>1 DEF StartJustified, Exists
    <3>5. QED
      BY <1>3, <3>2, <3>3, <3>4 DEF EmptyOnlyFromFile
  <2>2. CASE Start \/ Stop \/ \E F \in SUBSET Provider : EditFile(F)
    BY <2>2 DEF Start, Stop, EditFile, EmptyOnlyFromFile
  <2>3. QED
    BY <2>1, <2>2
<1>11. /\ proc' \in {"down", "seeding", "up"} /\ file' \subseteq Provider
       /\ toSeed' \subseteq Provider /\ served' \subseteq Served
       /\ settled' \in 0 .. Len(history)
  <2>1. file \X {FromFile} \subseteq Served
    BY ProviderAssumption DEF Served, FromFile, TypeOK
  <2>2. LiveRows \subseteq Served
    BY LiveRowsType
  <2>3. Len(history) \in Nat
    BY NextVersionType
  <2>4. CASE Start \/ Boot \/ Stop
    BY <2>1, <2>2, <2>3, <2>4 DEF Start, Boot, Stop, TypeOK, recorded
  <2>5. CASE \E F \in SUBSET Provider : EditFile(F)
    BY <2>5 DEF EditFile, TypeOK, recorded
  <2>6. QED
    BY <2>4, <2>5
<1>12. confirmed' \in BOOLEAN
  BY DEF Start, Boot, Stop, EditFile, recorded, TypeOK
<1>13. TypeOK'
  BY <1>1, <1>2, <1>11, <1>12 DEF TypeOK
<1>14. QED
  BY <1>4, <1>5, <1>6, <1>7, <1>9, <1>10, <1>13

-----------------------------------------------------------------------------
(***************************************************************************)
(* IInv is an inductive invariant.                                         *)
(***************************************************************************)
LEMMA InitIInv == Init => IInv
<1> SUFFICES ASSUME Init PROVE IInv
  OBVIOUS
<1>1. TypeOK
  <2>1. history \in Seq(Snapshot) /\ Len(history) <= MaxVersion
    BY ProviderAssumption DEF Init
  <2>2. row \in [Provider -> Row]
    BY AbsentType DEF Init
  <2>3. req \in [Admin -> Request]
    BY IdleType DEF Init
  <2>4. past \in Seq(SUBSET Served) /\ Len(past) = Len(history)
        /\ settled \in 0 .. Len(history)
    BY DEF Init
  <2>5. QED
    BY <2>1, <2>2, <2>3, <2>4 DEF Init, TypeOK
<1>2. RowIsNewestVersion
  BY DEF Init, RowIsNewestVersion, VersionsOf, Exists, Absent
<1>3. ReadNotOlder /\ WrittenOver /\ ListedOnce /\ OnlyWhenUp
  BY DEF Init, Idle, ReadNotOlder, WrittenOver, ListedOnce, OnlyWhenUp
<1>4. AuditedOver /\ ServesOneTable /\ EmptyOnlyFromFile /\ StartJustified
  BY DEF Init, AuditedOver, ServesOneTable, EmptyOnlyFromFile, StartJustified
<1>5. PastNow
  <2>1. LiveRows = {}
    BY DEF Init, LiveRows, Offered, Absent
  <2>2. QED
    BY <2>1 DEF Init, PastNow
<1>6. QED
  BY <1>1, <1>2, <1>3, <1>4, <1>5 DEF IInv

\* Every step preserves it.
LEMMA NextIInv == IInv /\ [Next]_vars => IInv'
<1> SUFFICES ASSUME IInv, [Next]_vars PROVE IInv'
  OBVIOUS
<1>1. ASSUME NEW a \in Admin, NEW p \in Provider, NEW c \in Content,
             NEW k \in Kind, NEW e \in BOOLEAN, Create(a, p, c, k, e)
      PROVE  IInv'
  BY <1>1, CreateWrites, WriteKeeps DEF IInv
<1>2. ASSUME NEW a \in Admin, NEW c \in Content, NEW k \in Kind,
             NEW e \in BOOLEAN, Update(a, c, k, e)
      PROVE  IInv'
  BY <1>2, UpdateWrites, WriteKeeps DEF IInv
<1>3. ASSUME NEW a \in Admin, Delete(a)
      PROVE  IInv'
  BY <1>3, DeleteWrites, WriteKeeps DEF IInv
<1>4. ASSUME NEW a \in Admin, Rollback(a)
      PROVE  IInv'
  BY <1>4, RollbackWrites, WriteKeeps DEF IInv
<1>5. ASSUME NEW a \in Admin, AuditAndList(a)
      PROVE  IInv'
  BY <1>5, AuditAndListKeeps
<1>6. ASSUME NEW a \in Admin, ReceiveReload(a)
      PROVE  IInv'
  BY <1>6, ReceiveReloadKeeps
<1>7. ASSUME NEW a \in Admin, Install(a)
      PROVE  IInv'
  BY <1>7, InstallKeeps
<1>8. ASSUME NEW a \in Admin, GiveUp(a)
      PROVE  IInv'
  BY <1>8, GiveUpKeeps
<1>9. ASSUME NEW p \in Provider, Seed(p)
      PROVE  IInv'
  BY <1>9, SeedKeeps
<1>10. CASE Start \/ Boot \/ Stop \/ \E F \in SUBSET Provider : EditFile(F)
  BY <1>10, ProcessKeeps
<1>11. CASE UNCHANGED vars
  BY <1>11 DEF IInv, TypeOK, RowIsNewestVersion, ReadNotOlder, WrittenOver,
               AuditedOver, WroteOver, PastNow, ListedOnce, ServesOneTable,
               EmptyOnlyFromFile, OnlyWhenUp, StartJustified, VersionsOf, LiveRows,
               Offered, Exists, vars
<1>12. ASSUME NEW a \in Admin, NEW op \in {"update", "delete", "rollback"},
              NEW p \in Provider, NEW v \in {NoVersion} \cup 1 .. MaxVersion,
              NEW t \in 0 .. MaxVersion, Receive(a, op, p, v, t)
       PROVE  IInv'
  BY <1>12, ReceiveKeeps
<1>13. QED
  BY <1>1, <1>2, <1>3, <1>4, <1>5, <1>6, <1>7, <1>8, <1>9, <1>10, <1>11, <1>12
     DEF Next

\* So it holds in every reachable state.
LEMMA Inductive == Spec => []IInv
BY InitIInv, NextIInv, PTL DEF Spec

-----------------------------------------------------------------------------
(***************************************************************************)
(* Every reachable state is well-typed.                                    *)
(***************************************************************************)
THEOREM TypeCorrect == Spec => []TypeOK
<1>1. IInv => TypeOK
  BY DEF IInv
<1>2. QED
  BY <1>1, Inductive, PTL

(***************************************************************************)
(* Table and history do not drift apart: every row points to the newest    *)
(* version of its provider, which describes it.                            *)
(***************************************************************************)
THEOREM HistoryMatchesTable == Spec => []RowIsNewestVersion
<1>1. IInv => RowIsNewestVersion
  BY DEF IInv
<1>2. QED
  BY <1>1, Inductive, PTL

(***************************************************************************)
(* The audit log of a locked write names the version it replaced, whoever  *)
(* else was writing.                                                       *)
(***************************************************************************)
THEOREM AuditTruthful == Spec => []AuditTellsReplaced
<1>1. IInv => AuditTellsReplaced
  BY DEF IInv, AuditedOver, WroteOver, AuditTellsReplaced
<1>2. QED
  BY <1>1, Inductive, PTL

(***************************************************************************)
(* However reloads, writes, crashes and restarts interleave, the process   *)
(* serves the table of one moment, no older than what is settled, or the   *)
(* config file as long as nothing is.                                      *)
(***************************************************************************)
THEOREM ServiceIsOneTable == Spec => []ServesOneTable
<1>1. IInv => ServesOneTable
  BY DEF IInv
<1>2. QED
  BY <1>1, Inductive, PTL

(***************************************************************************)
(* A process that serves nothing has an empty config file, a table that    *)
(* has had rows, and no answered reload; what is served has an adapter.    *)
(***************************************************************************)
THEOREM EmptyExplained == Spec => []EmptyOnlyFromFile
<1>1. IInv => EmptyOnlyFromFile
  BY DEF IInv
<1>2. QED
  BY <1>1, Inductive, PTL
=============================================================================
