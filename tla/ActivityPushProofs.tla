------------------------- MODULE ActivityPushProofs -------------------------
(***************************************************************************)
(* The outbox of ActivityPush loses no change, whatever the sets of        *)
(* resources, kinds and drainers and whatever the bounds; and its ledger   *)
(* is good for something: it is never ahead of community, no tombstone     *)
(* opens a key's history, a backfill notifies nobody, and with one drainer *)
(* hidden content leaves the feed.                                         *)
(***************************************************************************)
EXTENDS ActivityPush, TLAPS

\* A key names a resource.
LEMMA KeyIsPair == \A k \in Key : k[1] \in Kinds /\ k[2] \in Resources
  BY DEF Key

\* An upsert keeps the queue a table.
LEMMA EnqueueType ==
  ASSUME NEW K, NEW b \in BOOLEAN, TypeOK, Enqueue(K, b)
  PROVE  /\ queue' \in [Key -> [at : Nat, backfill : BOOLEAN]]
         /\ skipped' \subseteq Key
  BY ConstantAssumption DEF TypeOK, Enqueue

\* A trigger's upsert too, and it moves only the marks of what it enqueues.
LEMMA TriggerType ==
  ASSUME NEW K, TypeOK, TriggerEnqueue(K)
  PROVE  /\ queue' \in [Key -> [at : Nat, backfill : BOOLEAN]]
         /\ skipped' \subseteq Key
         /\ mark' \in [Key -> Nat]
  BY EnqueueType DEF TriggerEnqueue, TypeOK

\* A writer's transaction leaves well-formed tables.
LEMMA WriteRowType ==
  ASSUME NEW r \in Resources, NEW new \in RowType, NEW K, TypeOK, WriteRow(r, new, K)
  PROVE  TypeOK'
  <1>1. row' \in [Resources -> RowType]
    BY DEF WriteRow, TypeOK
  <1>2. changes' \in Nat
    BY DEF WriteRow, Changed, TypeOK
  <1> QED
    BY <1>1, <1>2, TriggerType DEF WriteRow, TypeOK, local, tick, recon, remote

\* What ends a tick resets the drainer's own state.
LEMMA EndTickType ==
  ASSUME NEW d \in Drainers, TypeOK, EndTick(d)
  PROVE  /\ pc' \in [Drainers -> {"idle", "claimed", "rows", "works", "built",
                                  "written", "recorded"}]
         /\ claim' \in [Drainers -> [Key -> Nat]]
         /\ flag' \in [Drainers -> [Key -> BOOLEAN]]
         /\ rev' \in [Drainers -> Nat]
         /\ rows' \in [Drainers -> [Resources -> RowType]]
         /\ works' \in [Drainers -> [Resources -> WorkType]]
         /\ item' \in [Drainers -> [Key -> Item]]
         /\ accepted' \in [Drainers -> [Key -> {"none", "live", "tomb"}]]
  <1>1. /\ NoRow \in RowType /\ NoWork \in WorkType /\ NoItem \in Item
    BY DEF NoRow, RowType, NoWork, WorkType, NoItem, Item, Blank, Content
  <1> QED
    BY <1>1 DEF EndTick, DropReads, TypeOK

LEMMA InitType == Init => TypeOK
  <1> SUFFICES ASSUME Init PROVE TypeOK
    OBVIOUS
  <1>1. /\ NoRow \in RowType /\ NoWork \in WorkType /\ NoItem \in Item
        /\ Unseen \in CommType
    BY DEF NoRow, RowType, NoWork, WorkType, NoItem, Item, Unseen, CommType, Blank, Content
  <1>2. row \in [Resources -> RowType]
    <2>1. ASSUME NEW x \in InitRow PROVE x \in RowType
      <3>1. CASE x = NoRow
        BY <1>1, <3>1
      <3>2. CASE x # NoRow
        <4>1. PICK p \in BOOLEAN, e \in {0, 1} :
                x = [exists |-> TRUE, public |-> p, ver |-> 1, dipped |-> FALSE, edits |-> e]
          BY <3>2 DEF InitRow
        <4> QED
          BY <4>1 DEF RowType
      <3> QED
        BY <3>1, <3>2
    <2> QED
      BY <2>1 DEF Init
  <1>3. catalog \in [Resources -> WorkType]
    BY DEF Init, WorkType
  <1>4. queue \in [Key -> [at : Nat, backfill : BOOLEAN]]
    BY DEF Init, NoQueueRow
  <1> QED
    BY <1>1, <1>2, <1>3, <1>4 DEF Init, TypeOK

\* The parts of the state that each group of actions leaves alone.
LEMMA WritersType ==
  ASSUME NEW r \in Resources, TypeOK, Writer(r) \/ SyncClaim(r) \/ MarkIndexed(r)
  PROVE  TypeOK'
  <1>1. row[r] \in RowType /\ catalog[r] \in WorkType
    BY DEF TypeOK
  <1>2. CASE CreateResource(r)
    BY <1>1, <1>2, WriteRowType DEF CreateResource, RowType
  <1>3. CASE UpdateResource(r)
    <2>1. row[r].ver + 1 \in Nat /\ row[r].edits + 1 \in Nat
      BY <1>1 DEF RowType
    <2>2. [row[r] EXCEPT !.ver = @ + 1, !.edits = @ + 1] \in RowType
      BY <1>1, <2>1, Zenon DEF RowType
    <2> QED
      BY <1>3, <2>2, WriteRowType DEF UpdateResource
  <1>4. CASE ToggleResource(r)
    BY <1>1, <1>4, WriteRowType DEF ToggleResource, RowType
  <1>5. CASE DeleteResource(r)
    BY <1>1, <1>5, WriteRowType DEF DeleteResource, RowType
  <1>6. CASE CatalogRename(r)
    <2>1. catalog[r].title + 1 \in Nat
      BY <1>1 DEF WorkType
    <2>2. [catalog[r] EXCEPT !.title = @ + 1] \in WorkType
      BY <1>1, <2>1, Zenon DEF WorkType
    <2>3. catalog' \in [Resources -> WorkType]
      BY <1>6, <2>2 DEF CatalogRename, TypeOK
    <2>4. changes' \in Nat
      BY <1>6 DEF CatalogRename, Changed, TypeOK
    <2> QED
      BY <1>6, <2>3, <2>4 DEF CatalogRename, TypeOK, tick, recon, remote
  <1>7. CASE CatalogFlip(r)
    <2>1. catalog' \in [Resources -> WorkType]
      BY <1>1, <1>7 DEF CatalogFlip, TypeOK, WorkType
    <2>2. changes' \in Nat
      BY <1>7 DEF CatalogFlip, Changed, TypeOK
    <2>3. unread' \in [Resources -> Nat]
      BY <1>7 DEF CatalogFlip, TypeOK
    <2> QED
      BY <1>7, <2>1, <2>2, <2>3 DEF CatalogFlip, TypeOK, tick, recon, remote
  <1>9. LastRead(r) \in BOOLEAN
    BY <1>1, Zenon DEF LastRead, WorkType
  <1>8. CASE SyncClaim(r)
    <2>1. unread' \in [Resources -> Nat]
      BY <1>8 DEF SyncClaim, TypeOK
    <2>2. CASE SetPublished(r, ~LastRead(r))
      BY <1>8, <2>1, <2>2, TriggerType
      DEF SyncClaim, SetPublished, TypeOK, tick, recon, remote
    <2>3. CASE UNCHANGED <<published, queue, mark, skipped>>
      BY <1>8, <2>1, <2>3 DEF SyncClaim, TypeOK, tick, recon, remote
    <2> QED
      BY <1>8, <2>2, <2>3 DEF SyncClaim
  <1>10. CASE MarkIndexed(r)
    BY <1>10, TriggerType DEF MarkIndexed, SetPublished, TypeOK, tick, recon, remote
  <1> QED
    BY <1>2, <1>3, <1>4, <1>5, <1>6, <1>7, <1>8, <1>10 DEF Writer

LEMMA ItemForType ==
  ASSUME NEW d \in Drainers, NEW k \in Key, TypeOK
  PROVE  ItemFor(d, k) \in Item
  <1>1. NoItem \in Item /\ Blank \in Content
    BY DEF NoItem, Item, Blank, Content
  <1>2. k[2] \in Resources
    BY KeyIsPair
  <1>3. /\ rows[d][k[2]] \in RowType
        /\ works[d][k[2]] \in WorkType
        /\ row[k[2]] \in RowType
    BY <1>2 DEF TypeOK
  <1>4. Resolved(k, rows[d], works[d], row) \in [op : {"none", "live"}, content : Content]
    BY <1>1, <1>3 DEF Resolved, Content, RowType, WorkType
  <1>5. CASE claim[d][k] = 0
    BY <1>1, <1>5 DEF ItemFor
  <1>6. CASE claim[d][k] # 0 /\ Resolved(k, rows[d], works[d], row).op = "live"
    <2>1. ItemFor(d, k) = [op |-> "live",
                           content |-> Resolved(k, rows[d], works[d], row).content,
                           notify |-> NotifyFor(d, k)]
      BY <1>6 DEF ItemFor
    <2> QED
      BY <2>1, <1>4 DEF Item, NotifyFor
  <1>7. CASE claim[d][k] # 0 /\ Resolved(k, rows[d], works[d], row).op # "live"
    <2>1. [NoItem EXCEPT !.op = "tomb"] \in Item
      BY <1>1 DEF NoItem, Item
    <2> QED
      BY <1>1, <1>7, <2>1 DEF ItemFor
  <1> QED
    BY <1>5, <1>6, <1>7

LEMMA TickType ==
  ASSUME NEW d \in Drainers, TypeOK, TickStep(d) \/ Fail(d) \/ WriteLost(d)
  PROVE  TypeOK'
  <1> USE DEF local, recon, remote
  <1>0. Items(d) \subseteq Key
    BY DEF Items
  <1>1. CASE Claim(d)
    BY <1>1 DEF Claim, TypeOK
  <1>2. CASE ReadRows(d)
    BY <1>2 DEF ReadRows, TypeOK
  <1>3. CASE ReadWorks(d)
    BY <1>3 DEF ReadWorks, TypeOK
  <1>4. CASE BuildItems(d)
    <2>1. item' \in [Drainers -> [Key -> Item]]
      BY <1>4, ItemForType DEF BuildItems, TypeOK
    <2>2. NoRow \in RowType /\ NoWork \in WorkType
      BY DEF NoRow, RowType, NoWork, WorkType
    <2> QED
      BY <1>4, <2>1, <2>2 DEF BuildItems, DropReads, TypeOK
  <1>5. CASE Write(d)
    <2>1. NoItem \in Item
      BY DEF NoItem, Item, Blank, Content
    <2>2. \A k \in Key : Stored(item[d][k], rev[d]) \in CommType
      BY DEF Stored, TypeOK, Item, CommType
    <2>3. comm' \in [Key -> CommType]
      BY <1>5, <2>2 DEF Write, TypeOK
    <2>4. accepted' \in [Drainers -> [Key -> {"none", "live", "tomb"}]]
      BY <1>5 DEF Write, TypeOK, Item
    <2>5. notified' \subseteq Key /\ skipped' \subseteq Key /\ faults' \in Nat
      BY <1>0, <1>5 DEF Write, Kept, TypeOK
    <2> QED
      BY <1>5, <2>1, <2>3, <2>4, <2>5 DEF Write, TypeOK
  <1>6. CASE Record(d)
    BY <1>6 DEF Record, Newest, TypeOK
  <1>7. CASE Ack(d)
    BY <1>7, EndTickType DEF Ack, NoQueueRow, TypeOK
  <1>8. CASE Fail(d)
    <2>1. faults' \in Nat
      BY <1>8 DEF Fail, TypeOK
    <2>2. EndTick(d)
      BY <1>8 DEF Fail
    <2> QED
      BY <1>8, <2>1, <2>2, EndTickType DEF Fail, TypeOK
  <1>9. CASE WriteLost(d)
    <2>1. wire' \subseteq [key : Key, rev : Nat, item : Item]
      BY <1>0, <1>9 DEF WriteLost, TypeOK
    <2>2. faults' \in Nat
      BY <1>9 DEF WriteLost, TypeOK
    <2>3. EndTick(d)
      BY <1>9 DEF WriteLost
    <2> QED
      BY <1>9, <2>1, <2>2, <2>3, EndTickType DEF WriteLost, TypeOK
  <1> QED
    BY <1>1, <1>2, <1>3, <1>4, <1>5, <1>6, <1>7, <1>8, <1>9 DEF TickStep

LEMMA LandType ==
  ASSUME NEW m \in wire, TypeOK, Land(m)
  PROVE  TypeOK'
  <1>1. m.key \in Key /\ m.rev \in Nat /\ m.item \in Item
    BY DEF TypeOK
  <1>2. Stored(m.item, m.rev) \in CommType
    BY <1>1 DEF Stored, Item, CommType
  <1>3. comm' \in [Key -> CommType]
    BY <1>1, <1>2 DEF Land, TypeOK
  <1>4. notified' \subseteq Key
    BY <1>1 DEF Land, TypeOK
  <1>5. wire' \subseteq [key : Key, rev : Nat, item : Item]
    BY DEF Land, TypeOK
  <1> QED
    BY <1>3, <1>4, <1>5 DEF Land, TypeOK, local, tick, recon

LEMMA ReconcileType ==
  ASSUME TypeOK, RecStep \/ RecFail
  PROVE  TypeOK'
  <1> USE DEF local, tick, remote
  <1>0. Unseen \in CommType
    BY DEF Unseen, CommType, Blank, Content
  <1>1. CASE RecList
    BY <1>1 DEF RecList, TypeOK
  <1>2. CASE RecRecord
    <2>1. \A k \in Key : listing[k] \in CommType
      BY DEF TypeOK
    <2> QED
      BY <1>2, <2>1 DEF RecRecord, Newest, TypeOK, CommType
  <1>3. CASE RecCompare
    BY <1>0, <1>3 DEF RecCompare, TypeOK
  <1>4. CASE RecEnqueue
    BY <1>0, <1>4, EnqueueType DEF RecEnqueue, EndReconcile, TypeOK
  <1>5. CASE RecFail
    <2>1. PICK K : Enqueue(K, TRUE)
      BY <1>5 DEF RecFail
    <2>2. /\ queue' \in [Key -> [at : Nat, backfill : BOOLEAN]]
          /\ skipped' \subseteq Key
      BY <2>1, EnqueueType
    <2>3. faults' \in Nat
      BY <1>5 DEF RecFail, TypeOK
    <2> QED
      BY <1>0, <1>5, <2>2, <2>3 DEF RecFail, EndReconcile, TypeOK
  <1> QED
    BY <1>1, <1>2, <1>3, <1>4, <1>5 DEF RecStep

LEMMA StutterType == TypeOK /\ UNCHANGED vars => TypeOK'
  BY DEF TypeOK, vars, local, tick, recon, remote

LEMMA NextType == TypeOK /\ [Next]_vars => TypeOK'
  BY WritersType, TickType, LandType, ReconcileType, StutterType DEF Next

\* The state of the outbox, the ledger, the ticks and the reconcile keeps its
\* shape: every table stays a total function and every counter a number.
THEOREM TypeCorrect == Spec => []TypeOK
  BY InitType, NextType, PTL DEF Spec

-----------------------------------------------------------------------------
(* Freshness *)

\* An enqueued row gets a stamp no claim holds; other rows stay put.
LEMMA EnqueueMoves ==
  ASSUME NEW K, NEW b \in BOOLEAN, TypeOK, Enqueue(K, b), NEW k \in Key
  PROVE  /\ k \in K => /\ queue'[k].at # 0
                       /\ \A d \in Drainers : claim[d][k] # queue'[k].at
                       /\ k \notin skipped'
         /\ k \notin K => /\ queue'[k] = queue[k]
                          /\ k \in skipped' <=> k \in skipped
  <1>1. PICK t \in Stamps :
          /\ LaterThanHeld(t, K)
          /\ queue' = [j \in Key |->
               IF j \notin K THEN queue[j]
               ELSE [at |-> t,
                     backfill |-> b /\ (queue[j].at # 0 => queue[j].backfill)]]
    BY DEF Enqueue
  <1>2. t \in Nat \ {0}
    BY ConstantAssumption
  <1>3. ASSUME NEW d \in Drainers PROVE claim[d][k] < t
    <2>1. claim[d][k] \in Held(K)
      BY DEF Held
    <2> QED
      BY <1>1, <2>1 DEF LaterThanHeld
  <1>4. \A d \in Drainers : claim[d][k] \in Nat
    BY DEF TypeOK
  <1> QED
    BY <1>1, <1>2, <1>3, <1>4 DEF Enqueue

\* The keys a transaction enqueues are those whose local part it changes, so
\* freshness survives: above the new mark nothing is in flight or stored.
LEMMA TriggerKeepsFresh ==
  ASSUME TypeOK, FreshnessInv, NEW K, TriggerEnqueue(K),
         UNCHANGED <<catalog, comm, wire, tick, clock>>,
         \A k \in Key : k \notin K /\ LocalLive(k)' => row'[k[2]] = row[k[2]]
  PROVE  FreshnessInv'
  <1> USE DEF tick
  <1>1. \A k \in Key : /\ k \in K => mark'[k] = clock
                       /\ k \notin K => mark'[k] = mark[k]
    BY DEF TriggerEnqueue
  <1>2. \A k \in Key :
          /\ k \in K => /\ queue'[k].at # 0
                        /\ \A d \in Drainers : claim[d][k] # queue'[k].at
                        /\ k \notin skipped'
          /\ k \notin K => /\ queue'[k] = queue[k]
                           /\ k \in skipped' <=> k \in skipped
    BY EnqueueMoves DEF TriggerEnqueue
  <1>3. ASSUME NEW k \in Key, k \notin K, LocalLive(k)'
        PROVE  LocalLive(k) /\ LocalPart(k, row)' = LocalPart(k, row)
    BY <1>3 DEF LocalLive, Live, LocalPart
  <1>4. clock \in Nat /\ mark \in [Key -> Nat] /\ rev \in [Drainers -> Nat]
    BY DEF TypeOK
  <1>5. /\ \A d \in Drainers : rev[d] <= clock
        /\ \A m \in wire : m.rev <= clock
        /\ \A k \in Key : comm[k].rev <= clock
    BY DEF FreshnessInv, RevBound
  <1>6. \A k \in Key, d \in Drainers : rev[d] > mark'[k] => k \notin K
    BY <1>1, <1>4, <1>5
  <1>7. \A m \in wire : m.rev > mark'[m.key] => m.key \notin K
    BY <1>1, <1>4, <1>5 DEF TypeOK
  <1>8. \A k \in Key : comm[k].rev > mark'[k] => k \notin K
    BY <1>1, <1>4, <1>5 DEF TypeOK, CommType
  <1>a. ClockBound' /\ RevBound' /\ DippedIsRemembered' /\ ItemsClaimed'
    BY <1>1, <1>4 DEF FreshnessInv, ClockBound, RevBound, DippedIsRemembered, ItemsClaimed
  <1>b. ReadsFresh'
    BY <1>1, <1>3, <1>6 DEF FreshnessInv, ReadsFresh
  <1>c. ItemsFresh'
    BY <1>1, <1>3, <1>6 DEF FreshnessInv, ItemsFresh, Due, Current
  <1>d. WireFresh'
    BY <1>1, <1>3, <1>7 DEF FreshnessInv, WireFresh, Due, Current, TypeOK
  <1>e. FeedFresh'
    BY <1>1, <1>3, <1>8 DEF FreshnessInv, FeedFresh, Due, Current
  <1>f. ClaimsFresh'
    BY <1>1, <1>2 DEF FreshnessInv, ClaimsFresh, Unmoved
  <1>g. WrittenIsThere'
    BY <1>1, <1>2, <1>3 DEF FreshnessInv, WrittenIsThere, Unmoved, Due
  <1>h. SettledIsThere'
    BY <1>1, <1>2, <1>3 DEF FreshnessInv, SettledIsThere, Due
  <1> QED
    BY <1>a, <1>b, <1>c, <1>d, <1>e, <1>f, <1>g, <1>h DEF FreshnessInv
LEMMA WriteRowFresh ==
  ASSUME TypeOK, FreshnessInv, NEW r \in Resources, NEW new, NEW K, WriteRow(r, new, K),
         \A k \in Key : k[2] = r /\ Live(k, [row EXCEPT ![r] = new]) => k \in K
  PROVE  FreshnessInv'
  <1>1. row' = [row EXCEPT ![r] = new] /\ TriggerEnqueue(K)
    BY DEF WriteRow
  <1>2. ASSUME NEW k \in Key, k \notin K, LocalLive(k)'
        PROVE  row'[k[2]] = row[k[2]]
    <2>1. k[2] # r
      BY <1>1, <1>2 DEF LocalLive
    <2> QED
      BY <1>1, <2>1, KeyIsPair DEF TypeOK
  <1>3. UNCHANGED <<catalog, comm, wire, tick, clock>>
    BY DEF WriteRow, remote
  <1> QED
    BY <1>1, <1>2, <1>3, TriggerKeepsFresh

\* Catalog moves no local part; a work once dark is never Due again.
LEMMA CatalogFresh ==
  ASSUME TypeOK, FreshnessInv, NEW r \in Resources,
         CatalogRename(r) \/ CatalogFlip(r)
  PROVE  FreshnessInv'
  <1>1. UNCHANGED <<row, comm, wire, tick, clock, mark, queue, skipped>>
    BY DEF CatalogRename, CatalogFlip, remote
  <1>2. \A q \in Resources : ~catalog'[q].dipped =>
          /\ ~catalog[q].dipped
          /\ catalog[q].shown => catalog'[q].shown
    <2>1. CASE CatalogRename(r)
      BY <2>1 DEF CatalogRename, TypeOK, WorkType
    <2>2. CASE CatalogFlip(r)
      <3>1. catalog' = [catalog EXCEPT ![r].shown = ~@,
                                       ![r].dipped = @ \/ catalog[r].shown]
        BY <2>2 DEF CatalogFlip
      <3>2. \A q \in Resources : q # r => catalog'[q] = catalog[q]
        BY <3>1 DEF TypeOK
      <3>3. catalog'[r].dipped = (catalog[r].dipped \/ catalog[r].shown)
        BY <3>1 DEF TypeOK, WorkType
      <3> QED
        BY <3>2, <3>3
    <2> QED
      BY <2>1, <2>2
  <1>3. \A k \in Key : Due(k)' => Due(k)
    BY <1>1, <1>2, KeyIsPair DEF Due, LocalLive, Live
  <1>4. \A k \in Key : \A content : Current(k, content)' = Current(k, content)
    BY <1>1 DEF Current, LocalPart
  <1>5. \A m \in wire : m.key \in Key
    BY DEF TypeOK
  <1> USE DEF tick
  <1>a. ClockBound' /\ RevBound' /\ ItemsClaimed'
    BY <1>1 DEF FreshnessInv, ClockBound, RevBound, ItemsClaimed
  <1>b. DippedIsRemembered'
    BY <1>2 DEF FreshnessInv, DippedIsRemembered
  <1>c. ReadsFresh'
    BY <1>1, <1>2, KeyIsPair DEF FreshnessInv, ReadsFresh, LocalLive, Live
  <1>d. ItemsFresh'
    BY <1>1, <1>3 DEF FreshnessInv, ItemsFresh, Current, LocalPart
  <1>e. WireFresh'
    BY <1>1, <1>3, <1>5 DEF FreshnessInv, WireFresh, Current, LocalPart
  <1>f. FeedFresh'
    BY <1>1, <1>3 DEF FreshnessInv, FeedFresh, Current, LocalPart
  <1>g. ClaimsFresh'
    BY <1>1 DEF FreshnessInv, ClaimsFresh, Unmoved
  <1>h. WrittenIsThere' /\ SettledIsThere'
    BY <1>1, <1>3 DEF FreshnessInv, WrittenIsThere, SettledIsThere, Unmoved
  <1> QED
    BY <1>a, <1>b, <1>c, <1>d, <1>e, <1>f, <1>g, <1>h DEF FreshnessInv

\* A step that none of this is read from.
LEMMA UntouchedFresh ==
  FreshnessInv /\ UNCHANGED <<row, catalog, queue, comm, wire, tick, clock, mark, skipped>>
  => FreshnessInv'
  BY DEF tick, FreshnessInv, ClockBound, RevBound,
     DippedIsRemembered, ReadsFresh, ItemsFresh, ItemsClaimed, WireFresh, FeedFresh,
     ClaimsFresh, WrittenIsThere, SettledIsThere, Unmoved, Due, LocalLive, Current, LocalPart

LEMMA WritersFresh ==
  ASSUME TypeOK, FreshnessInv, NEW r \in Resources, Writer(r) \/ SyncClaim(r) \/ MarkIndexed(r)
  PROVE  FreshnessInv'
  <1>1. ASSUME NEW new, WriteRow(r, new, KeysOf(r, new.edits))
        PROVE  FreshnessInv'
    <2>1. \A k \in Key : k[2] = r /\ Live(k, [row EXCEPT ![r] = new])
                          => k \in KeysOf(r, new.edits)
      BY DEF Live, TypeOK, KeysOf
    <2> QED
      BY <1>1, <2>1, WriteRowFresh
  <1>2. row[r] \in RowType
    BY DEF TypeOK
  <1>3. CASE CreateResource(r)
    <2>1. PICK new : new.edits = 0 /\ WriteRow(r, new, KeysOf(r, 0))
      BY <1>2, <1>3 DEF CreateResource, RowType
    <2>2. WriteRow(r, new, KeysOf(r, new.edits))
      BY <2>1
    <2> QED
      BY <1>1, <2>2
  <1>4. CASE UpdateResource(r)
    <2>1. PICK new : new.edits = row[r].edits + 1 /\ WriteRow(r, new, KeysOf(r, row[r].edits + 1))
      BY <1>2, <1>4 DEF UpdateResource, RowType
    <2>2. WriteRow(r, new, KeysOf(r, new.edits))
      BY <2>1
    <2> QED
      BY <1>1, <2>2
  <1>5. CASE ToggleResource(r)
    <2>1. PICK new : new.edits = row[r].edits /\ WriteRow(r, new, KeysOf(r, row[r].edits))
      BY <1>2, <1>5 DEF ToggleResource, RowType
    <2>2. WriteRow(r, new, KeysOf(r, new.edits))
      BY <2>1
    <2> QED
      BY <1>1, <2>2
  <1>6. CASE DeleteResource(r)
    <2>1. PICK new : new.edits = row[r].edits /\ WriteRow(r, new, KeysOf(r, row[r].edits))
      BY <1>2, <1>6 DEF DeleteResource, RowType
    <2> QED
      BY <1>1, <2>1, WriteRowFresh
  <1>7. CASE CatalogRename(r) \/ CatalogFlip(r)
    BY <1>7, CatalogFresh
  <1>8. CASE SyncClaim(r) \/ MarkIndexed(r)
    <2>1. UNCHANGED <<row, catalog, comm, wire, tick, clock>>
      BY <1>8 DEF SyncClaim, MarkIndexed, remote
    <2>2. \/ \E K : TriggerEnqueue(K)
          \/ UNCHANGED <<queue, mark, skipped>>
      BY <1>8 DEF SyncClaim, MarkIndexed, SetPublished
    <2>3. CASE \E K : TriggerEnqueue(K)
      BY <2>1, <2>3, TriggerKeepsFresh
    <2>4. CASE UNCHANGED <<queue, mark, skipped>>
      BY <2>1, <2>4, UntouchedFresh
    <2> QED
      BY <2>2, <2>3, <2>4
  <1> QED
    BY <1>3, <1>4, <1>5, <1>6, <1>7, <1>8 DEF Writer

\* The reconcile moves stamps and nothing else that freshness speaks of.
LEMMA ReconcileFresh ==
  ASSUME TypeOK, FreshnessInv, RecStep \/ RecFail
  PROVE  FreshnessInv'
  <1>1. UNCHANGED <<row, catalog, comm, wire, tick, clock, mark>>
    BY DEF RecStep, RecList, RecRecord, RecCompare, RecEnqueue, RecFail, local, remote
  <1>2. UNCHANGED <<queue, skipped>> \/ \E K : Enqueue(K, TRUE)
    BY DEF RecStep, RecList, RecRecord, RecCompare, RecEnqueue, RecFail
  <1>3. ASSUME NEW k \in Key, NEW d \in Drainers, Unmoved(d, k)'
        PROVE  Unmoved(d, k) /\ (k \in skipped' <=> k \in skipped)
    BY <1>1, <1>2, <1>3, EnqueueMoves DEF Unmoved, tick
  <1>4. ASSUME NEW k \in Key, queue'[k].at = 0
        PROVE  queue[k].at = 0 /\ (k \in skipped' <=> k \in skipped)
    BY <1>2, <1>4, EnqueueMoves
  <1> USE DEF tick
  <1>a. /\ ClockBound' /\ RevBound' /\ ItemsClaimed' /\ DippedIsRemembered'
        /\ ReadsFresh' /\ ItemsFresh' /\ WireFresh' /\ FeedFresh'
    BY <1>1 DEF FreshnessInv, ClockBound, RevBound, ItemsClaimed, DippedIsRemembered,
       ReadsFresh, ItemsFresh, WireFresh, FeedFresh, Due, LocalLive, Current, LocalPart
  <1>b. ClaimsFresh' /\ WrittenIsThere'
    BY <1>1, <1>3 DEF FreshnessInv, ClaimsFresh, WrittenIsThere, Due, LocalLive
  <1>c. SettledIsThere'
    BY <1>1, <1>4 DEF FreshnessInv, SettledIsThere, Due, LocalLive
  <1> QED
    BY <1>a, <1>b, <1>c DEF FreshnessInv

\* What is compared with < is a number.
LEMMA Numbers ==
  ASSUME TypeOK
  PROVE  /\ clock \in Nat
         /\ \A k \in Key : comm[k].rev \in Nat /\ mark[k] \in Nat
         /\ \A d \in Drainers : rev[d] \in Nat
  BY DEF TypeOK, CommType

LEMMA LandFresh ==
  ASSUME TypeOK, FreshnessInv, NEW m \in wire, Land(m)
  PROVE  FreshnessInv'
  <1>1. UNCHANGED <<row, catalog, queue, tick, clock, mark, skipped>> /\ wire' \subseteq wire
    BY DEF Land, local
  <1>2. m.key \in Key /\ m.rev \in Nat /\ m.item \in Item
    BY DEF TypeOK
  <1>3. ASSUME NEW k \in Key
        PROVE  \/ comm'[k] = comm[k]
               \/ k = m.key /\ comm'[k] = Stored(m.item, m.rev) /\ m.rev > comm[k].rev
    BY <1>2 DEF Land, Supersedes, TypeOK
  <1>4. ASSUME NEW k \in Key
        PROVE  comm'[k].rev >= comm[k].rev /\ comm'[k].rev <= clock
    <2>1. m.rev <= clock /\ comm[k].rev <= clock
      BY DEF FreshnessInv, RevBound
    <2>2. Stored(m.item, m.rev).rev = m.rev
      BY DEF Stored
    <2> QED
      BY <1>2, <1>3, <2>1, <2>2, Numbers
  <1> USE DEF tick
  <1>a. /\ ClockBound' /\ RevBound' /\ ItemsClaimed' /\ DippedIsRemembered'
    BY <1>1, <1>4 DEF FreshnessInv, ClockBound, RevBound, ItemsClaimed, DippedIsRemembered
  <1>b. ReadsFresh' /\ ItemsFresh' /\ ClaimsFresh'
    BY <1>1 DEF FreshnessInv, ReadsFresh, ItemsFresh, ClaimsFresh, Unmoved, Due,
       LocalLive, Current, LocalPart
  <1>c. WireFresh'
    BY <1>1 DEF FreshnessInv, WireFresh, Due, LocalLive, Current, LocalPart
  <1>d. FeedFresh'
    <2>1. ASSUME NEW k \in Key, comm'[k].rev > mark[k], Due(k)
          PROVE  comm'[k].live /\ Current(k, comm'[k].content)
      <3>1. CASE comm'[k] = comm[k]
        BY <2>1, <3>1 DEF FreshnessInv, FeedFresh
      <3>2. CASE k = m.key /\ comm'[k] = Stored(m.item, m.rev)
        <4>1. comm'[k].rev = m.rev /\ comm'[k].content = m.item.content
              /\ comm'[k].live = (m.item.op = "live")
          BY <3>2 DEF Stored
        <4>2. m.item.op = "live" /\ Current(k, m.item.content)
          BY <2>1, <3>2, <4>1 DEF FreshnessInv, WireFresh
        <4> QED
          BY <4>1, <4>2
      <3> QED
        BY <1>3, <3>1, <3>2
    <2> QED
      BY <1>1, <2>1 DEF FeedFresh, Due, LocalLive, Current, LocalPart
  <1>e. WrittenIsThere' /\ SettledIsThere'
    <2>1. \A k \in Key : comm[k].rev > mark[k] => comm'[k].rev > mark[k]
      <3> SUFFICES ASSUME NEW k \in Key, comm[k].rev > mark[k]
                   PROVE  comm'[k].rev > mark[k]
        OBVIOUS
      <3>1. comm'[k].rev >= comm[k].rev /\ comm'[k].rev \in Nat
        <4>1. Stored(m.item, m.rev).rev = m.rev
          BY DEF Stored
        <4> QED
          BY <1>2, <1>3, <1>4, <4>1, Numbers
      <3> QED
        BY <3>1, Numbers
    <2> QED
      BY <1>1, <2>1 DEF FreshnessInv, WrittenIsThere, SettledIsThere, Unmoved, Due, LocalLive
  <1> QED
    BY <1>a, <1>b, <1>c, <1>d, <1>e DEF FreshnessInv
-----------------------------------------------------------------------------
(* Freshness through a tick *)

\* The drainer-free parts stand when a tick moves only its own state.
LEMMA TickFrame ==
  ASSUME TypeOK, FreshnessInv, UNCHANGED <<row, catalog, queue, comm, wire, clock, mark, skipped>>
  PROVE  /\ ClockBound' /\ DippedIsRemembered' /\ WireFresh' /\ FeedFresh'
         /\ SettledIsThere'
  BY DEF FreshnessInv, ClockBound, DippedIsRemembered, WireFresh, FeedFresh,
     SettledIsThere, Due, LocalLive, Current, LocalPart

\* A claim is stamped above every mark.
LEMMA ClaimFresh ==
  ASSUME TypeOK, FreshnessInv, NEW d \in Drainers, Claim(d)
  PROVE  FreshnessInv'
  <1>1. /\ UNCHANGED <<row, catalog, queue, comm, wire, mark, skipped, rows, works, item>>
        /\ clock' = clock + 1
        /\ pc[d] = "idle" /\ pc'[d] = "claimed" /\ rev'[d] = clock + 1
        /\ \A e \in Drainers \ {d} : pc'[e] = pc[e] /\ claim'[e] = claim[e] /\ rev'[e] = rev[e]
    BY DEF Claim, local, remote, TypeOK
  <1>2. \A k \in Key : clock + 1 > mark[k]
    BY Numbers DEF FreshnessInv, ClockBound
  <1>3. \A k \in Key : \A content : Due(k)' = Due(k) /\ Current(k, content)' = Current(k, content)
    BY <1>1 DEF Due, LocalLive, Current, LocalPart
  <1>a. ClockBound' /\ DippedIsRemembered'
    BY <1>1, Numbers DEF FreshnessInv, ClockBound, DippedIsRemembered
  <1>b. RevBound'
    <2>1. \A n \in Nat : n <= clock => n <= clock + 1
      BY Numbers
    <2>2. /\ \A e \in Drainers : rev[e] <= clock
          /\ \A m \in wire : m.rev <= clock
          /\ \A k \in Key : comm[k].rev <= clock
      BY DEF FreshnessInv, RevBound
    <2>3. \A m \in wire : m.rev \in Nat
      BY DEF TypeOK
    <2>4. \A e \in Drainers : rev'[e] <= clock + 1
      BY <1>1, <2>1, <2>2, Numbers
    <2> QED
      BY <1>1, <2>1, <2>2, <2>3, <2>4, Numbers DEF RevBound
  <1>c. ReadsFresh' /\ ItemsFresh' /\ ItemsClaimed'
    BY <1>1 DEF FreshnessInv, ReadsFresh, ItemsFresh, ItemsClaimed, Due, LocalLive, Current, LocalPart
  <1>d. WireFresh' /\ FeedFresh' /\ SettledIsThere'
    BY <1>1 DEF FreshnessInv, WireFresh, FeedFresh, SettledIsThere, Due, LocalLive,
       Current, LocalPart
  <1>e. ClaimsFresh' /\ WrittenIsThere'
    BY <1>1, <1>2 DEF FreshnessInv, ClaimsFresh, WrittenIsThere, Unmoved, Due, LocalLive
  <1> QED
    BY <1>a, <1>b, <1>c, <1>d, <1>e DEF FreshnessInv

\* The reads come after the stamp.
LEMMA ReadsKeepFresh ==
  ASSUME TypeOK, FreshnessInv, NEW d \in Drainers, ReadRows(d) \/ ReadWorks(d)
  PROVE  FreshnessInv'
  <1>1. /\ UNCHANGED <<row, catalog, queue, comm, wire, clock, mark, skipped, claim, rev, item>>
        /\ pc[d] \in {"claimed", "rows"} /\ pc'[d] \in {"rows", "works"}
        /\ \A e \in Drainers \ {d} : pc'[e] = pc[e] /\ rows'[e] = rows[e] /\ works'[e] = works[e]
    BY DEF ReadRows, ReadWorks, local, remote, TypeOK
  <1>2. /\ rows'[d] = row \/ (pc[d] = "rows" /\ rows'[d] = rows[d])
        /\ pc'[d] = "works" => works'[d] = catalog
    BY DEF ReadRows, ReadWorks, TypeOK
  <1>3. ReadsFresh'
    <2> SUFFICES ASSUME NEW e \in Drainers, NEW k \in Key
        PROVE  /\ pc'[e] \in {"rows", "works"} /\ rev[e] > mark[k] /\ LocalLive(k)
                  => rows'[e][k[2]] = row[k[2]]
               /\ pc'[e] = "works" /\ ~catalog[k[2]].dipped => works'[e][k[2]].shown
      BY <1>1 DEF ReadsFresh, LocalLive
    <2>1. CASE e = d
      BY <1>1, <1>2, <2>1, KeyIsPair DEF FreshnessInv, ReadsFresh, DippedIsRemembered
    <2>2. CASE e # d
      BY <1>1, <2>2 DEF FreshnessInv, ReadsFresh
    <2> QED
      BY <2>1, <2>2
  <1>4. ItemsFresh' /\ ItemsClaimed' /\ RevBound'
    BY <1>1 DEF FreshnessInv, ItemsFresh, ItemsClaimed, RevBound, Due, LocalLive, Current, LocalPart
  <1>5. ClaimsFresh' /\ WrittenIsThere'
    BY <1>1 DEF FreshnessInv, ClaimsFresh, WrittenIsThere, Unmoved, Due, LocalLive
  <1> QED
    BY <1>1, <1>3, <1>4, <1>5, TickFrame DEF FreshnessInv

\* Reads that are current make items that are.
LEMMA BuildFresh ==
  ASSUME TypeOK, FreshnessInv, NEW d \in Drainers, BuildItems(d)
  PROVE  FreshnessInv'
  <1>1. /\ UNCHANGED <<row, catalog, queue, comm, wire, clock, mark, skipped, claim, rev>>
        /\ pc[d] = "works" /\ pc'[d] = "built"
        /\ \A k \in Key : item'[d][k] = ItemFor(d, k)
        /\ \A e \in Drainers \ {d} : /\ pc'[e] = pc[e] /\ rows'[e] = rows[e]
                                     /\ works'[e] = works[e] /\ item'[e] = item[e]
    BY DEF BuildItems, DropReads, local, remote, TypeOK
  <1>2. ASSUME NEW k \in Key, rev[d] > mark[k], Due(k), claim[d][k] # 0
        PROVE  ItemFor(d, k).op = "live" /\ Current(k, ItemFor(d, k).content)
    <2>1. rows[d][k[2]] = row[k[2]] /\ works[d][k[2]].shown
      BY <1>1, <1>2 DEF FreshnessInv, ReadsFresh, Due
    <2>2. Resolved(k, rows[d], works[d], row) =
            [op |-> "live",
             content |-> [ver   |-> row[k[2]].ver,
                          edits |-> IF k[1] = "edit" THEN row[k[2]].edits ELSE 0,
                          title |-> works[d][k[2]].title]]
      BY <1>2, <2>1 DEF Due, LocalLive, Live, Resolved
    <2> QED
      BY <1>2, <2>2 DEF ItemFor, Current, LocalPart
  <1>3. \A k \in Key : claim[d][k] = 0 => ItemFor(d, k).op = "none"
    BY DEF ItemFor, NoItem
  <1>4. ReadsFresh' /\ RevBound'
    BY <1>1 DEF FreshnessInv, ReadsFresh, RevBound, LocalLive
  <1>5. ItemsFresh'
    <2> SUFFICES ASSUME NEW e \in Drainers, NEW k \in Key, pc'[e] = "built",
                        rev[e] > mark[k], Due(k), claim[e][k] # 0
                 PROVE  item'[e][k].op = "live" /\ Current(k, item'[e][k].content)
      BY <1>1 DEF ItemsFresh, Due, LocalLive, Current, LocalPart
    <2>1. CASE e = d
      BY <1>1, <1>2, <2>1
    <2>2. CASE e # d
      BY <1>1, <2>2 DEF FreshnessInv, ItemsFresh
    <2> QED
      BY <2>1, <2>2
  <1>6. ItemsClaimed'
    BY <1>1, <1>3 DEF FreshnessInv, ItemsClaimed
  <1>7. ClaimsFresh' /\ WrittenIsThere'
    BY <1>1 DEF FreshnessInv, ClaimsFresh, WrittenIsThere, Unmoved, Due, LocalLive
  <1> QED
    BY <1>1, <1>4, <1>5, <1>6, <1>7, TickFrame DEF FreshnessInv
\* An item written under an unmoved claim is there afterwards: it was stored,
\* or it was stale, or it was refused.
LEMMA WriteFresh ==
  ASSUME TypeOK, FreshnessInv, NEW d \in Drainers, Write(d)
  PROVE  FreshnessInv'
  <1>1. /\ UNCHANGED <<row, catalog, queue, wire, clock, mark, claim, rev, rows, works>>
        /\ pc[d] = "built" /\ pc'[d] = "written"
        /\ item'[d] = [k \in Key |-> NoItem]
        /\ \A e \in Drainers \ {d} : pc'[e] = pc[e] /\ item'[e] = item[e]
    BY DEF Write, local, TypeOK
  <1>2. PICK R \in SUBSET Items(d) :
          /\ comm' = [k \in Key |->
               IF k \in {j \in Items(d) \ R : Supersedes(rev[d], j)}
               THEN Stored(item[d][k], rev[d]) ELSE comm[k]]
          /\ skipped' = skipped \cup R
    BY DEF Write, Kept
  <1>3. rev[d] \in Nat /\ rev[d] <= clock
    BY Numbers DEF FreshnessInv, RevBound
  <1>4. ASSUME NEW k \in Key
        PROVE  \/ comm'[k] = comm[k]
               \/ (/\ claim[d][k] # 0 /\ rev[d] > comm[k].rev
                   /\ comm'[k].rev = rev[d]
                   /\ comm'[k].live = (item[d][k].op = "live")
                   /\ comm'[k].content = item[d][k].content)
    <2>1. k \in Items(d) => claim[d][k] # 0
      BY DEF Items, FreshnessInv, ItemsClaimed
    <2> QED
      BY <1>2, <2>1 DEF Supersedes, Stored
  <1>5. ASSUME NEW k \in Key
        PROVE  /\ comm'[k].rev >= comm[k].rev /\ comm'[k].rev <= clock
               /\ comm'[k].rev \in Nat
    <2>1. comm[k].rev <= clock
      BY DEF FreshnessInv, RevBound
    <2> QED
      BY <1>3, <1>4, <2>1, Numbers
  <1>6. ASSUME NEW k \in Key, comm[k].rev > mark[k]
        PROVE  comm'[k].rev > mark[k]
    BY <1>5, <1>6, Numbers
  <1>7. ASSUME NEW k \in Key, Unmoved(d, k), k \notin skipped', Due(k)
        PROVE  comm'[k].rev > mark[k]
    <2>1. rev[d] > mark[k] /\ claim[d][k] # 0
      BY <1>7 DEF FreshnessInv, ClaimsFresh, Unmoved
    <2>2. k \in Items(d) \ R
      BY <1>1, <1>2, <1>7, <2>1 DEF FreshnessInv, ItemsFresh, Items
    <2>3. CASE rev[d] > comm[k].rev
      BY <1>2, <2>1, <2>2, <2>3 DEF Supersedes, Stored
    <2>4. CASE ~(rev[d] > comm[k].rev)
      BY <1>3, <1>5, <2>1, <2>4, Numbers
    <2> QED
      BY <2>3, <2>4
  <1>a. /\ ClockBound' /\ DippedIsRemembered' /\ ReadsFresh'
    BY <1>1 DEF FreshnessInv, ClockBound, DippedIsRemembered, ReadsFresh, LocalLive
  <1>b. RevBound'
    BY <1>1, <1>5 DEF FreshnessInv, RevBound
  <1>c. ItemsFresh' /\ ItemsClaimed'
    BY <1>1 DEF FreshnessInv, ItemsFresh, ItemsClaimed, Due, LocalLive, Current,
       LocalPart, NoItem
  <1>d. WireFresh' /\ ClaimsFresh'
    BY <1>1 DEF FreshnessInv, WireFresh, ClaimsFresh, Unmoved, Due, LocalLive, Current, LocalPart
  <1>e. FeedFresh'
    <2>1. ASSUME NEW k \in Key, comm'[k].rev > mark[k], Due(k)
          PROVE  comm'[k].live /\ Current(k, comm'[k].content)
      <3>1. CASE comm'[k] = comm[k]
        BY <2>1, <3>1 DEF FreshnessInv, FeedFresh
      <3>2. CASE comm'[k] # comm[k]
        BY <1>1, <1>4, <2>1, <3>2 DEF FreshnessInv, ItemsFresh
      <3> QED
        BY <3>1, <3>2
    <2> QED
      BY <1>1, <2>1 DEF FeedFresh, Due, LocalLive, Current, LocalPart
  <1>f. WrittenIsThere'
    <2> SUFFICES ASSUME NEW e \in Drainers, NEW k \in Key, pc'[e] \in {"written", "recorded"},
                        Unmoved(e, k), k \notin skipped', Due(k)
                 PROVE  comm'[k].rev > mark[k]
      BY <1>1 DEF WrittenIsThere, Unmoved, Due, LocalLive
    <2>1. CASE e = d
      BY <1>7, <2>1
    <2>2. CASE e # d
      BY <1>1, <1>2, <1>6, <2>2 DEF FreshnessInv, WrittenIsThere
    <2> QED
      BY <2>1, <2>2
  <1>g. SettledIsThere'
    BY <1>1, <1>2, <1>6 DEF FreshnessInv, SettledIsThere, Due, LocalLive
  <1> QED
    BY <1>a, <1>b, <1>c, <1>d, <1>e, <1>f, <1>g DEF FreshnessInv

LEMMA RecordFresh ==
  ASSUME TypeOK, FreshnessInv, NEW d \in Drainers, Record(d)
  PROVE  FreshnessInv'
  <1>1. /\ UNCHANGED <<row, catalog, queue, comm, wire, clock, mark, skipped, claim, rev,
                       rows, works, item>>
        /\ pc[d] = "written" /\ pc'[d] = "recorded"
        /\ \A e \in Drainers \ {d} : pc'[e] = pc[e]
    BY DEF Record, local, remote, TypeOK
  <1>2. ReadsFresh' /\ ItemsFresh' /\ ItemsClaimed' /\ RevBound' /\ ClaimsFresh'
    BY <1>1 DEF FreshnessInv, ReadsFresh, ItemsFresh, ItemsClaimed, RevBound, ClaimsFresh,
       Unmoved, Due, LocalLive, Current, LocalPart
  <1>3. WrittenIsThere'
    BY <1>1 DEF FreshnessInv, WrittenIsThere, Unmoved, Due, LocalLive
  <1> QED
    BY <1>1, <1>2, <1>3, TickFrame DEF FreshnessInv

\* A finished tick holds no claim and no item.
LEMMA EndTickFresh ==
  ASSUME TypeOK, FreshnessInv, NEW d \in Drainers, EndTick(d),
         UNCHANGED <<row, catalog, comm, clock, mark, skipped>>,
         \A k \in Key, e \in Drainers : e # d /\ claim[e][k] # 0 /\ claim[e][k] = queue'[k].at
                                        => claim[e][k] = queue[k].at
  PROVE  /\ ClockBound' /\ DippedIsRemembered' /\ FeedFresh' /\ ReadsFresh' /\ ItemsFresh'
         /\ ItemsClaimed' /\ ClaimsFresh' /\ WrittenIsThere'
         /\ \A e \in Drainers : rev'[e] <= clock
  <1>1. /\ pc'[d] = "idle" /\ rev'[d] = 0
        /\ claim'[d] = [k \in Key |-> 0] /\ item'[d] = [k \in Key |-> NoItem]
        /\ \A e \in Drainers \ {d} :
             /\ pc'[e] = pc[e] /\ rev'[e] = rev[e] /\ claim'[e] = claim[e]
             /\ item'[e] = item[e] /\ rows'[e] = rows[e] /\ works'[e] = works[e]
    BY DEF EndTick, DropReads, TypeOK
  <1>2. \A e \in Drainers, k \in Key : Unmoved(e, k)' => e # d /\ Unmoved(e, k)
    BY <1>1 DEF Unmoved
  <1>a. ClockBound' /\ DippedIsRemembered' /\ FeedFresh'
    BY DEF FreshnessInv, ClockBound, DippedIsRemembered, FeedFresh, Due, LocalLive,
       Current, LocalPart
  <1>b. ReadsFresh' /\ ItemsFresh' /\ ItemsClaimed'
    BY <1>1 DEF FreshnessInv, ReadsFresh, ItemsFresh, ItemsClaimed, NoItem, Due, LocalLive,
       Current, LocalPart
  <1>c. ClaimsFresh' /\ WrittenIsThere'
    BY <1>1, <1>2 DEF FreshnessInv, ClaimsFresh, WrittenIsThere, Due, LocalLive
  <1>d. \A e \in Drainers : rev'[e] <= clock
    BY <1>1, Numbers DEF FreshnessInv, RevBound
  <1> QED
    BY <1>a, <1>b, <1>c, <1>d

LEMMA AckFresh ==
  ASSUME TypeOK, FreshnessInv, NEW d \in Drainers, Ack(d)
  PROVE  FreshnessInv'
  <1>1. /\ UNCHANGED <<row, catalog, comm, wire, clock, mark, skipped>> /\ EndTick(d)
        /\ pc[d] = "recorded"
        /\ queue' = [k \in Key |-> IF Unmoved(d, k) THEN NoQueueRow ELSE queue[k]]
    BY DEF Ack, local, remote
  <1>2. \A k \in Key, e \in Drainers : claim[e][k] # 0 /\ claim[e][k] = queue'[k].at
                                       => claim[e][k] = queue[k].at
    BY <1>1 DEF NoQueueRow
  <1>3. WireFresh' /\ RevBound'
    BY <1>1, <1>2, EndTickFresh DEF FreshnessInv, WireFresh, RevBound, Due, LocalLive,
       Current, LocalPart
  <1>4. SettledIsThere'
    <2>1. ASSUME NEW k \in Key, queue'[k].at = 0, k \notin skipped, Due(k)
          PROVE  comm[k].rev > mark[k]
      <3>1. CASE Unmoved(d, k)
        BY <1>1, <2>1, <3>1 DEF FreshnessInv, WrittenIsThere
      <3>2. CASE ~Unmoved(d, k)
        BY <1>1, <2>1, <3>2 DEF FreshnessInv, SettledIsThere
      <3> QED
        BY <3>1, <3>2
    <2> QED
      BY <1>1, <2>1 DEF SettledIsThere, Due, LocalLive
  <1> QED
    BY <1>1, <1>2, <1>3, <1>4, EndTickFresh DEF FreshnessInv

LEMMA FailFresh ==
  ASSUME TypeOK, FreshnessInv, NEW d \in Drainers, Fail(d) \/ WriteLost(d)
  PROVE  FreshnessInv'
  <1>1. /\ UNCHANGED <<row, catalog, queue, comm, clock, mark, skipped>> /\ EndTick(d)
    BY DEF Fail, WriteLost, local, remote
  <1>2. ASSUME NEW m \in wire'
        PROVE  /\ m \in wire \/ (/\ pc[d] = "built" /\ m.key \in Key /\ claim[d][m.key] # 0
                                 /\ m.rev = rev[d] /\ m.item = item[d][m.key])
    <2>1. \A k \in Items(d) : k \in Key /\ claim[d][k] # 0
      BY DEF Items, FreshnessInv, ItemsClaimed
    <2>2. CASE Fail(d)
      BY <2>2 DEF Fail, remote
    <2>3. CASE WriteLost(d)
      BY <2>1, <2>3 DEF WriteLost
    <2> QED
      BY <2>2, <2>3
  <1>3. WireFresh'
    <2> SUFFICES ASSUME NEW m \in wire', m.rev > mark[m.key], Due(m.key)
                 PROVE  m.item.op = "live" /\ Current(m.key, m.item.content)
      BY <1>1 DEF WireFresh, Due, LocalLive, Current, LocalPart
    <2>1. CASE m \in wire
      BY <2>1 DEF FreshnessInv, WireFresh
    <2>2. CASE m \notin wire
      BY <1>2, <2>2 DEF FreshnessInv, ItemsFresh
    <2> QED
      BY <2>1, <2>2
  <1>4. RevBound'
    BY <1>1, <1>2, EndTickFresh DEF FreshnessInv, RevBound
  <1>5. SettledIsThere'
    BY <1>1 DEF FreshnessInv, SettledIsThere, Due, LocalLive
  <1> QED
    BY <1>1, <1>3, <1>4, <1>5, EndTickFresh DEF FreshnessInv

LEMMA InitFresh == Init => FreshnessInv
  <1> SUFFICES ASSUME Init PROVE FreshnessInv
    OBVIOUS
  <1>1. \A k \in Key : comm[k] = Unseen /\ mark[k] = 0 /\ clock = 1 /\ wire = {}
    BY DEF Init
  <1>2. \A d \in Drainers : /\ pc[d] = "idle" /\ rev[d] = 0
                            /\ \A k \in Key : claim[d][k] = 0 /\ item[d][k] = NoItem
    BY DEF Init
  <1>3. ASSUME NEW k \in Key, Due(k) PROVE queue[k].at # 0
    BY <1>3 DEF Init, Due, LocalLive, Live, KeysOf
  <1>4. \A r \in Resources : ~catalog[r].dipped => catalog[r].shown
    BY DEF Init
  <1>5. wire = {} /\ clock = 1
    BY DEF Init
  <1> QED
    BY <1>1, <1>2, <1>3, <1>4, <1>5 DEF FreshnessInv, ClockBound, RevBound,
       DippedIsRemembered, ReadsFresh, ItemsFresh, ItemsClaimed, WireFresh, FeedFresh,
       ClaimsFresh, WrittenIsThere, SettledIsThere, Unmoved, NoItem, Unseen

LEMMA NextFresh == TypeOK /\ FreshnessInv /\ [Next]_vars => FreshnessInv'
  <1> SUFFICES ASSUME TypeOK, FreshnessInv, [Next]_vars PROVE FreshnessInv'
    OBVIOUS
  <1>1. ASSUME NEW r \in Resources, Writer(r) \/ SyncClaim(r) \/ MarkIndexed(r) PROVE FreshnessInv'
    BY <1>1, WritersFresh
  <1>2. ASSUME NEW d \in Drainers, TickStep(d) \/ Fail(d) \/ WriteLost(d) PROVE FreshnessInv'
    BY <1>2, ClaimFresh, ReadsKeepFresh, BuildFresh, WriteFresh, RecordFresh, AckFresh,
       FailFresh DEF TickStep
  <1>3. ASSUME NEW m \in wire, Land(m) PROVE FreshnessInv'
    BY <1>3, LandFresh
  <1>4. CASE RecStep \/ RecFail
    BY <1>4, ReconcileFresh
  <1>5. CASE UNCHANGED vars
    BY <1>5, UntouchedFresh DEF vars, local, remote
  <1> QED
    BY <1>1, <1>2, <1>3, <1>4, <1>5 DEF Next

\* Everything in flight, stored or claimed under a revision above a key's mark
\* is as fresh as the key: the invariant the stamp-before-read rule buys.
THEOREM Freshness == Spec => []FreshnessInv
  <1>1. Init => TypeOK /\ FreshnessInv
    BY InitType, InitFresh
  <1>2. TypeOK /\ FreshnessInv /\ [Next]_vars => (TypeOK /\ FreshnessInv)'
    BY NextType, NextFresh
  <1> QED
    BY <1>1, <1>2, PTL DEF Spec

\* The outbox loses no change: a resource that is due, is not queued and was
\* not refused is in the feed with the columns it has now.
THEOREM OutboxLosesNothing == Spec => []NoLostChange
  <1>1. TypeOK /\ FreshnessInv => NoLostChange
    BY DEF FreshnessInv, SettledIsThere, FeedFresh, NoLostChange, Due, Current
  <1> QED
    BY <1>1, TypeCorrect, Freshness, PTL


-----------------------------------------------------------------------------
(* The ledger and what is known of community *)

\* A key community never stored is not live.
UnseenIsDark == \A k \in Key : comm[k].rev = 0 => ~comm[k].live

\* What a tick was told community accepted is still there or was superseded.
AcceptedThere == \A d \in Drainers, k \in Key :
  accepted[d][k] # "none" =>
    /\ pc[d] \in {"written", "recorded"}
    /\ rev[d] <= comm[k].rev
    /\ rev[d] = comm[k].rev => comm[k].live = (accepted[d][k] = "live")

\* And so is what the reconcile's listing saw.
ListingBehind == \A k \in Key :
  /\ listing[k].rev <= comm[k].rev
  /\ listing[k].rev = comm[k].rev => listing[k].live = comm[k].live

\* LedgerSound with what its writers know: community's revisions only grow, and
\* a revision is stored once, so no earlier knowledge can meet a later content.
LedgerInv == UnseenIsDark /\ AcceptedThere /\ ListingBehind /\ LedgerSound

\* A tombstone in flight is for a key community has stored.
TombsFollow ==
  /\ \A d \in Drainers, k \in Key : item[d][k].op = "tomb" => comm[k].rev # 0
  /\ \A m \in wire : /\ m.item.op # "none"
                     /\ m.item.op = "tomb" => comm[m.key].rev # 0

\* A notice needs a trigger: for a row that is not backfill, for its claim, for
\* the item built of it and for the item on the wire.
NoticeInv ==
  /\ clock > 0
  /\ \A k \in Key : queue[k].at # 0 /\ ~queue[k].backfill => mark[k] > 0
  /\ \A d \in Drainers, k \in Key :
       /\ pc[d] \in {"claimed", "rows", "works"} /\ claim[d][k] # 0 /\ ~flag[d][k]
          => mark[k] > 0
       /\ item[d][k].notify => mark[k] > 0
  /\ \A m \in wire : m.item.notify => mark[m.key] > 0
  /\ NoBackfillNotice

-----------------------------------------------------------------------------
(* One drainer and no failed call *)

\* The ledger says what community holds, but for what is yet to be recorded.
LedgerCaughtUp == \A k \in Key :
  \/ sent[k].rev = comm[k].rev
  \/ \E d \in Drainers : /\ pc[d] = "written" /\ accepted[d][k] # "none"
                         /\ rev[d] = comm[k].rev

\* The write to come is not stale.
RevAhead == \A d \in Drainers, k \in Key :
  pc[d] \in {"claimed", "rows", "works", "built"} => comm[k].rev < rev[d]

\* Only the drainer that claimed a row deletes it.
ClaimsQueued == \A d \in Drainers, k \in Key : claim[d][k] # 0 => queue[k].at # 0

\* A hidden key that nobody enqueued since its claim was read as hidden.
ReadsHidden == \A d \in Drainers, k \in Key :
  pc[d] \in {"rows", "works"} /\ Unmoved(d, k) /\ ~LocalLive(k) =>
    \/ ~(rows[d][k[2]].exists /\ rows[d][k[2]].public)
    \/ k[1] = "edit" /\ ~(row[k[2]].exists /\ row[k[2]].edits > 0)

\* Its item takes it down, or there is nothing to take down.
ItemsHidden == \A d \in Drainers, k \in Key :
  pc[d] = "built" /\ Unmoved(d, k) /\ ~LocalLive(k) =>
    \/ item[d][k].op = "tomb"
    \/ item[d][k].op = "none" /\ ~comm[k].live

\* And then it is down, before the row is acknowledged and after.
WrittenHidden == \A d \in Drainers, k \in Key :
  pc[d] \in {"written", "recorded"} /\ Unmoved(d, k) /\ ~LocalLive(k) => ~comm[k].live

SettledHidden == \A k \in Key : queue[k].at = 0 /\ ~LocalLive(k) => ~comm[k].live

HiddenParts == /\ wire = {}
               /\ LedgerCaughtUp /\ RevAhead /\ ClaimsQueued
               /\ ReadsHidden /\ ItemsHidden /\ WrittenHidden /\ SettledHidden

\* Why HiddenIsWithdrawn holds: with one drainer whose calls all succeed, a
\* claim nobody has overtaken carries the state the key still has.
HiddenInv == faults = 0 => HiddenParts

-----------------------------------------------------------------------------
(* Frames: which step moves what these invariants speak of *)

\* Writers, crons and the reconcile leave community and the ticks alone.
LEMMA WritersFrame ==
  ASSUME NEW r \in Resources, Writer(r) \/ SyncClaim(r) \/ MarkIndexed(r)
  PROVE  UNCHANGED <<sent, remote, tick, recon, clock, faults>>
  BY DEF Writer, CreateResource, UpdateResource, ToggleResource, DeleteResource, WriteRow,
     CatalogRename, CatalogFlip, SyncClaim, MarkIndexed

LEMMA ReconcileFrame ==
  ASSUME RecStep \/ RecFail
  PROVE  UNCHANGED <<local, remote, tick, clock, mark>>
  BY DEF RecStep, RecList, RecRecord, RecCompare, RecEnqueue, RecFail

\* A tick of d moves the state of d alone, and never the reconcile's.
LEMMA TickMoves ==
  ASSUME NEW d \in Drainers, TypeOK, TickStep(d) \/ Fail(d) \/ WriteLost(d)
  PROVE  /\ UNCHANGED <<local, recon, mark>>
         /\ \A e \in Drainers \ {d} :
              /\ pc'[e] = pc[e] /\ claim'[e] = claim[e] /\ flag'[e] = flag[e]
              /\ rev'[e] = rev[e] /\ rows'[e] = rows[e] /\ works'[e] = works[e]
              /\ item'[e] = item[e] /\ accepted'[e] = accepted[e]
  BY DEF TickStep, Claim, ReadRows, ReadWorks, BuildItems, Write, Record, Ack, Fail,
     WriteLost, EndTick, DropReads, TypeOK

\* Only a write and a late item reach community.
LEMMA OnlyWritesStore ==
  ASSUME [Next]_vars, ~UNCHANGED <<comm, notified>>
  PROVE  \/ \E d \in Drainers : Write(d)
         \/ \E m \in wire : Land(m)
  BY DEF Next, Writer, CreateResource, UpdateResource, ToggleResource, DeleteResource,
     WriteRow, CatalogRename, CatalogFlip, SyncClaim, MarkIndexed, TickStep, Claim,
     ReadRows, ReadWorks, BuildItems, Record, Ack, Fail, WriteLost, RecStep, RecList,
     RecRecord, RecCompare, RecEnqueue, RecFail, vars, remote

\* What a write leaves in community.
LEMMA WriteStores ==
  ASSUME NEW d \in Drainers, TypeOK, Write(d), NEW k \in Key
  PROVE  \/ /\ comm'[k] = comm[k] /\ accepted'[d][k] = "none"
         \/ /\ rev[d] > comm[k].rev /\ item[d][k].op # "none"
            /\ accepted'[d][k] = item[d][k].op
            /\ comm'[k].rev = rev[d]
            /\ comm'[k].live = (item[d][k].op = "live")
            /\ comm'[k].content = item[d][k].content
            /\ k \in notified' \ notified => item[d][k].notify
  <1>1. PICK R \in SUBSET Items(d) :
          /\ comm' = [j \in Key |->
               IF j \in Kept(d, R) THEN Stored(item[d][j], rev[d]) ELSE comm[j]]
          /\ notified' = notified \cup {j \in Kept(d, R) : Notifies(item[d][j], j)}
          /\ accepted' = [accepted EXCEPT ![d] =
               [j \in Key |-> IF j \in AcceptedOutcome(d, R) THEN item[d][j].op ELSE "none"]]
    BY DEF Write
  <1> QED
    BY <1>1 DEF AcceptedOutcome, Kept, Items, Supersedes, Stored, Notifies, TypeOK

\* What a late item leaves there.
LEMMA LandStores ==
  ASSUME NEW m \in wire, TypeOK, Land(m), NEW k \in Key
  PROVE  \/ comm'[k] = comm[k]
         \/ /\ k = m.key /\ m.rev > comm[k].rev
            /\ comm'[k].rev = m.rev
            /\ comm'[k].live = (m.item.op = "live")
            /\ comm'[k].content = m.item.content
  <1>1. m.key \in Key
    BY DEF TypeOK
  <1> QED
    BY <1>1 DEF Land, Supersedes, Stored, TypeOK

-----------------------------------------------------------------------------
(* LedgerInv *)

LEMMA InitLedger == Init => LedgerInv
  BY DEF Init, LedgerInv, UnseenIsDark, AcceptedThere, ListingBehind, LedgerSound, Unseen

\* A step that moves nothing the ledger is about.
LEMMA UntouchedLedger ==
  LedgerInv /\ UNCHANGED <<sent, comm, listing, pc, rev, accepted>> => LedgerInv'
  BY DEF LedgerInv, UnseenIsDark, AcceptedThere, ListingBehind, LedgerSound

\* Community stores under a revision above all that is known of the key.
LEMMA StoringKeepsLedger ==
  ASSUME TypeOK, LedgerInv, UNCHANGED <<sent, listing>>,
         \A k \in Key : \/ comm'[k] = comm[k]
                        \/ comm'[k].rev \in Nat /\ comm'[k].rev > comm[k].rev
  PROVE  UnseenIsDark' /\ ListingBehind' /\ LedgerSound'
  <1>1. \A k \in Key : /\ comm[k].rev \in Nat /\ listing[k].rev \in Nat
                       /\ sent[k].rev \in Nat
    BY DEF TypeOK, CommType
  <1>2. UnseenIsDark'
    BY <1>1 DEF LedgerInv, UnseenIsDark
  <1>3. ListingBehind'
    BY <1>1 DEF LedgerInv, ListingBehind
  <1>4. LedgerSound'
    BY <1>1 DEF LedgerInv, LedgerSound
  <1> QED
    BY <1>2, <1>3, <1>4

LEMMA LandLedger ==
  ASSUME TypeOK, LedgerInv, NEW m \in wire, Land(m)
  PROVE  LedgerInv'
  <1>1. m.rev \in Nat /\ UNCHANGED <<sent, listing, pc, rev, accepted>>
    BY DEF Land, tick, recon, TypeOK
  <1>2. \A k \in Key : \/ comm'[k] = comm[k]
                       \/ comm'[k].rev \in Nat /\ comm'[k].rev > comm[k].rev
    BY <1>1, LandStores
  <1>3. AcceptedThere'
    BY <1>1, <1>2, Numbers DEF LedgerInv, AcceptedThere
  <1> QED
    BY <1>1, <1>2, <1>3, StoringKeepsLedger DEF LedgerInv

LEMMA WriteLedger ==
  ASSUME TypeOK, LedgerInv, NEW d \in Drainers, Write(d)
  PROVE  LedgerInv'
  <1>1. /\ rev[d] \in Nat /\ UNCHANGED <<sent, listing, rev>> /\ pc'[d] = "written"
        /\ \A k \in Key : item[d][k].op \in {"none", "live", "tomb"}
    BY DEF Write, recon, TypeOK, Item
  <1>2. \A k \in Key : \/ comm'[k] = comm[k]
                       \/ comm'[k].rev \in Nat /\ comm'[k].rev > comm[k].rev
    BY <1>1, WriteStores
  <1>3. AcceptedThere'
    <2> SUFFICES ASSUME NEW e \in Drainers, NEW k \in Key, accepted'[e][k] # "none"
                 PROVE  /\ pc'[e] \in {"written", "recorded"}
                        /\ rev[e] <= comm'[k].rev
                        /\ rev[e] = comm'[k].rev =>
                             comm'[k].live = (accepted'[e][k] = "live")
      BY <1>1 DEF AcceptedThere
    <2>1. CASE e = d
      <3>1. /\ accepted'[d][k] = item[d][k].op /\ comm'[k].rev = rev[d]
            /\ comm'[k].live = (item[d][k].op = "live")
        BY <2>1, WriteStores
      <3> QED
        BY <1>1, <2>1, <3>1
    <2>2. CASE e # d
      <3>1. pc'[e] = pc[e] /\ accepted'[e] = accepted[e]
        BY <2>2, TickMoves DEF TickStep
      <3> QED
        BY <1>1, <1>2, <3>1, Numbers DEF LedgerInv, AcceptedThere
    <2> QED
      BY <2>1, <2>2
  <1> QED
    BY <1>1, <1>2, <1>3, StoringKeepsLedger DEF LedgerInv

\* record and the reconcile write what they know, unless the ledger is newer.
LEMMA LedgerMoves ==
  ASSUME TypeOK, LedgerInv, UNCHANGED comm,
         \A k \in Key :
           \/ sent'[k] = sent[k]
           \/ \E r \in Nat, live \in BOOLEAN :
                /\ sent'[k] = Newest(sent, r, ~live, k)
                /\ r <= comm[k].rev
                /\ r = comm[k].rev => live = comm[k].live
  PROVE  LedgerSound'
  <1> SUFFICES ASSUME NEW k \in Key
               PROVE  /\ sent'[k].rev <= comm[k].rev
                      /\ sent'[k].rev = comm[k].rev /\ sent'[k].rev # 0
                         => sent'[k].removed = ~comm[k].live
    BY DEF LedgerSound
  <1>1. /\ sent[k].rev <= comm[k].rev
        /\ sent[k].rev = comm[k].rev /\ sent[k].rev # 0 => sent[k].removed = ~comm[k].live
    BY DEF LedgerInv, LedgerSound
  <1>2. CASE sent'[k] = sent[k]
    BY <1>1, <1>2
  <1>3. CASE sent'[k] # sent[k]
    <2>1. PICK r \in Nat, live \in BOOLEAN :
            /\ sent'[k] = Newest(sent, r, ~live, k)
            /\ r <= comm[k].rev
            /\ r = comm[k].rev => live = comm[k].live
      BY <1>3
    <2>2. sent'[k].rev = r /\ sent'[k].removed = ~live
      BY <1>3, <2>1 DEF Newest
    <2> QED
      BY <2>1, <2>2
  <1> QED
    BY <1>2, <1>3

LEMMA RecordLedger ==
  ASSUME TypeOK, LedgerInv, NEW d \in Drainers, Record(d)
  PROVE  LedgerInv'
  <1>1. /\ UNCHANGED <<comm, listing, rev, accepted>>
        /\ pc[d] = "written" /\ pc'[d] = "recorded"
        /\ \A e \in Drainers \ {d} : pc'[e] = pc[e]
    BY DEF Record, remote, recon, TypeOK
  <1>2. LedgerSound'
    <2>1. ASSUME NEW k \in Key
          PROVE  \/ sent'[k] = sent[k]
                 \/ \E r \in Nat, live \in BOOLEAN :
                      /\ sent'[k] = Newest(sent, r, ~live, k)
                      /\ r <= comm[k].rev
                      /\ r = comm[k].rev => live = comm[k].live
      <3>1. CASE accepted[d][k] = "none"
        BY <3>1 DEF Record, TypeOK
      <3>2. CASE accepted[d][k] # "none"
        <4> DEFINE live == accepted[d][k] = "live"
        <4>1. accepted[d][k] \in {"live", "tomb"}
          BY <3>2 DEF TypeOK
        <4>2. sent'[k] = Newest(sent, rev[d], accepted[d][k] = "tomb", k)
          BY <3>2 DEF Record
        <4>3. sent'[k] = Newest(sent, rev[d], ~live, k)
          BY <4>1, <4>2
        <4>4. rev[d] <= comm[k].rev /\ (rev[d] = comm[k].rev => live = comm[k].live)
          BY <3>2 DEF LedgerInv, AcceptedThere
        <4> QED
          BY <4>3, <4>4, Numbers
      <3> QED
        BY <3>1, <3>2
    <2> QED
      BY <1>1, <2>1, LedgerMoves
  <1>3. UnseenIsDark' /\ ListingBehind' /\ AcceptedThere'
    BY <1>1 DEF LedgerInv, UnseenIsDark, ListingBehind, AcceptedThere
  <1> QED
    BY <1>2, <1>3 DEF LedgerInv

LEMMA ReconcileLedger ==
  ASSUME TypeOK, LedgerInv, RecStep \/ RecFail
  PROVE  LedgerInv'
  <1>1. UNCHANGED <<comm, pc, rev, accepted>>
    BY ReconcileFrame DEF remote, tick
  <1>2. UnseenIsDark' /\ AcceptedThere'
    BY <1>1 DEF LedgerInv, UnseenIsDark, AcceptedThere
  <1>3. ListingBehind'
    <2>1. \/ listing' = comm \/ listing' = listing
          \/ listing' = [k \in Key |-> Unseen]
      BY DEF RecStep, RecList, RecRecord, RecCompare, RecEnqueue, RecFail, EndReconcile
    <2>2. CASE listing' = [k \in Key |-> Unseen]
      <3>1. \A k \in Key : listing'[k].rev = 0 /\ listing'[k].live = FALSE
        BY <2>2 DEF Unseen
      <3>2. \A k \in Key : comm[k].live \in BOOLEAN
        BY DEF TypeOK, CommType
      <3>3. \A k \in Key : comm[k].rev = 0 => listing'[k].live = comm[k].live
        BY <3>1, <3>2, Zenon DEF LedgerInv, UnseenIsDark
      <3>4. \A k \in Key : 0 <= comm[k].rev
        BY Numbers
      <3> QED
        BY <1>1, <3>1, <3>3, <3>4, Zenon DEF ListingBehind
    <2>3. CASE listing' = comm
      BY <1>1, <2>3, Numbers DEF ListingBehind
    <2>4. CASE listing' = listing
      BY <1>1, <2>4 DEF LedgerInv, ListingBehind
    <2> QED
      BY <2>1, <2>2, <2>3, <2>4
  <1>4. LedgerSound'
    <2>1. CASE RecRecord
      <3>1. ASSUME NEW k \in Key
            PROVE  \/ sent'[k] = sent[k]
                   \/ \E r \in Nat, live \in BOOLEAN :
                        /\ sent'[k] = Newest(sent, r, ~live, k)
                        /\ r <= comm[k].rev
                        /\ r = comm[k].rev => live = comm[k].live
        <4>1. listing[k].rev \in Nat /\ listing[k].live \in BOOLEAN
          BY DEF TypeOK, CommType
        <4> QED
          BY <2>1, <4>1 DEF RecRecord, LedgerInv, ListingBehind
      <3> QED
        BY <1>1, <3>1, LedgerMoves
    <2>2. CASE ~RecRecord
      <3>1. sent' = sent
        BY <2>2 DEF RecStep, RecList, RecCompare, RecEnqueue, RecFail
      <3> QED
        BY <1>1, <3>1 DEF LedgerInv, LedgerSound
    <2> QED
      BY <2>1, <2>2
  <1> QED
    BY <1>2, <1>3, <1>4 DEF LedgerInv

\* The other steps of a tick tell the ledger nothing; a finished tick knows
\* nothing any more.
LEMMA TickLedger ==
  ASSUME TypeOK, LedgerInv, NEW d \in Drainers,
         TickStep(d) \/ Fail(d) \/ WriteLost(d)
  PROVE  LedgerInv'
  <1>1. CASE Write(d)
    BY <1>1, WriteLedger
  <1>2. CASE Record(d)
    BY <1>2, RecordLedger
  <1>3. CASE Claim(d) \/ ReadRows(d) \/ ReadWorks(d) \/ BuildItems(d)
    <2>1. /\ UNCHANGED <<comm, sent, listing, accepted>>
          /\ pc[d] \notin {"written", "recorded"}
      BY <1>3 DEF Claim, ReadRows, ReadWorks, BuildItems, remote, recon
    <2>2. \A e \in Drainers \ {d} : pc'[e] = pc[e] /\ rev'[e] = rev[e]
      BY TickMoves
    <2>3. AcceptedThere'
      BY <2>1, <2>2 DEF LedgerInv, AcceptedThere
    <2> QED
      BY <2>1, <2>3 DEF LedgerInv, UnseenIsDark, ListingBehind, LedgerSound
  <1>4. CASE Ack(d) \/ Fail(d) \/ WriteLost(d)
    <2>1. /\ UNCHANGED <<comm, sent, listing>>
          /\ accepted'[d] = [k \in Key |-> "none"]
      BY <1>4 DEF Ack, Fail, WriteLost, EndTick, remote, recon, TypeOK
    <2>2. \A e \in Drainers \ {d} : /\ pc'[e] = pc[e] /\ rev'[e] = rev[e]
                                     /\ accepted'[e] = accepted[e]
      BY TickMoves
    <2>3. AcceptedThere'
      BY <2>1, <2>2 DEF LedgerInv, AcceptedThere
    <2> QED
      BY <2>1, <2>3 DEF LedgerInv, UnseenIsDark, ListingBehind, LedgerSound
  <1> QED
    BY <1>1, <1>2, <1>3, <1>4 DEF TickStep

LEMMA NextLedger == TypeOK /\ LedgerInv /\ [Next]_vars => LedgerInv'
  <1> SUFFICES ASSUME TypeOK, LedgerInv, [Next]_vars PROVE LedgerInv'
    OBVIOUS
  <1>1. ASSUME NEW r \in Resources, Writer(r) \/ SyncClaim(r) \/ MarkIndexed(r)
        PROVE  LedgerInv'
    BY <1>1, WritersFrame, UntouchedLedger DEF remote, tick, recon
  <1>2. ASSUME NEW d \in Drainers, TickStep(d) \/ Fail(d) \/ WriteLost(d)
        PROVE  LedgerInv'
    BY <1>2, TickLedger
  <1>3. ASSUME NEW m \in wire, Land(m) PROVE LedgerInv'
    BY <1>3, LandLedger
  <1>4. CASE RecStep \/ RecFail
    BY <1>4, ReconcileLedger
  <1>5. CASE UNCHANGED vars
    BY <1>5, UntouchedLedger DEF vars, remote, tick, recon
  <1> QED
    BY <1>1, <1>2, <1>3, <1>4, <1>5 DEF Next

\* Whatever order drainers record in, and whatever the reconcile copies from a
\* listing that community has moved on from, activity_push_sent never says more
\* than community accepted, and is right about a key whose revision it has.
THEOREM LedgerIsSound == Spec => []LedgerSound
  <1>1. TypeOK /\ LedgerInv /\ [Next]_vars => (TypeOK /\ LedgerInv)'
    BY NextType, NextLedger
  <1>2. Init => TypeOK /\ LedgerInv
    BY InitType, InitLedger
  <1>3. LedgerInv => LedgerSound
    BY DEF LedgerInv
  <1> QED
    BY <1>1, <1>2, <1>3, PTL DEF Spec

-----------------------------------------------------------------------------
(* Tombstones *)

\* What an item is made of.
LEMMA ItemForOp ==
  ASSUME NEW d \in Drainers, NEW k \in Key
  PROVE  /\ ItemFor(d, k).op = "tomb" => HeldLive(k)
         /\ ItemFor(d, k).notify => claim[d][k] # 0 /\ ~flag[d][k]
  BY DEF ItemFor, NotifyFor, NoItem

\* Community's revisions never go back, so a key stored once stays known.
LEMMA StoredStays ==
  ASSUME TypeOK, [Next]_vars, NEW k \in Key
  PROVE  comm'[k].rev >= comm[k].rev
  <1>1. comm[k].rev \in Nat /\ comm'[k].rev \in Nat
    BY Numbers, NextType DEF TypeOK, CommType
  <1>2. CASE comm'[k] = comm[k]
    BY <1>1, <1>2
  <1>3. CASE comm'[k] # comm[k]
    <2>1. \/ \E d \in Drainers : Write(d)
          \/ \E m \in wire : Land(m)
      BY <1>3, OnlyWritesStore
    <2>2. \A m \in wire : m.rev \in Nat
      BY DEF TypeOK
    <2>3. comm'[k].rev > comm[k].rev
      <3>1. CASE \E d \in Drainers : Write(d)
        BY <1>3, <3>1, WriteStores
      <3>2. CASE \E m \in wire : Land(m)
        BY <1>3, <3>2, LandStores
      <3> QED
        BY <2>1, <3>1, <3>2
    <2> QED
      BY <1>1, <2>3
  <1> QED
    BY <1>2, <1>3

\* A late item was built by some tick; nothing else reaches the wire.
LEMMA WireGrows ==
  ASSUME TypeOK, [Next]_vars, NEW m \in wire', m \notin wire
  PROVE  \E d \in Drainers : /\ WriteLost(d) /\ m.key \in Key /\ m.rev = rev[d]
                             /\ m.item = item[d][m.key] /\ m.item.op # "none"
  <1>1. PICK d \in Drainers : WriteLost(d)
    BY DEF Next, Writer, CreateResource, UpdateResource, ToggleResource,
         DeleteResource, WriteRow, CatalogRename, CatalogFlip, SyncClaim, MarkIndexed,
         TickStep, Claim, ReadRows, ReadWorks, BuildItems, Write, Record, Ack, Fail, Land,
         RecStep, RecList, RecRecord, RecCompare, RecEnqueue, RecFail, vars, remote
  <1>2. \E k \in Items(d) : m = [key |-> k, rev |-> rev[d], item |-> item[d][k]]
    BY <1>1 DEF WriteLost
  <1> QED
    BY <1>1, <1>2 DEF Items

\* An item changes only when it is built or dropped.
LEMMA ItemMoves ==
  ASSUME TypeOK, [Next]_vars, NEW d \in Drainers, NEW k \in Key
  PROVE  \/ item'[d][k] = item[d][k]
         \/ item'[d][k] = NoItem
         \/ BuildItems(d) /\ item'[d][k] = ItemFor(d, k)
  <1>1. CASE item' = item
    BY <1>1
  <1>2. CASE item' # item
    <2>1. PICK e \in Drainers : TickStep(e) \/ Fail(e) \/ WriteLost(e)
      BY <1>2, WritersFrame, ReconcileFrame DEF Next, Land, vars, tick
    <2>2. CASE e # d
      BY <2>1, <2>2, TickMoves
    <2>3. CASE e = d
      BY <1>2, <2>1, <2>3 DEF TickStep, Claim, ReadRows, ReadWorks, BuildItems, Write,
         Record, Ack, Fail, WriteLost, EndTick, TypeOK
    <2> QED
      BY <2>2, <2>3
  <1> QED
    BY <1>1, <1>2

LEMMA NextTombs ==
  TypeOK /\ LedgerInv /\ TombsFollow /\ [Next]_vars => TombsFollow'
  <1> SUFFICES ASSUME TypeOK, LedgerInv, TombsFollow, [Next]_vars PROVE TombsFollow'
    OBVIOUS
  <1>1. \A k \in Key : comm[k].rev # 0 => comm'[k].rev # 0
    BY StoredStays, NextType, Numbers DEF TypeOK, CommType
  <1>2. ASSUME NEW d \in Drainers, NEW k \in Key, item'[d][k].op = "tomb"
        PROVE  comm'[k].rev # 0
    <2>1. CASE item'[d][k] = item[d][k]
      BY <1>1, <1>2, <2>1 DEF TombsFollow
    <2>2. CASE item'[d][k] = NoItem
      BY <1>2, <2>2 DEF NoItem
    <2>3. CASE BuildItems(d) /\ item'[d][k] = ItemFor(d, k)
      <3>1. sent[k].rev # 0
        BY <1>2, <2>3, ItemForOp DEF HeldLive
      <3>2. sent[k].rev <= comm[k].rev /\ sent[k].rev \in Nat
        BY DEF LedgerInv, LedgerSound, TypeOK
      <3> QED
        BY <1>1, <3>1, <3>2, Numbers
    <2> QED
      BY <2>1, <2>2, <2>3, ItemMoves
  <1>3. ASSUME NEW m \in wire'
        PROVE  m.item.op # "none" /\ (m.item.op = "tomb" => comm'[m.key].rev # 0)
    <2>1. CASE m \in wire
      BY <1>1, <2>1 DEF TombsFollow, TypeOK
    <2>2. CASE m \notin wire
      BY <1>1, <2>2, WireGrows DEF TombsFollow
    <2> QED
      BY <2>1, <2>2
  <1> QED
    BY <1>2, <1>3 DEF TombsFollow

\* The first thing community stores for a key is live.
LEMMA FirstIsLive ==
  ASSUME TypeOK, TombsFollow, [Next]_vars, NEW k \in Key,
         comm[k].rev = 0, comm'[k].rev # 0
  PROVE  comm'[k].live
  <1>1. \/ \E d \in Drainers : Write(d)
        \/ \E m \in wire : Land(m)
    BY OnlyWritesStore
  <1>2. ASSUME NEW d \in Drainers, Write(d) PROVE comm'[k].live
    <2>1. item[d][k].op # "none" /\ comm'[k].live = (item[d][k].op = "live")
      BY <1>2, WriteStores
    <2>2. item[d][k].op \in {"none", "live", "tomb"}
      BY DEF TypeOK, Item
    <2> QED
      BY <2>1, <2>2 DEF TombsFollow
  <1>3. ASSUME NEW m \in wire, Land(m) PROVE comm'[k].live
    <2>1. k = m.key /\ comm'[k].live = (m.item.op = "live")
      BY <1>3, LandStores
    <2>2. m.item.op \in {"none", "live", "tomb"}
      BY DEF TypeOK, Item
    <2> QED
      BY <2>1, <2>2 DEF TombsFollow
  <1> QED
    BY <1>1, <1>2, <1>3

\* A key's history in community opens with a live activity, so its restoration
\* can be told from its first publication: a tombstone, in a tick or late on the
\* wire, is only ever for a key community has already stored.
THEOREM TombsAreNeverFirst == Spec => NoOrphanTombstone
  <1>1. Init => TypeOK /\ LedgerInv /\ TombsFollow
    <2>1. Init => TombsFollow
      BY DEF Init, TombsFollow, NoItem
    <2> QED
      BY <2>1, InitType, InitLedger
  <1>2. TypeOK /\ LedgerInv /\ TombsFollow /\ [Next]_vars
        => (TypeOK /\ LedgerInv /\ TombsFollow)'
    BY NextType, NextLedger, NextTombs
  <1>3. TypeOK /\ TombsFollow /\ [Next]_vars
        => [\A k \in Key : comm[k].rev = 0 /\ comm'[k].rev # 0 => comm'[k].live]_vars
    BY FirstIsLive
  <1> QED
    BY <1>1, <1>2, <1>3, PTL DEF Spec, NoOrphanTombstone

-----------------------------------------------------------------------------
(* Notices *)

\* Marks move to the clock, and the clock has started.
LEMMA MarksStay ==
  ASSUME TypeOK, clock > 0, [Next]_vars, NEW k \in Key, mark[k] > 0
  PROVE  mark'[k] > 0
  <1>1. \/ mark' = mark
        \/ \E K : TriggerEnqueue(K)
    BY DEF Next, Writer, CreateResource, UpdateResource, ToggleResource,
       DeleteResource, WriteRow, CatalogRename, CatalogFlip, SyncClaim, MarkIndexed,
       SetPublished, TickStep, Claim, ReadRows, ReadWorks, BuildItems, Write, Record, Ack,
       Fail, WriteLost, Land, RecStep, RecList, RecRecord, RecCompare, RecEnqueue,
       RecFail, vars
  <1> QED
    BY <1>1 DEF TriggerEnqueue

\* A row that is not backfill was one before, or a trigger has just written it.
LEMMA QueueMoves ==
  ASSUME TypeOK, clock > 0, [Next]_vars, NEW k \in Key,
         queue'[k].at # 0, ~queue'[k].backfill
  PROVE  \/ queue[k].at # 0 /\ ~queue[k].backfill
         \/ mark'[k] > 0
  <1>1. \/ queue' = queue
        \/ \E K : TriggerEnqueue(K)
        \/ \E K : Enqueue(K, TRUE)
        \/ \E d \in Drainers : Ack(d)
    BY DEF Next, Writer, CreateResource, UpdateResource, ToggleResource,
       DeleteResource, WriteRow, CatalogRename, CatalogFlip, SyncClaim, MarkIndexed,
       SetPublished, TickStep, Claim, ReadRows, ReadWorks, BuildItems, Write, Record,
       Fail, WriteLost, Land, RecStep, RecList, RecRecord, RecCompare, RecEnqueue,
       RecFail, vars
  <1>2. CASE \E K : TriggerEnqueue(K)
    <2>1. PICK K : TriggerEnqueue(K)
      BY <1>2
    <2>2. CASE k \in K
      BY <2>1, <2>2 DEF TriggerEnqueue
    <2>3. CASE k \notin K
      BY <2>1, <2>3, EnqueueMoves DEF TriggerEnqueue
    <2> QED
      BY <2>2, <2>3
  <1>3. CASE \E K : Enqueue(K, TRUE)
    <2>1. PICK K : Enqueue(K, TRUE)
      BY <1>3
    <2>2. PICK t \in Stamps : queue' = [j \in Key |->
            IF j \notin K THEN queue[j]
            ELSE [at |-> t,
                  backfill |-> TRUE /\ (queue[j].at # 0 => queue[j].backfill)]]
      BY <2>1 DEF Enqueue
    <2>3. CASE k \in K
      <3>1. queue'[k].backfill = (TRUE /\ (queue[k].at # 0 => queue[k].backfill))
        BY <2>2, <2>3
      <3> QED
        BY <3>1, Zenon
    <2>4. CASE k \notin K
      BY <2>2, <2>4
    <2> QED
      BY <2>3, <2>4
  <1>4. CASE \E d \in Drainers : Ack(d)
    BY <1>4 DEF Ack, NoQueueRow
  <1> QED
    BY <1>1, <1>2, <1>3, <1>4

\* What d knows of a claimed row stands until its items are built.
LEMMA ClaimMoves ==
  ASSUME TypeOK, [Next]_vars, NEW d \in Drainers, NEW k \in Key,
         pc'[d] \in {"claimed", "rows", "works"}, claim'[d][k] # 0, ~flag'[d][k]
  PROVE  \/ /\ pc[d] \in {"claimed", "rows", "works"}
            /\ claim[d][k] # 0 /\ ~flag[d][k]
         \/ queue[k].at # 0 /\ ~queue[k].backfill
  <1>1. CASE \E e \in Drainers : TickStep(e) \/ Fail(e) \/ WriteLost(e)
    <2>1. PICK e \in Drainers : TickStep(e) \/ Fail(e) \/ WriteLost(e)
      BY <1>1
    <2>2. CASE e # d
      BY <2>1, <2>2, TickMoves
    <2>3. CASE e = d /\ Claim(d)
      <3>1. PICK K \in SUBSET Queued :
              /\ claim' = [claim EXCEPT ![d] = [j \in Key |-> IF j \in K THEN queue[j].at ELSE 0]]
              /\ flag' = [flag EXCEPT ![d] = [j \in Key |-> j \in K /\ queue[j].backfill]]
        BY <2>3 DEF Claim
      <3>2. claim'[d][k] = IF k \in K THEN queue[k].at ELSE 0
        BY <3>1 DEF TypeOK
      <3>3. flag'[d][k] = (k \in K /\ queue[k].backfill)
        BY <3>1 DEF TypeOK
      <3> QED
        BY <3>2, <3>3
    <2>4. CASE e = d /\ (ReadRows(d) \/ ReadWorks(d))
      BY <2>4 DEF ReadRows, ReadWorks
    <2>5. CASE e = d /\ ~Claim(d) /\ ~ReadRows(d) /\ ~ReadWorks(d)
      BY <2>1, <2>5 DEF TickStep, BuildItems, Write, Record, Ack, Fail, WriteLost, EndTick,
         TypeOK
    <2> QED
      BY <2>2, <2>3, <2>4, <2>5
  <1>2. CASE ~\E e \in Drainers : TickStep(e) \/ Fail(e) \/ WriteLost(e)
    <2>1. UNCHANGED tick
      BY <1>2, WritersFrame, ReconcileFrame DEF Next, Land, vars
    <2> QED
      BY <2>1 DEF tick
  <1> QED
    BY <1>1, <1>2

\* A notification is sent for an item that asks for it.
LEMMA NoticesAsked ==
  ASSUME TypeOK, [Next]_vars, NEW k \in notified', k \notin notified
  PROVE  \/ \E d \in Drainers : k \in Key /\ item[d][k].notify
         \/ \E m \in wire : m.key = k /\ m.item.notify
  <1>1. \/ \E d \in Drainers : Write(d)
        \/ \E m \in wire : Land(m)
    BY OnlyWritesStore
  <1>2. ASSUME NEW d \in Drainers, Write(d) PROVE k \in Key /\ item[d][k].notify
    BY <1>2 DEF Write, Kept, Items, Notifies
  <1>3. ASSUME NEW m \in wire, Land(m) PROVE m.key = k /\ m.item.notify
    BY <1>3 DEF Land, Notifies
  <1> QED
    BY <1>1, <1>2, <1>3

LEMMA NextNotice == TypeOK /\ NoticeInv /\ [Next]_vars => NoticeInv'
  <1> SUFFICES ASSUME TypeOK, NoticeInv, [Next]_vars PROVE NoticeInv'
    OBVIOUS
  <1>0. clock > 0
    BY DEF NoticeInv
  <1>1. clock' > 0
    <2>1. clock' = clock \/ clock' = clock + 1
      BY DEF Next, Writer, CreateResource, UpdateResource, ToggleResource,
       DeleteResource, WriteRow, CatalogRename, CatalogFlip, SyncClaim, MarkIndexed,
       TickStep, Claim, ReadRows, ReadWorks, BuildItems, Write, Record, Ack, Fail,
       WriteLost, Land, RecStep, RecList, RecRecord, RecCompare, RecEnqueue, RecFail, vars
    <2> QED
      BY <1>0, <2>1, Numbers
  <1>2. \A k \in Key : mark[k] > 0 => mark'[k] > 0
    BY <1>0, MarksStay
  <1>3. \A k \in Key : queue'[k].at # 0 /\ ~queue'[k].backfill => mark'[k] > 0
    BY <1>0, <1>2, QueueMoves DEF NoticeInv
  <1>4. \A d \in Drainers, k \in Key :
          pc'[d] \in {"claimed", "rows", "works"} /\ claim'[d][k] # 0 /\ ~flag'[d][k]
          => mark'[k] > 0
    BY <1>2, ClaimMoves DEF NoticeInv
  <1>5. ASSUME NEW d \in Drainers, NEW k \in Key, item'[d][k].notify
        PROVE  mark'[k] > 0
    <2>1. CASE item'[d][k] = item[d][k]
      BY <1>2, <1>5, <2>1 DEF NoticeInv
    <2>2. CASE item'[d][k] = NoItem
      BY <1>5, <2>2 DEF NoItem
    <2>3. CASE BuildItems(d) /\ item'[d][k] = ItemFor(d, k)
      <3>1. pc[d] = "works" /\ claim[d][k] # 0 /\ ~flag[d][k]
        BY <1>5, <2>3, ItemForOp DEF BuildItems
      <3> QED
        BY <1>2, <3>1 DEF NoticeInv
    <2> QED
      BY <2>1, <2>2, <2>3, ItemMoves
  <1>6. ASSUME NEW m \in wire', m.item.notify PROVE mark'[m.key] > 0
    <2>1. CASE m \in wire
      BY <1>2, <1>6, <2>1 DEF NoticeInv, TypeOK
    <2>2. CASE m \notin wire
      BY <1>2, <1>6, <2>2, WireGrows DEF NoticeInv
    <2> QED
      BY <2>1, <2>2
  <1>7. NoBackfillNotice'
    <2> SUFFICES ASSUME NEW k \in notified' PROVE mark'[k] > 0
      BY DEF NoBackfillNotice
    <2>1. CASE k \in notified
      BY <1>2, <2>1 DEF NoticeInv, NoBackfillNotice, TypeOK
    <2>2. CASE k \notin notified
      BY <1>2, <2>2, NoticesAsked DEF NoticeInv, TypeOK
    <2> QED
      BY <2>1, <2>2
  <1> QED
    BY <1>1, <1>3, <1>4, <1>5, <1>6, <1>7 DEF NoticeInv

\* Backfill is silent: what the migration and the reconcile enqueue is pushed
\* without a notification, through lost and late writes and shared queue rows.
THEOREM BackfillIsSilent == Spec => []NoBackfillNotice
  <1>1. Init => TypeOK /\ NoticeInv
    <2>1. Init => NoticeInv
      BY DEF Init, NoticeInv, NoBackfillNotice, NoItem, NoQueueRow
    <2> QED
      BY <2>1, InitType
  <1>2. TypeOK /\ NoticeInv /\ [Next]_vars => (TypeOK /\ NoticeInv)'
    BY NextType, NextNotice
  <1>3. NoticeInv => NoBackfillNotice
    BY DEF NoticeInv
  <1> QED
    BY <1>1, <1>2, <1>3, PTL DEF Spec

-----------------------------------------------------------------------------
(* Hidden content, with one drainer and no failed call *)

OneDrainLoop == \A d, e \in Drainers : d = e

\* A step that overtakes claims and leaves the rest alone.
LEMMA OvertakingKeepsHidden ==
  ASSUME HiddenParts, UNCHANGED <<row, comm, sent, wire, tick>>,
         \A k \in Key : /\ queue'[k].at = 0 => queue[k].at = 0
                        /\ \A d \in Drainers : Unmoved(d, k)' => Unmoved(d, k)
  PROVE  HiddenParts'
  <1> USE DEF tick
  <1>1. LedgerCaughtUp' /\ RevAhead' /\ ClaimsQueued' /\ wire' = {}
    BY DEF HiddenParts, LedgerCaughtUp, RevAhead, ClaimsQueued
  <1>2. ReadsHidden' /\ ItemsHidden'
    BY DEF HiddenParts, ReadsHidden, ItemsHidden, LocalLive
  <1>3. WrittenHidden' /\ SettledHidden'
    BY DEF HiddenParts, WrittenHidden, SettledHidden, LocalLive
  <1> QED
    BY <1>1, <1>2, <1>3 DEF HiddenParts

\* An upsert overtakes the claims on what it enqueues.
LEMMA EnqueueOvertakes ==
  ASSUME TypeOK, NEW K, NEW b \in BOOLEAN, Enqueue(K, b), UNCHANGED claim, NEW k \in Key
  PROVE  /\ queue'[k].at = 0 => queue[k].at = 0 /\ k \notin K
         /\ \A d \in Drainers : Unmoved(d, k)' => Unmoved(d, k) /\ k \notin K
  BY EnqueueMoves DEF Unmoved

\* A transaction enqueues every key it hides; a row without revisions has no
\* edit key to enqueue and none to hide.
LEMMA WriteRowHidden ==
  ASSUME TypeOK, HiddenParts, NEW r \in Resources, NEW new \in RowType,
         WriteRow(r, new, KeysOf(r, new.edits)),
         new.edits = 0 => row[r].edits = 0 \/ ~row[r].exists
  PROVE  HiddenParts'
  <1> DEFINE K == KeysOf(r, new.edits)
  <1> USE DEF tick
  <1>1. /\ row' = [row EXCEPT ![r] = new] /\ Enqueue(K, FALSE)
        /\ UNCHANGED <<comm, sent, wire, tick>>
    BY DEF WriteRow, TriggerEnqueue, remote
  <1>2. \A k \in Key : /\ queue'[k].at = 0 => queue[k].at = 0 /\ k \notin K
                       /\ \A d \in Drainers : Unmoved(d, k)' => Unmoved(d, k) /\ k \notin K
    BY <1>1, EnqueueOvertakes
  <1> HIDE DEF K
  <1>3. ASSUME NEW k \in Key, k \notin K
        PROVE  \/ row'[k[2]] = row[k[2]]
               \/ /\ k[1] = "edit" /\ ~LocalLive(k)
                  /\ ~(row'[k[2]].exists /\ row'[k[2]].edits > 0)
    <2>1. CASE k[2] # r
      BY <1>1, <2>1, KeyIsPair DEF TypeOK
    <2>2. CASE k[2] = r
      <3>1. k[1] = "edit" /\ new.edits = 0
        BY <1>3, <2>2 DEF K, KeysOf, RowType
      <3>2. row'[k[2]] = new
        BY <1>1, <2>2 DEF TypeOK
      <3>3. ~LocalLive(k)
        BY <2>2, <3>1 DEF LocalLive, Live
      <3> QED
        BY <3>1, <3>2, <3>3
    <2> QED
      BY <2>1, <2>2
  <1>4. \A k \in Key : k \notin K /\ ~LocalLive(k)' => ~LocalLive(k)
    BY <1>3 DEF LocalLive, Live
  <1>5. LedgerCaughtUp' /\ RevAhead' /\ ClaimsQueued' /\ wire' = {}
    BY <1>1, <1>2 DEF HiddenParts, LedgerCaughtUp, RevAhead, ClaimsQueued
  <1>6. ReadsHidden'
    <2> SUFFICES ASSUME NEW d \in Drainers, NEW k \in Key, pc[d] \in {"rows", "works"},
                        Unmoved(d, k)', ~LocalLive(k)'
                 PROVE  \/ ~(rows[d][k[2]].exists /\ rows[d][k[2]].public)
                        \/ k[1] = "edit" /\ ~(row'[k[2]].exists /\ row'[k[2]].edits > 0)
      BY <1>1 DEF ReadsHidden
    <2>1. k \notin K /\ Unmoved(d, k) /\ ~LocalLive(k)
      BY <1>2, <1>4
    <2> QED
      BY <1>3, <2>1 DEF HiddenParts, ReadsHidden
  <1>7. ItemsHidden' /\ WrittenHidden' /\ SettledHidden'
    BY <1>1, <1>2, <1>4 DEF HiddenParts, ItemsHidden, WrittenHidden, SettledHidden
  <1> QED
    BY <1>5, <1>6, <1>7 DEF HiddenParts

LEMMA WritersHidden ==
  ASSUME TypeOK, HiddenParts, NEW r \in Resources, Writer(r) \/ SyncClaim(r) \/ MarkIndexed(r)
  PROVE  HiddenParts'
  <1>1. row[r] \in RowType
    BY DEF TypeOK
  <1>2. CASE CreateResource(r)
    <2>1. PICK new \in RowType : new.edits = 0 /\ WriteRow(r, new, KeysOf(r, 0))
      BY <1>1, <1>2 DEF CreateResource, RowType
    <2>2. WriteRow(r, new, KeysOf(r, new.edits)) /\ ~row[r].exists
      BY <1>2, <2>1 DEF CreateResource
    <2> QED
      BY <2>2, WriteRowHidden
  <1>3. CASE UpdateResource(r)
    <2>1. row[r].ver + 1 \in Nat /\ row[r].edits + 1 \in Nat /\ row[r].edits + 1 # 0
      BY <1>1 DEF RowType
    <2>2. [row[r] EXCEPT !.ver = @ + 1, !.edits = @ + 1] \in RowType
      BY <1>1, <2>1, Zenon DEF RowType
    <2>3. PICK new \in RowType : /\ new.edits = row[r].edits + 1
                                 /\ WriteRow(r, new, KeysOf(r, row[r].edits + 1))
      BY <1>1, <1>3, <2>2 DEF UpdateResource, RowType
    <2>4. WriteRow(r, new, KeysOf(r, new.edits)) /\ new.edits # 0
      BY <2>1, <2>3
    <2> QED
      BY <2>4, WriteRowHidden
  <1>4. CASE ToggleResource(r)
    <2>1. PICK new \in RowType : /\ new.edits = row[r].edits
                                 /\ WriteRow(r, new, KeysOf(r, row[r].edits))
      BY <1>1, <1>4 DEF ToggleResource, RowType
    <2>2. WriteRow(r, new, KeysOf(r, new.edits))
      BY <2>1
    <2> QED
      BY <2>1, <2>2, WriteRowHidden
  <1>5. CASE DeleteResource(r)
    <2>1. PICK new \in RowType : /\ new.edits = row[r].edits
                                 /\ WriteRow(r, new, KeysOf(r, row[r].edits))
      BY <1>1, <1>5 DEF DeleteResource, RowType
    <2>2. WriteRow(r, new, KeysOf(r, new.edits))
      BY <2>1
    <2> QED
      BY <2>1, <2>2, WriteRowHidden
  <1>6. CASE CatalogRename(r) \/ CatalogFlip(r) \/ SyncClaim(r) \/ MarkIndexed(r)
    <2>1. UNCHANGED <<row, comm, sent, wire, tick>>
      BY <1>6 DEF CatalogRename, CatalogFlip, SyncClaim, MarkIndexed, remote
    <2>2. queue' = queue \/ \E K : Enqueue(K, FALSE)
      BY <1>6 DEF CatalogRename, CatalogFlip, SyncClaim, MarkIndexed, SetPublished,
         TriggerEnqueue
    <2>3. \A k \in Key : /\ queue'[k].at = 0 => queue[k].at = 0
                         /\ \A d \in Drainers : Unmoved(d, k)' => Unmoved(d, k)
      BY <2>1, <2>2, EnqueueOvertakes DEF Unmoved, tick
    <2> QED
      BY <2>1, <2>3, OvertakingKeepsHidden
  <1> QED
    BY <1>2, <1>3, <1>4, <1>5, <1>6 DEF Writer

\* The reconcile overtakes claims; and it copies from its listing only what the
\* ledger does not have yet.
LEMMA ReconcileHidden ==
  ASSUME TypeOK, LedgerInv, HiddenParts, RecStep \/ RecFail
  PROVE  HiddenParts'
  <1>1. UNCHANGED <<row, comm, wire, tick>>
    BY ReconcileFrame DEF local, remote
  <1>2. CASE RecRecord
    <2>1. queue' = queue
      BY <1>2 DEF RecRecord
    <2>2. LedgerCaughtUp'
      <3> SUFFICES ASSUME NEW k \in Key
                   PROVE  \/ sent'[k].rev = comm[k].rev
                          \/ \E d \in Drainers : /\ pc[d] = "written"
                                                 /\ accepted[d][k] # "none"
                                                 /\ rev[d] = comm[k].rev
        BY <1>1 DEF LedgerCaughtUp, tick
      <3>1. /\ listing[k].rev <= comm[k].rev /\ sent[k].rev <= comm[k].rev
            /\ listing[k].rev \in Nat /\ sent[k].rev \in Nat /\ comm[k].rev \in Nat
        BY DEF LedgerInv, ListingBehind, LedgerSound, TypeOK, CommType
      <3>2. sent'[k].rev \in {sent[k].rev, listing[k].rev} /\ sent'[k].rev >= sent[k].rev
        BY <1>2, <3>1 DEF RecRecord, Newest
      <3>3. CASE sent[k].rev = comm[k].rev
        BY <3>1, <3>2, <3>3
      <3>4. CASE sent[k].rev # comm[k].rev
        BY <3>4 DEF HiddenParts, LedgerCaughtUp
      <3> QED
        BY <3>3, <3>4
    <2>3. /\ wire' = {} /\ RevAhead' /\ ClaimsQueued' /\ ReadsHidden' /\ ItemsHidden'
          /\ WrittenHidden' /\ SettledHidden'
      BY <1>1, <2>1 DEF HiddenParts, RevAhead, ClaimsQueued, ReadsHidden, ItemsHidden,
         WrittenHidden, SettledHidden, Unmoved, LocalLive, tick
    <2> QED
      BY <2>2, <2>3 DEF HiddenParts
  <1>3. CASE ~RecRecord
    <2>1. sent' = sent /\ (queue' = queue \/ \E K : Enqueue(K, TRUE))
      BY <1>3 DEF RecStep, RecList, RecCompare, RecEnqueue, RecFail
    <2>2. \A k \in Key : /\ queue'[k].at = 0 => queue[k].at = 0
                         /\ \A d \in Drainers : Unmoved(d, k)' => Unmoved(d, k)
      BY <1>1, <2>1, EnqueueOvertakes DEF Unmoved, tick
    <2> QED
      BY <1>1, <2>1, <2>2, OvertakingKeepsHidden
  <1> QED
    BY <1>2, <1>3

\* The steps before the write: what the one drainer reads of a key nobody has
\* enqueued since is what the key still is.
LEMMA ClaimHidden ==
  ASSUME TypeOK, FreshnessInv, HiddenParts, OneDrainLoop, NEW d \in Drainers, Claim(d)
  PROVE  HiddenParts'
  <1>1. /\ UNCHANGED <<row, comm, sent, wire, queue>>
        /\ pc[d] = "idle" /\ pc'[d] = "claimed" /\ rev'[d] = clock + 1
    BY DEF Claim, local, remote, TypeOK
  <1>2. \A e \in Drainers : e = d
    BY DEF OneDrainLoop
  <1>3. RevAhead'
    <2>1. \A k \in Key : comm[k].rev < clock + 1
      BY Numbers DEF FreshnessInv, RevBound
    <2> QED
      BY <1>1, <1>2, <2>1 DEF RevAhead
  <1>6. ClaimsQueued'
    <2>1. PICK K \in SUBSET Queued :
            claim' = [claim EXCEPT ![d] = [k \in Key |-> IF k \in K THEN queue[k].at ELSE 0]]
      BY DEF Claim
    <2>2. \A k \in Key : claim'[d][k] # 0 => queue[k].at # 0
      BY <2>1 DEF Queued, TypeOK
    <2> QED
      BY <1>1, <1>2, <2>2 DEF ClaimsQueued
  <1>4. LedgerCaughtUp' /\ ReadsHidden' /\ ItemsHidden' /\ WrittenHidden'
    BY <1>1, <1>2 DEF HiddenParts, LedgerCaughtUp, ReadsHidden, ItemsHidden, WrittenHidden
  <1>5. SettledHidden' /\ wire' = {}
    BY <1>1 DEF HiddenParts, SettledHidden, LocalLive
  <1> QED
    BY <1>3, <1>4, <1>5, <1>6 DEF HiddenParts

LEMMA ReadsKeepHidden ==
  ASSUME TypeOK, HiddenParts, OneDrainLoop, NEW d \in Drainers, ReadRows(d) \/ ReadWorks(d)
  PROVE  HiddenParts'
  <1>1. /\ UNCHANGED <<row, comm, sent, wire, queue, claim, rev, item>>
        /\ pc[d] \in {"claimed", "rows"} /\ pc'[d] \in {"rows", "works"}
        /\ rows'[d] = row \/ (pc[d] = "rows" /\ rows'[d] = rows[d])
    BY DEF ReadRows, ReadWorks, local, remote, TypeOK
  <1>2. \A e \in Drainers : e = d
    BY DEF OneDrainLoop
  <1>3. ReadsHidden'
    <2> SUFFICES ASSUME NEW k \in Key, Unmoved(d, k), ~LocalLive(k)
                 PROVE  \/ ~(rows'[d][k[2]].exists /\ rows'[d][k[2]].public)
                        \/ k[1] = "edit" /\ ~(row[k[2]].exists /\ row[k[2]].edits > 0)
      BY <1>1, <1>2 DEF ReadsHidden, Unmoved, LocalLive
    <2>1. CASE rows'[d] = row
      BY <2>1 DEF LocalLive, Live
    <2>2. CASE pc[d] = "rows" /\ rows'[d] = rows[d]
      BY <2>2 DEF HiddenParts, ReadsHidden
    <2> QED
      BY <1>1, <2>1, <2>2
  <1>4. RevAhead' /\ LedgerCaughtUp' /\ ClaimsQueued' /\ ItemsHidden' /\ WrittenHidden'
    BY <1>1, <1>2 DEF HiddenParts, RevAhead, LedgerCaughtUp, ClaimsQueued, ItemsHidden,
       WrittenHidden
  <1>5. SettledHidden' /\ wire' = {}
    BY <1>1 DEF HiddenParts, SettledHidden, LocalLive
  <1> QED
    BY <1>3, <1>4, <1>5 DEF HiddenParts

LEMMA BuildHidden ==
  ASSUME TypeOK, LedgerInv, HiddenParts, OneDrainLoop, NEW d \in Drainers, BuildItems(d)
  PROVE  HiddenParts'
  <1>1. /\ UNCHANGED <<row, comm, sent, wire, queue, claim, rev>>
        /\ pc[d] = "works" /\ pc'[d] = "built"
        /\ \A k \in Key : item'[d][k] = ItemFor(d, k)
    BY DEF BuildItems, DropReads, local, remote, TypeOK
  <1>2. \A e \in Drainers : e = d
    BY DEF OneDrainLoop
  <1>3. ItemsHidden'
    <2> SUFFICES ASSUME NEW k \in Key, Unmoved(d, k), ~LocalLive(k)
                 PROVE  \/ ItemFor(d, k).op = "tomb"
                        \/ ItemFor(d, k).op = "none" /\ ~comm[k].live
      BY <1>1, <1>2 DEF ItemsHidden, Unmoved, LocalLive
    <2>1. \/ ~(rows[d][k[2]].exists /\ rows[d][k[2]].public)
          \/ k[1] = "edit" /\ ~(row[k[2]].exists /\ row[k[2]].edits > 0)
      BY <1>1 DEF HiddenParts, ReadsHidden
    <2>2. Resolved(k, rows[d], works[d], row).op = "none"
      BY <2>1 DEF Resolved
    <2>3. CASE HeldLive(k)
      BY <2>2, <2>3 DEF ItemFor, NoItem, Unmoved
    <2>4. CASE ~HeldLive(k)
      <3>1. sent[k].rev = comm[k].rev
        BY <1>1, <1>2 DEF HiddenParts, LedgerCaughtUp
      <3>4. ItemFor(d, k).op = "none"
        BY <2>2, <2>4 DEF ItemFor, NoItem
      <3>2. CASE sent[k].rev = 0
        BY <3>1, <3>2, <3>4 DEF LedgerInv, UnseenIsDark
      <3>3. CASE sent[k].rev # 0
        <4>1. sent[k].removed /\ sent[k].removed = ~comm[k].live
          BY <2>4, <3>1, <3>3 DEF HeldLive, LedgerInv, LedgerSound
        <4> QED
          BY <3>4, <4>1
      <3> QED
        BY <3>2, <3>3
    <2> QED
      BY <2>3, <2>4
  <1>4. RevAhead' /\ LedgerCaughtUp' /\ ClaimsQueued' /\ ReadsHidden' /\ WrittenHidden'
    BY <1>1, <1>2 DEF HiddenParts, RevAhead, LedgerCaughtUp, ClaimsQueued, ReadsHidden,
       WrittenHidden
  <1>5. SettledHidden' /\ wire' = {}
    BY <1>1 DEF HiddenParts, SettledHidden, LocalLive
  <1> QED
    BY <1>3, <1>4, <1>5 DEF HiddenParts

\* A write that nobody refuses and that is ahead stores every item of it.
LEMMA WriteHidden ==
  ASSUME TypeOK, FreshnessInv, LedgerInv, HiddenParts, OneDrainLoop,
         NEW d \in Drainers, Write(d),
         faults' = faults
  PROVE  HiddenParts'
  <1>1. /\ UNCHANGED <<row, sent, wire, queue, claim, rev>>
        /\ pc[d] = "built" /\ pc'[d] = "written" /\ rev[d] \in Nat
        /\ \A k \in Key : item[d][k].op \in {"none", "live", "tomb"}
    BY DEF Write, local, TypeOK, Item
  <1>2. \A e \in Drainers : e = d
    BY DEF OneDrainLoop
  <1>3. /\ comm' = [k \in Key |-> IF k \in Kept(d, {}) THEN Stored(item[d][k], rev[d])
                                  ELSE comm[k]]
        /\ accepted'[d] = [k \in Key |-> IF k \in Kept(d, {}) THEN item[d][k].op ELSE "none"]
    <2>1. PICK R \in SUBSET Items(d) :
            /\ comm' = [k \in Key |-> IF k \in Kept(d, R) THEN Stored(item[d][k], rev[d])
                                      ELSE comm[k]]
            /\ accepted' = [accepted EXCEPT ![d] =
                 [k \in Key |-> IF k \in AcceptedOutcome(d, R) THEN item[d][k].op ELSE "none"]]
            /\ faults' = IF R = {} THEN faults ELSE faults + 1
      BY DEF Write
    <2>2. faults + 1 # faults
      BY DEF TypeOK
    <2>3. R = {}
      BY <2>1, <2>2
    <2> QED
      BY <2>1, <2>3 DEF AcceptedOutcome, TypeOK
  <1>4. Kept(d, {}) = Items(d)
    BY <1>1, Numbers DEF Kept, Supersedes, Items, HiddenParts, RevAhead
  <1>5. ASSUME NEW k \in Key
        PROVE  /\ item[d][k].op = "none" => comm'[k] = comm[k]
               /\ item[d][k].op # "none" => /\ comm'[k].rev = rev[d]
                                            /\ comm'[k].live = (item[d][k].op = "live")
                                            /\ accepted'[d][k] # "none"
    BY <1>3, <1>4 DEF Items, Stored
  <1>6. LedgerCaughtUp'
    <2> SUFFICES ASSUME NEW k \in Key
                 PROVE  \/ sent[k].rev = comm'[k].rev
                        \/ /\ pc'[d] = "written" /\ accepted'[d][k] # "none"
                           /\ rev[d] = comm'[k].rev
      BY <1>1 DEF LedgerCaughtUp
    <2>1. CASE item[d][k].op = "none"
      <3>1. sent[k].rev = comm[k].rev
        BY <1>1, <1>2 DEF HiddenParts, LedgerCaughtUp
      <3> QED
        BY <1>5, <2>1, <3>1
    <2>2. CASE item[d][k].op # "none"
      BY <1>1, <1>5, <2>2
    <2> QED
      BY <2>1, <2>2
  <1>7. WrittenHidden'
    <2> SUFFICES ASSUME NEW k \in Key, Unmoved(d, k), ~LocalLive(k) PROVE ~comm'[k].live
      BY <1>1, <1>2 DEF WrittenHidden, Unmoved, LocalLive
    <2>1. \/ item[d][k].op = "tomb"
          \/ item[d][k].op = "none" /\ ~comm[k].live
      BY <1>1 DEF HiddenParts, ItemsHidden
    <2> QED
      BY <1>5, <2>1
  <1>8. SettledHidden'
    <2> SUFFICES ASSUME NEW k \in Key, queue[k].at = 0, ~LocalLive(k) PROVE ~comm'[k].live
      BY <1>1 DEF SettledHidden, LocalLive
    <2>1. item[d][k].op = "none"
      BY DEF FreshnessInv, ItemsClaimed, HiddenParts, ClaimsQueued
    <2> QED
      BY <1>5, <2>1 DEF HiddenParts, SettledHidden
  <1>9. RevAhead' /\ ClaimsQueued' /\ ReadsHidden' /\ ItemsHidden' /\ wire' = {}
    BY <1>1, <1>2 DEF HiddenParts, RevAhead, ClaimsQueued, ReadsHidden, ItemsHidden
  <1> QED
    BY <1>6, <1>7, <1>8, <1>9 DEF HiddenParts

LEMMA RecordHidden ==
  ASSUME TypeOK, LedgerInv, HiddenParts, OneDrainLoop, NEW d \in Drainers, Record(d)
  PROVE  HiddenParts'
  <1>1. /\ UNCHANGED <<row, comm, wire, queue, claim, rev, accepted>>
        /\ pc[d] = "written" /\ pc'[d] = "recorded"
        /\ sent' = [k \in Key |-> IF accepted[d][k] # "none"
                                  THEN Newest(sent, rev[d], accepted[d][k] = "tomb", k)
                                  ELSE sent[k]]
    BY DEF Record, local, remote, TypeOK
  <1>2. \A e \in Drainers : e = d
    BY DEF OneDrainLoop
  <1>3. LedgerCaughtUp'
    <2> SUFFICES ASSUME NEW k \in Key PROVE sent'[k].rev = comm[k].rev
      BY <1>1 DEF LedgerCaughtUp
    <2>1. /\ sent[k].rev \in Nat /\ comm[k].rev \in Nat /\ rev[d] \in Nat
          /\ sent[k].rev <= comm[k].rev
      BY DEF LedgerInv, LedgerSound, TypeOK, CommType
    <2>2. CASE sent[k].rev = comm[k].rev
      <3>1. accepted[d][k] # "none" => rev[d] <= comm[k].rev
        BY DEF LedgerInv, AcceptedThere
      <3>2. CASE accepted[d][k] = "none"
        BY <1>1, <2>2, <3>2
      <3>3. CASE accepted[d][k] # "none" /\ sent[k].rev <= rev[d]
        BY <1>1, <2>1, <2>2, <3>1, <3>3 DEF Newest
      <3>4. CASE accepted[d][k] # "none" /\ ~(sent[k].rev <= rev[d])
        BY <1>1, <2>2, <3>4 DEF Newest
      <3> QED
        BY <3>2, <3>3, <3>4
    <2>3. CASE sent[k].rev # comm[k].rev
      <3>1. accepted[d][k] # "none" /\ rev[d] = comm[k].rev
        BY <1>2, <2>3 DEF HiddenParts, LedgerCaughtUp
      <3> QED
        BY <1>1, <2>1, <3>1 DEF Newest
    <2> QED
      BY <2>2, <2>3
  <1>4. WrittenHidden' /\ ClaimsQueued' /\ RevAhead' /\ ReadsHidden' /\ ItemsHidden'
    BY <1>1, <1>2 DEF HiddenParts, WrittenHidden, ClaimsQueued, RevAhead, ReadsHidden,
       ItemsHidden, Unmoved, LocalLive
  <1>5. SettledHidden' /\ wire' = {}
    BY <1>1 DEF HiddenParts, SettledHidden, LocalLive
  <1> QED
    BY <1>3, <1>4, <1>5 DEF HiddenParts

\* The acknowledged rows are those whose keys are down.
LEMMA AckHidden ==
  ASSUME TypeOK, HiddenParts, OneDrainLoop, NEW d \in Drainers, Ack(d)
  PROVE  HiddenParts'
  <1>1. /\ UNCHANGED <<row, comm, sent, wire>>
        /\ pc[d] = "recorded" /\ pc'[d] = "idle"
        /\ claim'[d] = [k \in Key |-> 0]
        /\ queue' = [k \in Key |-> IF Unmoved(d, k) THEN NoQueueRow ELSE queue[k]]
    BY DEF Ack, EndTick, local, remote, TypeOK
  <1>2. \A e \in Drainers : e = d
    BY DEF OneDrainLoop
  <1>3. SettledHidden'
    <2> SUFFICES ASSUME NEW k \in Key, queue'[k].at = 0, ~LocalLive(k) PROVE ~comm[k].live
      BY <1>1 DEF SettledHidden, LocalLive
    <2>1. CASE Unmoved(d, k)
      BY <1>1, <2>1 DEF HiddenParts, WrittenHidden
    <2>2. CASE ~Unmoved(d, k)
      BY <1>1, <2>2 DEF HiddenParts, SettledHidden
    <2> QED
      BY <2>1, <2>2
  <1>4. LedgerCaughtUp' /\ wire' = {}
    BY <1>1, <1>2 DEF HiddenParts, LedgerCaughtUp
  <1>5. ClaimsQueued' /\ RevAhead' /\ ReadsHidden' /\ ItemsHidden' /\ WrittenHidden'
    BY <1>1, <1>2 DEF ClaimsQueued, RevAhead, ReadsHidden, ItemsHidden, WrittenHidden
  <1> QED
    BY <1>3, <1>4, <1>5 DEF HiddenParts

\* No step takes a fault back.
LEMMA FaultsStay ==
  ASSUME TypeOK, [Next]_vars, faults' = 0
  PROVE  faults = 0 /\ UNCHANGED faults
  <1>1. faults' = faults \/ faults' = faults + 1
    BY DEF Next, Writer, CreateResource, UpdateResource, ToggleResource,
       DeleteResource, WriteRow, CatalogRename, CatalogFlip, SyncClaim, MarkIndexed,
       TickStep, Claim, ReadRows, ReadWorks, BuildItems, Write, Record, Ack, Fail,
       WriteLost, Land, RecStep, RecList, RecRecord, RecCompare, RecEnqueue, RecFail, vars
  <1> QED
    BY <1>1 DEF TypeOK

LEMMA NextHidden ==
  ASSUME TypeOK, FreshnessInv, LedgerInv, HiddenInv, OneDrainLoop, [Next]_vars
  PROVE  HiddenInv'
  <1> SUFFICES ASSUME faults' = 0 PROVE HiddenParts'
    BY DEF HiddenInv
  <1>1. faults = 0 /\ UNCHANGED faults /\ HiddenParts /\ wire = {}
    BY FaultsStay DEF HiddenInv, HiddenParts
  <1>2. ASSUME NEW r \in Resources, Writer(r) \/ SyncClaim(r) \/ MarkIndexed(r)
        PROVE  HiddenParts'
    BY <1>1, <1>2, WritersHidden
  <1>3. ASSUME NEW d \in Drainers, TickStep(d) \/ Fail(d) \/ WriteLost(d)
        PROVE  HiddenParts'
    <2>1. ~Fail(d) /\ ~WriteLost(d)
      BY <1>1 DEF Fail, WriteLost
    <2> QED
      BY <1>1, <1>3, <2>1, ClaimHidden, ReadsKeepHidden, BuildHidden, WriteHidden,
         RecordHidden, AckHidden DEF TickStep
  <1>4. CASE RecStep \/ RecFail
    BY <1>1, <1>4, ReconcileHidden
  <1>5. CASE UNCHANGED vars
    BY <1>1, <1>5, OvertakingKeepsHidden DEF vars, local, remote, tick, Unmoved
  <1> QED
    BY <1>1, <1>2, <1>3, <1>4, <1>5 DEF Next

\* With one drainer, and as long as no call failed, what is hidden here is
\* withdrawn there by the time its row is acknowledged, the reconcile and its
\* stale listing rewriting the ledger meanwhile.
THEOREM HiddenLeavesTheFeed ==
  ASSUME OneDrainLoop
  PROVE  Spec => []HiddenIsWithdrawn
  <1>1. Init => HiddenInv
    <2> SUFFICES ASSUME Init PROVE HiddenParts
      BY DEF HiddenInv
    <2>1. /\ wire = {}
          /\ \A k \in Key : sent[k].rev = 0 /\ comm[k].rev = 0 /\ ~comm[k].live
          /\ \A d \in Drainers : pc[d] = "idle" /\ \A k \in Key : claim[d][k] = 0
      BY DEF Init, Unseen
    <2> QED
      BY <2>1 DEF HiddenParts, LedgerCaughtUp, RevAhead, ClaimsQueued, ReadsHidden,
         ItemsHidden, WrittenHidden, SettledHidden
  <1>2. Init => TypeOK /\ FreshnessInv /\ LedgerInv
    BY InitType, InitFresh, InitLedger
  <1>3. TypeOK /\ FreshnessInv /\ LedgerInv /\ HiddenInv /\ [Next]_vars
        => (TypeOK /\ FreshnessInv /\ LedgerInv /\ HiddenInv)'
    BY NextType, NextFresh, NextLedger, NextHidden
  <1>4. HiddenInv => HiddenIsWithdrawn
    BY DEF HiddenInv, HiddenParts, SettledHidden, HiddenIsWithdrawn
  <1> QED
    BY <1>1, <1>2, <1>3, <1>4, PTL DEF Spec
-----------------------------------------------------------------------------
(***************************************************************************)
(* With one drainer ActivityPush implements FeedMirror: whatever a tick    *)
(* reads at different times and whatever arrives late, the feed shows only *)
(* fields this site had, never older ones than before, and withdraws only  *)
(* what lapsed.                                                            *)
(***************************************************************************)
\* The fields of a key as they are here now: the source's content.
SourceOf(k) == [ver   |-> LocalPart(k, row).ver,
                edits |-> LocalPart(k, row).edits,
                title |-> catalog[k[2]].title]

Lapsed(k) == row[k[2]].dipped \/ catalog[k[2]].dipped

\* The live contents that finished ticks left for a key, in community and on
\* the wire, with the revision each was built under.
Past(k) ==
  (IF comm[k].live THEN {[rev |-> comm[k].rev, content |-> comm[k].content]} ELSE {})
  \cup {[rev |-> m.rev, content |-> m.item.content] :
          m \in {n \in wire : n.key = k /\ n.item.op = "live"}}

-----------------------------------------------------------------------------
(* Fields only move on *)

\* A row that was never there has no revisions and never lapsed.
Born == \A r \in Resources :
  row[r].ver = 0 => row[r].edits = 0 /\ ~row[r].exists /\ ~row[r].dipped

\* What was read is not newer than what is there.
ReadsBehind == \A d \in Drainers, r \in Resources :
  /\ pc[d] \in {"rows", "works"} => rows[d][r].ver <= row[r].ver
  /\ pc[d] = "works" => works[d][r].title <= catalog[r].title

ItemsBehind == \A d \in Drainers, k \in Key :
  item[d][k].op = "live" => Mirror!Leq(item[d][k].content, SourceOf(k))

\* Nor is what was pushed; and what was pushed later is not older.
PastBehind == \A k \in Key : \A p \in Past(k) :
  /\ Mirror!Leq(p.content, SourceOf(k))
  /\ \A m \in wire : m.key = k /\ m.item.op = "live" /\ p.rev < m.rev
                     => Mirror!Leq(p.content, m.item.content)

\* The tick under way reads, and builds, on top of all that.
TickAhead == \A d \in Drainers, k \in Key : \A p \in Past(k) :
  /\ pc[d] \in {"claimed", "rows", "works", "built"} => p.rev < rev[d]
  /\ pc[d] \in {"rows", "works"} => p.content.ver <= rows[d][k[2]].ver
  /\ pc[d] = "works" => p.content.title <= works[d][k[2]].title
  /\ item[d][k].op = "live" => Mirror!Leq(p.content, item[d][k].content)

-----------------------------------------------------------------------------
(* Nothing is withdrawn that did not lapse *)

\* The key is live here but for catalog, or was and lapsed.
WasLive(k) == /\ (row[k[2]].exists /\ row[k[2]].public) \/ row[k[2]].dipped
              /\ k[1] = "edit" => row[k[2]].edits > 0

\* Somewhere the key is taken to be live.
HeldSomewhere(k) ==
  \/ Past(k) # {}
  \/ HeldLive(k)
  \/ listing[k].live
  \/ \E d \in Drainers : accepted[d][k] = "live" \/ item[d][k].op = "live"

HeldWasLive == \A k \in Key : HeldSomewhere(k) => WasLive(k)

RowsRead(d, k) == rows[d][k[2]].exists /\ rows[d][k[2]].public

\* What is read as public was; what is held and read as hidden has lapsed.
ReadsLapse == \A d \in Drainers, k \in Key :
  /\ pc[d] \in {"rows", "works"} =>
       /\ RowsRead(d, k) => (row[k[2]].exists /\ row[k[2]].public) \/ row[k[2]].dipped
       /\ ~RowsRead(d, k) /\ HeldSomewhere(k) => row[k[2]].dipped
  /\ pc[d] = "works" /\ ~works[d][k[2]].shown => catalog[k[2]].dipped

TombsLapse ==
  /\ \A d \in Drainers, k \in Key :
       item[d][k].op = "tomb" => Lapsed(k) /\ item[d][k].content = Blank
  /\ \A m \in wire : m.item.op = "tomb" => Lapsed(m.key) /\ m.item.content = Blank

\* What is dark shows nothing.
DarkIsBlank == \A k \in Key : ~comm[k].live => comm[k].content = Blank

MirrorInv ==
  /\ Born /\ ReadsBehind /\ ItemsBehind /\ PastBehind /\ TickAhead
  /\ HeldWasLive /\ ReadsLapse /\ TombsLapse /\ DarkIsBlank

-----------------------------------------------------------------------------
(* What a step moves *)

LEMMA LeqOrder ==
  ASSUME NEW a \in Content, NEW b \in Content, NEW c \in Content
  PROVE  /\ Mirror!Leq(a, a)
         /\ Mirror!Leq(a, b) /\ Mirror!Leq(b, c) => Mirror!Leq(a, c)
  BY DEF Mirror!Leq, Content

LEMMA SourceType ==
  ASSUME TypeOK, NEW k \in Key
  PROVE  SourceOf(k) \in Content
  BY KeyIsPair DEF SourceOf, LocalPart, TypeOK, RowType, WorkType, Content

LEMMA PastType ==
  ASSUME TypeOK, NEW k \in Key, NEW p \in Past(k)
  PROVE  p.rev \in Nat /\ p.content \in Content
  BY DEF Past, TypeOK, CommType, Item

\* A writer of the row of r leaves its columns no older and forgets no lapse.
LEMMA RowGrows ==
  ASSUME TypeOK, Born, NEW r \in Resources,
         CreateResource(r) \/ UpdateResource(r) \/ ToggleResource(r) \/ DeleteResource(r)
  PROVE  /\ catalog' = catalog
         /\ \A q \in Resources :
              /\ row[q].ver <= row'[q].ver /\ row[q].edits <= row'[q].edits
              /\ row[q].dipped => row'[q].dipped
              /\ row[q].exists /\ row[q].public =>
                   (row'[q].exists /\ row'[q].public) \/ row'[q].dipped
         /\ Born'
  <1>1. row[r] \in RowType /\ catalog' = catalog
    BY DEF TypeOK, CreateResource, UpdateResource, ToggleResource, DeleteResource, WriteRow
  <1>2. row' = [row EXCEPT ![r] = row'[r]]
    BY DEF TypeOK, CreateResource, UpdateResource, ToggleResource, DeleteResource, WriteRow
  <1>3. \A q \in Resources : q # r => row'[q] = row[q]
    BY <1>2 DEF TypeOK
  <1>6. row[r].ver \in Nat /\ row[r].edits \in Nat /\ (row[r].exists => row[r].ver # 0)
    BY <1>1 DEF RowType, Born
  <1>4. /\ row[r].ver <= row'[r].ver /\ row[r].edits <= row'[r].edits
        /\ row[r].dipped => row'[r].dipped
        /\ row[r].exists /\ row[r].public =>
             (row'[r].exists /\ row'[r].public) \/ row'[r].dipped
        /\ row'[r].ver # 0
    <2>1. CASE CreateResource(r)
      <3>1. /\ row'[r] = [row[r] EXCEPT !.exists = TRUE, !.public = TRUE, !.ver = 1, !.edits = 0]
            /\ ~row[r].exists /\ row[r].ver = 0
        BY <2>1 DEF CreateResource, WriteRow, TypeOK
      <3>2. row[r].edits = 0
        BY <3>1 DEF Born
      <3> QED
        BY <1>1, <3>1, <3>2 DEF RowType
    <2>2. CASE UpdateResource(r)
      <3>1. /\ row'[r] = [row[r] EXCEPT !.ver = @ + 1, !.edits = @ + 1]
            /\ row[r].exists
        BY <2>2 DEF UpdateResource, WriteRow, TypeOK
      <3> QED
        BY <1>1, <1>6, <3>1 DEF RowType
    <2>3. CASE ToggleResource(r)
      <3>1. /\ row'[r] = [row[r] EXCEPT !.public = ~@, !.dipped = @ \/ row[r].public]
            /\ row[r].exists
        BY <2>3 DEF ToggleResource, WriteRow, TypeOK
      <3> QED
        BY <1>1, <1>6, <3>1 DEF RowType
    <2>4. CASE DeleteResource(r)
      <3>1. /\ row'[r] = [row[r] EXCEPT !.exists = FALSE, !.public = FALSE, !.dipped = TRUE]
            /\ row[r].exists
        BY <2>4 DEF DeleteResource, WriteRow, TypeOK
      <3> QED
        BY <1>1, <1>6, <3>1 DEF RowType
    <2> QED
      BY <2>1, <2>2, <2>3, <2>4
  <1>5. \A q \in Resources : row[q].ver \in Nat /\ row[q].edits \in Nat
    BY DEF TypeOK, RowType
  <1> QED
    BY <1>1, <1>2, <1>3, <1>4, <1>5 DEF Born

\* Catalog's title moves on and a hide is remembered.
LEMMA CatalogGrows ==
  ASSUME TypeOK, NEW r \in Resources, CatalogRename(r) \/ CatalogFlip(r)
  PROVE  /\ row' = row
         /\ \A q \in Resources :
              /\ catalog[q].title <= catalog'[q].title
              /\ catalog[q].dipped => catalog'[q].dipped
              /\ catalog[q].shown => catalog'[q].shown \/ catalog'[q].dipped
  <1>1. row' = row /\ \A q \in Resources : catalog[q] \in WorkType
    BY DEF CatalogRename, CatalogFlip, TypeOK
  <1>2. CASE CatalogRename(r)
    BY <1>1, <1>2 DEF CatalogRename, WorkType, TypeOK
  <1>3. CASE CatalogFlip(r)
    <2>1. catalog' = [catalog EXCEPT ![r] = [catalog[r] EXCEPT !.shown = ~@,
                                             !.dipped = @ \/ catalog[r].shown]]
      BY <1>3 DEF CatalogFlip
    <2>2. \A q \in Resources : q # r => catalog'[q] = catalog[q]
      BY <2>1 DEF TypeOK
    <2>5. catalog'[r] = [catalog[r] EXCEPT !.shown = ~@, !.dipped = @ \/ catalog[r].shown]
      BY <2>1 DEF TypeOK
    <2>3. /\ catalog'[r].title = catalog[r].title
          /\ catalog[r].dipped \/ catalog[r].shown => catalog'[r].dipped
      BY <1>1, <2>5 DEF WorkType
    <2>4. \A q \in Resources : catalog[q].title \in Nat
      BY <1>1 DEF WorkType
    <2> QED
      <3> SUFFICES ASSUME NEW q \in Resources
                   PROVE  /\ catalog[q].title <= catalog'[q].title
                          /\ catalog[q].dipped => catalog'[q].dipped
                          /\ catalog[q].shown => catalog'[q].shown \/ catalog'[q].dipped
        BY <1>1
      <3>1. CASE q = r
        BY <2>3, <2>4, <3>1
      <3>2. CASE q # r
        BY <2>2, <2>4, <3>2
      <3> QED
        BY <3>1, <3>2
  <1> QED
    BY <1>2, <1>3

\* Only writers move the row and the work.
LEMMA OnlyWritersMove ==
  ASSUME [Next]_vars, ~UNCHANGED <<row, catalog>>
  PROVE  \E r \in Resources : Writer(r)
  BY DEF Next, SyncClaim, MarkIndexed, TickStep, Claim, ReadRows, ReadWorks, BuildItems,
     Write, Record, Ack, Fail, WriteLost, Land, RecStep, RecList, RecRecord, RecCompare,
     RecEnqueue, RecFail, vars, local

\* Together: the source's fields, and what is remembered of its lapses.
LEMMA SourceGrows ==
  ASSUME TypeOK, Born, [Next]_vars
  PROVE  /\ Born'
         /\ \A r \in Resources :
              /\ row[r].ver <= row'[r].ver /\ row[r].edits <= row'[r].edits
              /\ row[r].dipped => row'[r].dipped
              /\ row[r].exists /\ row[r].public =>
                   (row'[r].exists /\ row'[r].public) \/ row'[r].dipped
              /\ catalog[r].title <= catalog'[r].title
              /\ catalog[r].dipped => catalog'[r].dipped
              /\ catalog[r].shown => catalog'[r].shown \/ catalog'[r].dipped
  <1>1. \A r \in Resources : /\ row[r].ver \in Nat /\ row[r].edits \in Nat
                             /\ catalog[r].title \in Nat
    BY DEF TypeOK, RowType, WorkType
  <1>2. CASE UNCHANGED <<row, catalog>>
    BY <1>1, <1>2 DEF Born
  <1>3. CASE ~UNCHANGED <<row, catalog>>
    <2>1. PICK r \in Resources : Writer(r)
      BY <1>3, OnlyWritersMove
    <2>2. CASE CatalogRename(r) \/ CatalogFlip(r)
      BY <1>1, <2>2, CatalogGrows DEF Born
    <2>3. CASE ~(CatalogRename(r) \/ CatalogFlip(r))
      BY <1>1, <2>1, <2>3, RowGrows DEF Writer
    <2> QED
      BY <2>2, <2>3
  <1> QED
    BY <1>2, <1>3

LEMMA KeyGrows ==
  ASSUME TypeOK, Born, [Next]_vars, NEW k \in Key
  PROVE  /\ Mirror!Leq(SourceOf(k), SourceOf(k)')
         /\ WasLive(k) => WasLive(k)'
         /\ Lapsed(k) => Lapsed(k)'
  <1>1. k[2] \in Resources
    BY KeyIsPair
  <1>2. row'[k[2]].edits \in Nat /\ row[k[2]].edits \in Nat
    BY <1>1, NextType DEF TypeOK, RowType
  <1>3. Mirror!Leq(SourceOf(k), SourceOf(k)')
    BY <1>1, <1>2, SourceGrows DEF Mirror!Leq, SourceOf, LocalPart
  <1>4. WasLive(k) => WasLive(k)'
    BY <1>1, <1>2, SourceGrows DEF WasLive
  <1>5. Lapsed(k) => Lapsed(k)'
    BY <1>1, SourceGrows DEF Lapsed
  <1> QED
    BY <1>3, <1>4, <1>5

\* A live content is left by the write, kept or lost, of an item.
LEMMA PastMoves ==
  ASSUME TypeOK, [Next]_vars, NEW k \in Key, NEW p \in Past(k)', p \notin Past(k)
  PROVE  \E d \in Drainers :
           /\ Write(d) \/ WriteLost(d)
           /\ item[d][k].op = "live"
           /\ p = [rev |-> rev[d], content |-> item[d][k].content]
  <1>1. CASE \E m \in wire' : /\ m.key = k /\ m.item.op = "live"
                               /\ p = [rev |-> m.rev, content |-> m.item.content]
    <2>1. PICK m \in wire' : /\ m.key = k /\ m.item.op = "live"
                             /\ p = [rev |-> m.rev, content |-> m.item.content]
      BY <1>1
    <2>2. m \notin wire
      BY <2>1 DEF Past
    <2> QED
      BY <2>1, <2>2, WireGrows
  <1>2. CASE comm'[k].live /\ p = [rev |-> comm'[k].rev, content |-> comm'[k].content]
    <2>1. comm'[k] # comm[k]
      BY <1>2 DEF Past
    <2>2. \/ \E d \in Drainers : Write(d)
          \/ \E m \in wire : Land(m)
      BY <2>1, OnlyWritesStore
    <2>3. ASSUME NEW m \in wire, Land(m) PROVE FALSE
      <3>1. /\ k = m.key /\ comm'[k].rev = m.rev /\ comm'[k].content = m.item.content
            /\ m.item.op = "live"
        BY <1>2, <2>1, <2>3, LandStores
      <3> QED
        BY <1>2, <3>1 DEF Past
    <2>4. ASSUME NEW d \in Drainers, Write(d)
          PROVE  /\ item[d][k].op = "live"
                 /\ p = [rev |-> rev[d], content |-> item[d][k].content]
      BY <1>2, <2>1, <2>4, WriteStores
    <2> QED
      BY <2>2, <2>3, <2>4
  <1> QED
    BY <1>1, <1>2 DEF Past

\* A key comes to be held live by the item built of a live state.
LEMMA HeldMoves ==
  ASSUME TypeOK, [Next]_vars, NEW k \in Key, HeldSomewhere(k)', ~HeldSomewhere(k)
  PROVE  \E d \in Drainers : BuildItems(d) /\ ItemFor(d, k).op = "live"
  <1>0. ~comm[k].live
    BY DEF HeldSomewhere, Past
  <1>1. Past(k)' = {}
    BY PastMoves DEF HeldSomewhere
  <1>2. ~HeldLive(k)'
    <2> SUFFICES ASSUME sent'[k].rev # 0, ~sent'[k].removed PROVE FALSE
      BY DEF HeldLive
    <2>1. sent'[k] # sent[k]
      BY DEF HeldSomewhere, HeldLive
    <2>2. (\E d \in Drainers : Record(d)) \/ RecRecord
      BY <2>1 DEF Next, Writer, CreateResource, UpdateResource, ToggleResource,
         DeleteResource, WriteRow, CatalogRename, CatalogFlip, SyncClaim, MarkIndexed,
         TickStep, Claim, ReadRows, ReadWorks, BuildItems, Write, Ack, Fail, WriteLost,
         Land, RecStep, RecList, RecCompare, RecEnqueue, RecFail, vars
    <2>3. ASSUME NEW d \in Drainers, Record(d) PROVE FALSE
      <3>1. /\ accepted[d][k] # "none"
            /\ sent'[k] = Newest(sent, rev[d], accepted[d][k] = "tomb", k)
        BY <2>1, <2>3 DEF Record, TypeOK
      <3>3. sent'[k] = [rev |-> rev[d], removed |-> accepted[d][k] = "tomb"]
        BY <2>1, <3>1 DEF Newest
      <3>4. sent'[k].removed = (accepted[d][k] = "tomb")
        BY <3>3
      <3>2. accepted[d][k] # "tomb"
        BY <3>4
      <3> QED
        BY <3>1, <3>2 DEF HeldSomewhere, TypeOK
    <2>4. CASE RecRecord
      <3>1. sent'[k] = Newest(sent, listing[k].rev, ~listing[k].live, k)
        BY <2>1, <2>4 DEF RecRecord, TypeOK
      <3>2. sent'[k] = [rev |-> listing[k].rev, removed |-> ~listing[k].live]
        BY <2>1, <3>1 DEF Newest
      <3>3. sent'[k].removed = ~listing[k].live
        BY <3>2
      <3> QED
        BY <3>3 DEF HeldSomewhere
    <2> QED
      BY <2>2, <2>3, <2>4
  <1>3. ~listing'[k].live
    <2>1. \/ listing' = comm \/ listing' = listing
          \/ listing' = [j \in Key |-> Unseen]
      BY DEF Next, Writer, CreateResource, UpdateResource, ToggleResource,
         DeleteResource, WriteRow, CatalogRename, CatalogFlip, SyncClaim, MarkIndexed,
         TickStep, Claim, ReadRows, ReadWorks, BuildItems, Write, Record, Ack, Fail,
         WriteLost, Land, RecStep, RecList, RecRecord, RecCompare, RecEnqueue, RecFail,
         EndReconcile, recon, vars
    <2> QED
      BY <1>0, <2>1 DEF HeldSomewhere, Unseen
  <1>4. ASSUME NEW d \in Drainers PROVE accepted'[d][k] # "live"
    <2>1. CASE accepted' = accepted
      BY <2>1 DEF HeldSomewhere
    <2>2. CASE accepted' # accepted
      <3>1. PICK e \in Drainers : TickStep(e) \/ Fail(e) \/ WriteLost(e)
        BY <2>2, WritersFrame, ReconcileFrame DEF Next, Land, vars, tick
      <3>2. CASE e # d
        BY <3>1, <3>2, TickMoves DEF HeldSomewhere
      <3>3. CASE e = d /\ Write(d)
        BY <3>3, WriteStores DEF HeldSomewhere
      <3>4. CASE e = d /\ ~Write(d)
        BY <2>2, <3>1, <3>4 DEF TickStep, Claim, ReadRows, ReadWorks, BuildItems, Record,
           Ack, Fail, WriteLost, EndTick, TypeOK
      <3> QED
        BY <3>2, <3>3, <3>4
    <2> QED
      BY <2>1, <2>2
  <1>5. PICK d \in Drainers : item'[d][k].op = "live"
    BY <1>1, <1>2, <1>3, <1>4 DEF HeldSomewhere
  <1>6. BuildItems(d) /\ item'[d][k] = ItemFor(d, k)
    BY <1>5, ItemMoves DEF HeldSomewhere, NoItem
  <1> QED
    BY <1>5, <1>6

\* What a tick holds read, it read just now or held already.
LEMMA ReadsMove ==
  ASSUME TypeOK, [Next]_vars, NEW d \in Drainers
  PROVE  /\ pc'[d] \in {"rows", "works"} =>
              \/ ReadRows(d) /\ rows'[d] = row /\ row' = row
              \/ pc[d] \in {"rows", "works"} /\ rows'[d] = rows[d]
         /\ pc'[d] = "works" =>
              \/ ReadWorks(d) /\ works'[d] = catalog /\ catalog' = catalog
              \/ pc[d] = "works" /\ works'[d] = works[d]
         /\ pc'[d] \in {"claimed", "rows", "works", "built"} =>
              \/ Claim(d) /\ rev'[d] = clock + 1
              \/ pc[d] \in {"claimed", "rows", "works", "built"} /\ rev'[d] = rev[d]
  <1>1. CASE \E e \in Drainers : TickStep(e) \/ Fail(e) \/ WriteLost(e)
    <2>1. PICK e \in Drainers : TickStep(e) \/ Fail(e) \/ WriteLost(e)
      BY <1>1
    <2>2. CASE e # d
      BY <2>1, <2>2, TickMoves
    <2>3. CASE e = d /\ Claim(d)
      BY <2>3 DEF Claim, TypeOK
    <2>4. CASE e = d /\ ReadRows(d)
      BY <2>4 DEF ReadRows, TypeOK, local
    <2>5. CASE e = d /\ ReadWorks(d)
      BY <2>5 DEF ReadWorks, TypeOK, local
    <2>6. CASE e = d /\ BuildItems(d)
      BY <2>6 DEF BuildItems, TypeOK
    <2>7. CASE e = d /\ (Write(d) \/ Record(d))
      BY <2>7 DEF Write, Record, TypeOK
    <2>8. CASE e = d /\ (Ack(d) \/ Fail(d) \/ WriteLost(d))
      BY <2>8 DEF Ack, Fail, WriteLost, EndTick, TypeOK
    <2> QED
      BY <2>1, <2>2, <2>3, <2>4, <2>5, <2>6, <2>7, <2>8 DEF TickStep
  <1>2. CASE ~\E e \in Drainers : TickStep(e) \/ Fail(e) \/ WriteLost(e)
    <2>1. UNCHANGED tick
      BY <1>2, WritersFrame, ReconcileFrame DEF Next, Land, vars
    <2> QED
      BY <2>1 DEF tick
  <1> QED
    BY <1>1, <1>2

\* The content of a built item, field by field.
LEMMA ItemForContent ==
  ASSUME NEW d \in Drainers, NEW k \in Key
  PROVE  /\ ItemFor(d, k).op = "live" =>
              /\ ItemFor(d, k).content =
                   [ver   |-> rows[d][k[2]].ver,
                    edits |-> LocalPart(k, row).edits,
                    title |-> works[d][k[2]].title]
              /\ RowsRead(d, k)
              /\ k[1] = "edit" => row[k[2]].edits > 0
         /\ ItemFor(d, k).op = "tomb" =>
              /\ ItemFor(d, k).content = Blank /\ HeldLive(k)
              /\ \/ ~RowsRead(d, k)
                 \/ ~works[d][k[2]].shown
                 \/ k[1] = "edit" /\ ~(row[k[2]].exists /\ row[k[2]].edits > 0)
  BY DEF ItemFor, NoItem, Resolved, LocalPart, RowsRead

-----------------------------------------------------------------------------
(* MirrorInv, part by part *)

LEMMA NextReadsBehind ==
  TypeOK /\ MirrorInv /\ [Next]_vars => ReadsBehind'
  <1> SUFFICES ASSUME TypeOK, MirrorInv, [Next]_vars, NEW d \in Drainers, NEW r \in Resources
               PROVE  /\ pc'[d] \in {"rows", "works"} => rows'[d][r].ver <= row'[r].ver
                      /\ pc'[d] = "works" => works'[d][r].title <= catalog'[r].title
    BY DEF ReadsBehind
  <1>1. /\ row[r].ver <= row'[r].ver /\ catalog[r].title <= catalog'[r].title
        /\ row[r].ver \in Nat /\ row'[r].ver \in Nat
        /\ catalog[r].title \in Nat /\ catalog'[r].title \in Nat
        /\ rows[d][r].ver \in Nat /\ works[d][r].title \in Nat
    BY SourceGrows, NextType DEF MirrorInv, TypeOK, RowType, WorkType
  <1>2. /\ pc[d] \in {"rows", "works"} => rows[d][r].ver <= row[r].ver
        /\ pc[d] = "works" => works[d][r].title <= catalog[r].title
    BY DEF MirrorInv, ReadsBehind
  <1> QED
    BY <1>1, <1>2, ReadsMove

LEMMA NextItemsBehind ==
  TypeOK /\ MirrorInv /\ [Next]_vars => ItemsBehind'
  <1> SUFFICES ASSUME TypeOK, MirrorInv, [Next]_vars, NEW d \in Drainers, NEW k \in Key,
                      item'[d][k].op = "live"
               PROVE  Mirror!Leq(item'[d][k].content, SourceOf(k)')
    BY DEF ItemsBehind
  <1>1. Mirror!Leq(SourceOf(k), SourceOf(k)') /\ SourceOf(k) \in Content
    BY KeyGrows, SourceType DEF MirrorInv
  <1>2. SourceOf(k)' \in Content
    BY NextType, KeyIsPair DEF SourceOf, LocalPart, TypeOK, RowType, WorkType, Content
  <1>3. CASE item'[d][k] = item[d][k]
    BY <1>1, <1>2, <1>3, LeqOrder DEF MirrorInv, ItemsBehind, TypeOK, Item
  <1>4. CASE item'[d][k] = NoItem
    BY <1>4 DEF NoItem
  <1>5. CASE BuildItems(d) /\ item'[d][k] = ItemFor(d, k)
    <2>1. /\ pc[d] = "works" /\ k[2] \in Resources /\ SourceOf(k)' = SourceOf(k)
      BY <1>5, KeyIsPair DEF BuildItems, local, SourceOf, LocalPart
    <2>2. /\ rows[d][k[2]].ver <= row[k[2]].ver
          /\ works[d][k[2]].title <= catalog[k[2]].title
      BY <2>1 DEF MirrorInv, ReadsBehind
    <2>3. LocalPart(k, row).edits <= LocalPart(k, row).edits
      BY <1>1 DEF SourceOf, Content
    <2>4. item'[d][k].content = [ver   |-> rows[d][k[2]].ver,
                                 edits |-> LocalPart(k, row).edits,
                                 title |-> works[d][k[2]].title]
      BY <1>5, ItemForContent
    <2>5. SourceOf(k).ver = row[k[2]].ver
      BY DEF SourceOf, LocalPart
    <2> QED
      BY <2>1, <2>2, <2>3, <2>4, <2>5 DEF SourceOf, Mirror!Leq
  <1> QED
    BY <1>3, <1>4, <1>5, ItemMoves

LEMMA NextPastBehind ==
  ASSUME TypeOK, MirrorInv, OneDrainLoop, ItemsClaimed, [Next]_vars
  PROVE  PastBehind'
  <1> SUFFICES ASSUME NEW k \in Key, NEW p \in Past(k)'
               PROVE  /\ Mirror!Leq(p.content, SourceOf(k)')
                      /\ \A m \in wire' : m.key = k /\ m.item.op = "live" /\ p.rev < m.rev
                                          => Mirror!Leq(p.content, m.item.content)
    BY DEF PastBehind
  <1>1. Mirror!Leq(SourceOf(k), SourceOf(k)') /\ SourceOf(k) \in Content
    BY KeyGrows, SourceType DEF MirrorInv
  <1>2. SourceOf(k)' \in Content
    BY NextType, KeyIsPair DEF SourceOf, LocalPart, TypeOK, RowType, WorkType, Content
  <1>3. CASE p \in Past(k)
    <2>1. Mirror!Leq(p.content, SourceOf(k)')
      BY <1>1, <1>2, <1>3, LeqOrder, PastType DEF MirrorInv, PastBehind
    <2>2. ASSUME NEW m \in wire', m.key = k, m.item.op = "live", p.rev < m.rev
          PROVE  Mirror!Leq(p.content, m.item.content)
      <3>1. CASE m \in wire
        BY <1>3, <2>2, <3>1 DEF MirrorInv, PastBehind
      <3>2. CASE m \notin wire
        <4>1. PICK d \in Drainers : WriteLost(d) /\ m.item = item[d][k]
          BY <2>2, <3>2, WireGrows
        <4> QED
          BY <1>3, <2>2, <4>1 DEF MirrorInv, TickAhead
      <3> QED
        BY <3>1, <3>2
    <2> QED
      BY <2>1, <2>2
  <1>4. CASE p \notin Past(k)
    <2>1. PICK d \in Drainers : /\ Write(d) \/ WriteLost(d)
                               /\ item[d][k].op = "live"
                               /\ p = [rev |-> rev[d], content |-> item[d][k].content]
      BY <1>4, PastMoves
    <2>2. Mirror!Leq(p.content, SourceOf(k)')
      <3>1. Mirror!Leq(p.content, SourceOf(k)) /\ p.content \in Content
        BY <2>1 DEF MirrorInv, ItemsBehind, TypeOK, Item
      <3> QED
        BY <1>1, <1>2, <3>1, LeqOrder
    <2>3. ASSUME NEW m \in wire', m.key = k, m.item.op = "live", p.rev < m.rev
          PROVE  FALSE
      <3>1. CASE m \in wire
        <4>1. [rev |-> m.rev, content |-> m.item.content] \in Past(k)
          BY <2>3, <3>1 DEF Past
        <4>2. pc[d] = "built"
          BY <2>1 DEF Write, WriteLost
        <4>3. m.rev < rev[d]
          BY <4>1, <4>2 DEF MirrorInv, TickAhead
        <4> QED
          BY <2>1, <2>3, <3>1, <4>3 DEF TypeOK
      <3>2. CASE m \notin wire
        <4>1. m.rev = rev[d]
          BY <3>2, WireGrows DEF OneDrainLoop
        <4> QED
          BY <2>1, <2>3, <4>1 DEF TypeOK
      <3> QED
        BY <3>1, <3>2
    <2> QED
      BY <2>2, <2>3
  <1> QED
    BY <1>3, <1>4

LEMMA NextTickAhead ==
  ASSUME TypeOK, MirrorInv, OneDrainLoop, RevBound, [Next]_vars
  PROVE  TickAhead'
  <1> SUFFICES ASSUME NEW d \in Drainers, NEW k \in Key, NEW p \in Past(k)'
               PROVE
    /\ pc'[d] \in {"claimed", "rows", "works", "built"} => p.rev < rev'[d]
    /\ pc'[d] \in {"rows", "works"} => p.content.ver <= rows'[d][k[2]].ver
    /\ pc'[d] = "works" => p.content.title <= works'[d][k[2]].title
    /\ item'[d][k].op = "live" => Mirror!Leq(p.content, item'[d][k].content)
    BY DEF TickAhead
  <1>1. CASE p \notin Past(k)
    <2>1. Write(d) \/ WriteLost(d)
      BY <1>1, PastMoves DEF OneDrainLoop
    <2>2. pc'[d] \in {"written", "idle"} /\ item'[d][k] = NoItem
      BY <2>1 DEF Write, WriteLost, EndTick, TypeOK
    <2> QED
      BY <2>2 DEF NoItem
  <1>2. CASE p \in Past(k)
    <2>1. /\ p.rev \in Nat /\ p.content \in Content /\ k[2] \in Resources
          /\ Mirror!Leq(p.content, SourceOf(k))
      BY <1>2, PastType, KeyIsPair DEF MirrorInv, PastBehind
    <2>2. /\ p.content.ver <= row[k[2]].ver
          /\ p.content.edits <= LocalPart(k, row).edits
          /\ p.content.title <= catalog[k[2]].title
      BY <2>1 DEF Mirror!Leq, SourceOf, LocalPart
    <2>3. /\ pc[d] \in {"claimed", "rows", "works", "built"} => p.rev < rev[d]
          /\ pc[d] \in {"rows", "works"} => p.content.ver <= rows[d][k[2]].ver
          /\ pc[d] = "works" => p.content.title <= works[d][k[2]].title
          /\ item[d][k].op = "live" => Mirror!Leq(p.content, item[d][k].content)
      BY <1>2 DEF MirrorInv, TickAhead
    <2>4. p.rev <= clock
      BY <1>2 DEF Past, RevBound
    <2>5. pc'[d] \in {"claimed", "rows", "works", "built"} => p.rev < rev'[d]
      BY <2>1, <2>3, <2>4, ReadsMove, Numbers
    <2>6. /\ pc'[d] \in {"rows", "works"} => p.content.ver <= rows'[d][k[2]].ver
          /\ pc'[d] = "works" => p.content.title <= works'[d][k[2]].title
      BY <2>2, <2>3, ReadsMove
    <2>7. ASSUME BuildItems(d), item'[d][k] = ItemFor(d, k), item'[d][k].op = "live"
          PROVE  Mirror!Leq(p.content, item'[d][k].content)
      <3>1. pc[d] = "works"
        BY <2>7 DEF BuildItems
      <3>2. item'[d][k].content = [ver   |-> rows[d][k[2]].ver,
                                   edits |-> LocalPart(k, row).edits,
                                   title |-> works[d][k[2]].title]
        BY <2>7, ItemForContent
      <3> QED
        BY <2>2, <2>3, <3>1, <3>2 DEF Mirror!Leq
    <2>8. item'[d][k].op = "live" => Mirror!Leq(p.content, item'[d][k].content)
      BY <2>3, <2>7, ItemMoves DEF NoItem
    <2> QED
      BY <2>5, <2>6, <2>8
  <1> QED
    BY <1>1, <1>2

\* Only the item built of what was read live lets a key be held.
LEMMA NextHeldWasLive ==
  ASSUME TypeOK, MirrorInv, [Next]_vars
  PROVE  HeldWasLive'
  <1> SUFFICES ASSUME NEW k \in Key, HeldSomewhere(k)' PROVE WasLive(k)'
    BY DEF HeldWasLive
  <1>1. WasLive(k) => WasLive(k)'
    BY KeyGrows DEF MirrorInv
  <1>2. CASE HeldSomewhere(k)
    BY <1>1, <1>2 DEF MirrorInv, HeldWasLive
  <1>3. CASE ~HeldSomewhere(k)
    <2>1. PICK d \in Drainers : BuildItems(d) /\ ItemFor(d, k).op = "live"
      BY <1>3, HeldMoves
    <2>2. RowsRead(d, k) /\ (k[1] = "edit" => row[k[2]].edits > 0)
      BY <2>1, ItemForContent
    <2>3. (row[k[2]].exists /\ row[k[2]].public) \/ row[k[2]].dipped
      BY <2>1, <2>2 DEF BuildItems, MirrorInv, ReadsLapse
    <2> QED
      BY <1>1, <2>2, <2>3 DEF WasLive
  <1> QED
    BY <1>2, <1>3

LEMMA NextReadsLapse ==
  ASSUME TypeOK, MirrorInv, OneDrainLoop, DippedIsRemembered, [Next]_vars
  PROVE  ReadsLapse'
  <1> SUFFICES ASSUME NEW d \in Drainers, NEW k \in Key
               PROVE
    /\ pc'[d] \in {"rows", "works"} =>
         /\ RowsRead(d, k)' => (row'[k[2]].exists /\ row'[k[2]].public) \/ row'[k[2]].dipped
         /\ ~RowsRead(d, k)' /\ HeldSomewhere(k)' => row'[k[2]].dipped
    /\ pc'[d] = "works" /\ ~works'[d][k[2]].shown => catalog'[k[2]].dipped
    BY DEF ReadsLapse
  <1>1. /\ k[2] \in Resources
        /\ row[k[2]].dipped => row'[k[2]].dipped
        /\ row[k[2]].exists /\ row[k[2]].public =>
             (row'[k[2]].exists /\ row'[k[2]].public) \/ row'[k[2]].dipped
        /\ catalog[k[2]].dipped => catalog'[k[2]].dipped
    BY KeyIsPair, SourceGrows DEF MirrorInv
  <1>2. pc'[d] \in {"rows", "works"} /\ HeldSomewhere(k)' => HeldSomewhere(k)
    <2> SUFFICES ASSUME pc'[d] \in {"rows", "works"}, HeldSomewhere(k)', ~HeldSomewhere(k)
                 PROVE  FALSE
      OBVIOUS
    <2>1. BuildItems(d)
      BY HeldMoves DEF OneDrainLoop
    <2> QED
      BY <2>1 DEF BuildItems, TypeOK
  <1>3. ASSUME pc'[d] \in {"rows", "works"}
        PROVE  /\ RowsRead(d, k)' => (row'[k[2]].exists /\ row'[k[2]].public) \/ row'[k[2]].dipped
               /\ ~RowsRead(d, k)' /\ HeldSomewhere(k)' => row'[k[2]].dipped
    <2>1. CASE rows'[d] = row /\ row' = row
      <3>1. RowsRead(d, k)' <=> row[k[2]].exists /\ row[k[2]].public
        BY <2>1 DEF RowsRead
      <3>2. HeldSomewhere(k)' => (row[k[2]].exists /\ row[k[2]].public) \/ row[k[2]].dipped
        BY <1>2, <1>3 DEF MirrorInv, HeldWasLive, WasLive
      <3> QED
        BY <2>1, <3>1, <3>2
    <2>2. CASE pc[d] \in {"rows", "works"} /\ rows'[d] = rows[d]
      <3>1. RowsRead(d, k)' <=> RowsRead(d, k)
        BY <2>2 DEF RowsRead
      <3> QED
        BY <1>1, <1>2, <1>3, <2>2, <3>1 DEF MirrorInv, ReadsLapse
    <2> QED
      BY <1>3, <2>1, <2>2, ReadsMove
  <1>4. ASSUME pc'[d] = "works", ~works'[d][k[2]].shown
        PROVE  catalog'[k[2]].dipped
    <2>1. CASE works'[d] = catalog /\ catalog' = catalog
      BY <1>1, <1>4, <2>1 DEF DippedIsRemembered
    <2>2. CASE pc[d] = "works" /\ works'[d] = works[d]
      BY <1>1, <1>4, <2>2 DEF MirrorInv, ReadsLapse
    <2> QED
      BY <1>4, <2>1, <2>2, ReadsMove
  <1> QED
    BY <1>3, <1>4

LEMMA NextTombsLapse ==
  ASSUME TypeOK, MirrorInv, [Next]_vars
  PROVE  TombsLapse'
  <1>1. \A k \in Key : Lapsed(k) => Lapsed(k)'
    BY KeyGrows DEF MirrorInv
  <1>2. ASSUME NEW d \in Drainers, NEW k \in Key, item'[d][k].op = "tomb"
        PROVE  Lapsed(k)' /\ item'[d][k].content = Blank
    <2>1. CASE item'[d][k] = item[d][k]
      BY <1>1, <1>2, <2>1 DEF MirrorInv, TombsLapse
    <2>2. CASE BuildItems(d) /\ item'[d][k] = ItemFor(d, k)
      <3>1. /\ ItemFor(d, k).content = Blank /\ HeldLive(k)
            /\ \/ ~RowsRead(d, k)
               \/ ~works[d][k[2]].shown
               \/ k[1] = "edit" /\ ~(row[k[2]].exists /\ row[k[2]].edits > 0)
        BY <1>2, <2>2, ItemForContent
      <3>2. HeldSomewhere(k) /\ WasLive(k) /\ pc[d] = "works"
        BY <2>2, <3>1 DEF HeldSomewhere, MirrorInv, HeldWasLive, BuildItems
      <3>3. Lapsed(k)
        BY <3>1, <3>2 DEF MirrorInv, ReadsLapse, WasLive, Lapsed
      <3> QED
        BY <1>1, <2>2, <3>1, <3>3
    <2> QED
      BY <1>2, <2>1, <2>2, ItemMoves DEF NoItem
  <1>3. ASSUME NEW m \in wire', m.item.op = "tomb"
        PROVE  Lapsed(m.key)' /\ m.item.content = Blank
    <2>1. CASE m \in wire
      <3>1. m.key \in Key
        BY <2>1 DEF TypeOK
      <3> QED
        BY <1>1, <1>3, <2>1, <3>1 DEF MirrorInv, TombsLapse
    <2>2. CASE m \notin wire
      <3>1. PICK d \in Drainers : m.key \in Key /\ m.item = item[d][m.key]
        BY <2>2, WireGrows
      <3> QED
        BY <1>1, <1>3, <3>1 DEF MirrorInv, TombsLapse
    <2> QED
      BY <2>1, <2>2
  <1> QED
    BY <1>2, <1>3 DEF TombsLapse

-----------------------------------------------------------------------------
(* A step of the push is a step of the mirror *)

\* What community comes to store: a live content between the one it had and
\* the source's, or nothing of a key that lapsed.
LEMMA FeedMoves ==
  ASSUME TypeOK, TombsFollow, MirrorInv, [Next]_vars, NEW k \in Key, comm'[k] # comm[k]
  PROVE  \/ /\ comm'[k].live
            /\ Mirror!Leq(comm'[k].content, SourceOf(k))
            /\ comm[k].live => Mirror!Leq(comm[k].content, comm'[k].content)
         \/ ~comm'[k].live /\ comm'[k].content = Blank /\ Lapsed(k)
  <1>1. (\E d \in Drainers : Write(d)) \/ \E m \in wire : Land(m)
    BY OnlyWritesStore
  <1>2. comm[k].live => [rev |-> comm[k].rev, content |-> comm[k].content] \in Past(k)
    BY DEF Past
  <1>3. CASE \E d \in Drainers : Write(d)
    <2>1. PICK d \in Drainers : Write(d)
      BY <1>3
    <2>2. /\ item[d][k].op \in {"live", "tomb"}
          /\ comm'[k].live = (item[d][k].op = "live")
          /\ comm'[k].content = item[d][k].content
      <3>1. item[d][k].op \in {"none", "live", "tomb"}
        BY DEF TypeOK, Item
      <3>2. /\ item[d][k].op # "none"
            /\ comm'[k].live = (item[d][k].op = "live")
            /\ comm'[k].content = item[d][k].content
        BY <2>1, WriteStores
      <3> QED
        BY <3>1, <3>2
    <2>3. CASE item[d][k].op = "live"
      <3>1. Mirror!Leq(item[d][k].content, SourceOf(k))
        BY <2>3 DEF MirrorInv, ItemsBehind
      <3>2. comm[k].live => Mirror!Leq(comm[k].content, item[d][k].content)
        BY <1>2, <2>3 DEF MirrorInv, TickAhead
      <3> QED
        BY <2>2, <2>3, <3>1, <3>2
    <2>4. CASE item[d][k].op = "tomb"
      BY <2>2, <2>4 DEF MirrorInv, TombsLapse
    <2> QED
      BY <2>2, <2>3, <2>4
  <1>4. CASE \E m \in wire : Land(m)
    <2>1. PICK m \in wire : Land(m)
      BY <1>4
    <2>2. /\ m.key = k /\ comm[k].rev < m.rev
          /\ comm'[k].live = (m.item.op = "live")
          /\ comm'[k].content = m.item.content
      BY <2>1, LandStores, Numbers DEF TypeOK
    <2>3. CASE m.item.op = "live"
      <3>1. [rev |-> m.rev, content |-> m.item.content] \in Past(k)
        BY <2>2, <2>3 DEF Past
      <3>2. Mirror!Leq(m.item.content, SourceOf(k))
        BY <3>1 DEF MirrorInv, PastBehind
      <3>3. comm[k].live => Mirror!Leq(comm[k].content, m.item.content)
        BY <1>2, <2>2, <2>3 DEF MirrorInv, PastBehind
      <3> QED
        BY <2>2, <2>3, <3>2, <3>3
    <2>4. CASE m.item.op # "live"
      <3>1. m.item.op = "tomb"
        BY <2>4 DEF TypeOK, Item, TombsFollow
      <3> QED
        BY <2>2, <3>1 DEF MirrorInv, TombsLapse
    <2> QED
      BY <2>3, <2>4
  <1> QED
    BY <1>1, <1>3, <1>4

LEMMA NextDarkIsBlank ==
  ASSUME TypeOK, TombsFollow, MirrorInv, [Next]_vars
  PROVE  DarkIsBlank'
  BY FeedMoves DEF MirrorInv, DarkIsBlank

\* A public key that stops being public has lapsed.
LEMMA PublicLapses ==
  ASSUME TypeOK, MirrorInv, [Next]_vars, NEW k \in Key,
         Want(k).op = "live", Want(k)'.op # "live"
  PROVE  Lapsed(k)'
  <1>1. /\ k[2] \in Resources
        /\ row[k[2]].exists /\ row[k[2]].public /\ catalog[k[2]].shown
        /\ k[1] = "edit" => row[k[2]].edits > 0
    BY KeyIsPair DEF Want, Resolved
  <1>2. /\ (row'[k[2]].exists /\ row'[k[2]].public) \/ row'[k[2]].dipped
        /\ catalog'[k[2]].shown \/ catalog'[k[2]].dipped
        /\ row[k[2]].edits <= row'[k[2]].edits
        /\ row[k[2]].edits \in Nat /\ row'[k[2]].edits \in Nat
    BY <1>1, SourceGrows, NextType DEF MirrorInv, TypeOK, RowType
  <1>3. \/ ~row'[k[2]].exists \/ ~row'[k[2]].public \/ ~catalog'[k[2]].shown
        \/ k[1] = "edit" /\ ~(row'[k[2]].edits > 0)
    BY DEF Want, Resolved
  <1> QED
    BY <1>1, <1>2, <1>3 DEF Lapsed

LEMMA NextMirror ==
  ASSUME TypeOK, TombsFollow, MirrorInv, [Next]_vars
  PROVE  [Mirror!Next]_(Mirror!vars)
  <1>1. CASE UNCHANGED comm
    <2>1. ASSUME NEW k \in Key
          PROVE  /\ Mirror!Leq(SourceOf(k), SourceOf(k)')
                 /\ Lapsed(k) => Lapsed(k)'
                 /\ Want(k).op = "live" /\ Want(k)'.op # "live" => Lapsed(k)'
      BY KeyGrows, PublicLapses DEF MirrorInv
    <2> QED
      BY <1>1, <2>1 DEF Mirror!Next, Mirror!SourceStep, SourceOf, Lapsed
  <1>2. CASE ~UNCHANGED comm
    <2>1. UNCHANGED <<row, catalog>>
      BY <1>2, OnlyWritesStore DEF Write, Land, local
    <2>2. ASSUME NEW k \in Key
          PROVE  \/ comm'[k].live = comm[k].live /\ comm'[k].content = comm[k].content
                 \/ /\ comm'[k].live
                    /\ Mirror!Leq(comm'[k].content, SourceOf(k))
                    /\ comm[k].live => Mirror!Leq(comm[k].content, comm'[k].content)
                 \/ comm[k].live /\ ~comm'[k].live /\ Lapsed(k)
      BY FeedMoves, NextType DEF MirrorInv, DarkIsBlank, TypeOK, CommType
    <2> QED
      BY <2>1, <2>2 DEF Mirror!Next, Mirror!Publish, Mirror!Withdraw, SourceOf, Lapsed,
         Want
  <1> QED
    BY <1>1, <1>2

-----------------------------------------------------------------------------
LEMMA InitMirror == Init => MirrorInv /\ Mirror!Init
  <1> SUFFICES ASSUME Init PROVE MirrorInv /\ Mirror!Init
    OBVIOUS
  <1>1. /\ \A k \in Key : /\ ~comm[k].live /\ comm[k].content = Blank
                          /\ sent[k].rev = 0 /\ ~listing[k].live
        /\ wire = {}
        /\ \A d \in Drainers : pc[d] = "idle" /\ \A k \in Key :
             item[d][k] = NoItem /\ accepted[d][k] = "none"
    BY DEF Init, Unseen
  <1>2. \A k \in Key : Past(k) = {}
    BY <1>1 DEF Past
  <1>3. \A k \in Key : ~HeldSomewhere(k)
    BY <1>1, <1>2 DEF HeldSomewhere, HeldLive, NoItem
  <1>4. Born
    <2> SUFFICES ASSUME NEW r \in Resources, row[r].ver = 0
                 PROVE  row[r].edits = 0 /\ ~row[r].exists /\ ~row[r].dipped
      BY DEF Born
    <2>1. row[r] \in InitRow
      BY DEF Init
    <2>2. CASE row[r] # NoRow
      <3> DEFINE E == IF "edit" \in Kinds THEN {0, 1} ELSE {0}
      <3>1. row[r] \in [exists : {TRUE}, public : BOOLEAN, ver : {1}, dipped : {FALSE},
                        edits : E]
        BY <2>1, <2>2 DEF InitRow
      <3> HIDE DEF E
      <3>2. row[r].ver \in {1}
        BY <3>1
      <3> QED
        BY <3>2
    <2>3. CASE row[r] = NoRow
      BY <2>3 DEF NoRow
    <2> QED
      BY <2>2, <2>3
  <1>5. ReadsBehind /\ ItemsBehind /\ PastBehind /\ TickAhead
    BY <1>1, <1>2 DEF ReadsBehind, ItemsBehind, PastBehind, TickAhead, NoItem
  <1>6. HeldWasLive /\ ReadsLapse /\ TombsLapse /\ DarkIsBlank
    BY <1>1, <1>3 DEF HeldWasLive, ReadsLapse, TombsLapse, DarkIsBlank, NoItem
  <1> QED
    BY <1>1, <1>4, <1>5, <1>6 DEF MirrorInv, Mirror!Init

LEMMA NextMirrorInv ==
  ASSUME OneDrainLoop
  PROVE  TypeOK /\ FreshnessInv /\ TombsFollow /\ MirrorInv /\ [Next]_vars => MirrorInv'
  BY SourceGrows, NextReadsBehind, NextItemsBehind, NextPastBehind, NextTickAhead,
     NextHeldWasLive, NextReadsLapse, NextTombsLapse, NextDarkIsBlank
     DEF MirrorInv, FreshnessInv

\* With one drainer the push implements the mirror: late writes, crashes and
\* reads at different times included, no step shows fields this site never had,
\* goes back to older ones, or withdraws what stayed public.
THEOREM FeedMirrorsTheSite ==
  ASSUME OneDrainLoop
  PROVE  Spec => MirrorsTheSite
  <1>1. Init => TypeOK /\ FreshnessInv /\ LedgerInv /\ TombsFollow /\ MirrorInv
    <2>1. Init => TombsFollow
      BY DEF Init, TombsFollow, NoItem
    <2> QED
      BY <2>1, InitType, InitFresh, InitLedger, InitMirror
  <1>2. TypeOK /\ FreshnessInv /\ LedgerInv /\ TombsFollow /\ MirrorInv /\ [Next]_vars
        => (TypeOK /\ FreshnessInv /\ LedgerInv /\ TombsFollow /\ MirrorInv)'
    BY NextType, NextFresh, NextLedger, NextTombs, NextMirrorInv
  <1>3. TypeOK /\ TombsFollow /\ MirrorInv /\ [Next]_vars => [Mirror!Next]_(Mirror!vars)
    BY NextMirror
  <1>4. Init => Mirror!Init
    BY InitMirror
  <1> QED
    BY <1>1, <1>2, <1>3, <1>4, PTL DEF Spec, MirrorsTheSite, Mirror!Spec
=============================================================================
