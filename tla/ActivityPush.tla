---------------------------- MODULE ActivityPush ----------------------------
(***************************************************************************)
(* The push of this site's public activity into the community feed:        *)
(* internal/community/activitypush and the triggers of migration 043.      *)
(*                                                                         *)
(* A transactional outbox.  Whatever changes a resource enqueues its keys  *)
(* in the same transaction; drainers claim the oldest rows, read the       *)
(* CURRENT state of each key in separate reads, push it under a revision   *)
(* stamped before those reads, record what community accepted and delete   *)
(* the rows nobody enqueued again.  A daily reconcile compares community's *)
(* listing with the local state and enqueues what differs.                 *)
(*                                                                         *)
(* Abstractions.  One resource stands on one catalog work and has one      *)
(* (editor, day) group of edits.  The columns an item is built from are a  *)
(* version number; the fields taken from catalog are a second one.  Times  *)
(* are numbers: only their order is ever used.  History variables, read by *)
(* no action's guard: mark, skipped, and the fields `dipped`.              *)
(***************************************************************************)
EXTENDS Naturals, FiniteSets

CONSTANTS
  Resources,    \* ids of patch_resource rows
  Kinds,        \* of keys: "publish", "edit" (bound: a run may leave one out)
  Drainers,     \* drain loops: one per process, two while a deploy overlaps
  ClaimLimit,   \* claimLimit
  Stamps,       \* values of enqueued_at (bound)
  MaxRevision,  \* the last revision a tick may stamp (bound)
  MaxChange,    \* writes to resources and to catalog in a behaviour (bound)
  MaxFault      \* crashes, timeouts and refusals in a behaviour (bound)

ASSUME ConstantAssumption ==
  /\ Kinds \subseteq {"publish", "edit"}
  /\ Stamps \subseteq Nat \ {0}
  /\ ClaimLimit \in Nat \ {0}
  /\ MaxRevision \in Nat
  /\ MaxChange \in Nat
  /\ MaxFault \in Nat

VARIABLES
  row,        \* patch_resource and its patch_resource_revision rows
  catalog,    \* what catalog answers for the resource's work
  published,  \* the page is shown here: patch.published, no catalog_deleted_at
  unread,     \* catalog's hides and restores the crons have yet to read
  queue,      \* activity_push_queue; at = 0 is no row
  sent,       \* activity_push_sent; rev = 0 is no row
  comm,       \* community's stored activities; rev = 0 is a key never seen
  notified,   \* keys community has sent a notification for
  wire,       \* items of calls that failed here and may still land there
  pc, claim, flag, rev, rows, works, item, accepted,   \* one RunOnce per drainer
  rpc, listing, drift,                                 \* the one Reconcile
  clock,      \* the last revision stamped
  mark,       \* history: the clock when a trigger last enqueued the key
  skipped,    \* history: keys refused as malformed since they were enqueued
  changes, faults

local   == <<row, catalog, published, unread>>
tick    == <<pc, claim, flag, rev, rows, works, item, accepted>>
recon   == <<rpc, listing, drift>>
remote  == <<comm, notified, wire>>
vars    == <<local, queue, sent, remote, tick, recon, clock, mark, skipped,
             changes, faults>>

-----------------------------------------------------------------------------
(* Keys and the state they stand for *)

Key == Kinds \X Resources

Content == [ver : Nat, edits : Nat, title : Nat]
Blank   == [ver |-> 0, edits |-> 0, title |-> 0]

\* The row part of "public": the resource exists with status 0, and an edit
\* key still has revision rows.
Live(k, r) == /\ r[k[2]].exists
              /\ r[k[2]].public
              /\ k[1] = "edit" => r[k[2]].edits > 0

LocalLive(k) == Live(k, row)

\* Everything the item is built from but catalog; a publish item shows no edits.
LocalPart(k, r) == [ver |-> r[k[2]].ver,
                    edits |-> IF k[1] = "edit" THEN r[k[2]].edits ELSE 0]

\* The item to push for k from the three reads of a resolve, or "none".
Resolved(k, resources, briefs, revisions) ==
  IF /\ resources[k[2]].exists /\ resources[k[2]].public
     /\ briefs[k[2]].shown
     /\ k[1] = "edit" => revisions[k[2]].exists /\ revisions[k[2]].edits > 0
  THEN [op |-> "live",
        content |-> [ver   |-> resources[k[2]].ver,
                     edits |-> IF k[1] = "edit" THEN revisions[k[2]].edits ELSE 0,
                     title |-> briefs[k[2]].title]]
  ELSE [op |-> "none", content |-> Blank]

Want(k) == Resolved(k, row, catalog, row)

NoRow  == [exists |-> FALSE, public |-> FALSE, ver |-> 0, edits |-> 0, dipped |-> FALSE]
NoWork == [shown |-> FALSE, title |-> 0, dipped |-> FALSE]
Item   == [op : {"none", "live", "tomb"}, content : Content, notify : BOOLEAN]
NoItem == [op |-> "none", content |-> Blank, notify |-> FALSE]

Unseen == [rev |-> 0, live |-> FALSE, content |-> Blank]

Queued == {k \in Key : queue[k].at # 0}

-----------------------------------------------------------------------------
(* The queue *)

\* clock_timestamp(): later than every stamp a row or a claim still holds.
\* Only those are ever compared with it, so the least such number will do.
Held(K) == {0} \cup {queue[k].at : k \in Key \ K}
               \cup {claim[d][k] : d \in Drainers, k \in Key}
LaterThanHeld(t, K) == /\ \A u \in Held(K) : u < t
                       /\ t - 1 \in Held(K)

\* Mutant of Enqueue: the conflict leaves enqueued_at alone.
EnqueueInPlace(K, backfill) ==
  /\ \E t \in Stamps :
       /\ LaterThanHeld(t, K)
       /\ queue' = [k \in Key |->
            IF k \notin K \/ queue[k].at # 0 THEN queue[k]
            ELSE [at |-> t, backfill |-> backfill]]
  /\ skipped' = skipped \ K

\* An upsert that moves enqueued_at of a waiting row.  A trigger clears the
\* backfill flag; the reconcile leaves the flag of a waiting row alone.
Enqueue(K, backfill) ==
  /\ \E t \in Stamps :
       /\ LaterThanHeld(t, K)
       /\ queue' = [k \in Key |->
            IF k \notin K THEN queue[k]
            ELSE [at |-> t,
                  backfill |-> backfill /\ (queue[k].at # 0 => queue[k].backfill)]]
  /\ skipped' = skipped \ K

\* activity_push_enqueue, called by the triggers.
TriggerEnqueue(K) ==
  /\ Enqueue(K, FALSE)
  /\ mark' = [k \in Key |-> IF k \in K THEN clock ELSE mark[k]]

\* Mutant of KeysOf: only the publish key.
PublishKeyOf(r, edits) == {k \in Key : k[2] = r /\ k[1] = "publish"}

\* Every key of a resource whose revision rows are `edits`.
KeysOf(r, edits) == {k \in Key : k[2] = r /\ (k[1] = "edit" => edits > 0)}

-----------------------------------------------------------------------------
(* Writers of local rows, and catalog *)

Changed == changes < MaxChange /\ changes' = changes + 1

\* A transaction that leaves `new` in the row and enqueues K.
WriteRow(r, new, K) ==
  /\ Changed
  /\ row' = [row EXCEPT ![r] = new]
  /\ TriggerEnqueue(K)
  /\ UNCHANGED <<catalog, published, unread, sent, remote, tick, recon, clock, faults>>

CreateResource(r) ==
  /\ ~row[r].exists
  /\ row[r].ver = 0          \* ids are never reused
  /\ WriteRow(r, [row[r] EXCEPT !.exists = TRUE, !.public = TRUE, !.ver = 1, !.edits = 0],
              KeysOf(r, 0))

\* Columns an item shows change and one revision row is written.
UpdateResource(r) ==
  /\ row[r].exists
  /\ WriteRow(r, [row[r] EXCEPT !.ver = @ + 1, !.edits = @ + 1],
              KeysOf(r, row[r].edits + 1))

\* Mutant of ToggleResource: the trigger forgets the resource's edits.
TogglePublishOnly(r) ==
  /\ row[r].exists
  /\ WriteRow(r, [row[r] EXCEPT !.public = ~@,
                                !.dipped = @ \/ row[r].public],
              KeysOf(r, 0))

\* status: the owner's or a moderator's switch, and a trust hide.
ToggleResource(r) ==
  /\ row[r].exists
  /\ WriteRow(r, [row[r] EXCEPT !.public = ~@,
                                !.dipped = @ \/ row[r].public],
              KeysOf(r, row[r].edits))

\* The revision rows go with the resource (ON DELETE CASCADE), and their own
\* trigger enqueues the edit keys.
DeleteResource(r) ==
  /\ row[r].exists
  /\ WriteRow(r, [row[r] EXCEPT !.exists = FALSE, !.public = FALSE, !.dipped = TRUE],
              KeysOf(r, row[r].edits))

\* Catalog changes what it shows for the work: no local row moves.
CatalogRename(r) ==
  /\ Changed
  /\ catalog' = [catalog EXCEPT ![r].title = @ + 1]
  /\ UNCHANGED <<row, published, unread, queue, sent, remote, tick, recon, clock, mark,
                 skipped, faults>>

CatalogFlip(r) ==
  /\ Changed
  /\ catalog' = [catalog EXCEPT ![r].shown = ~@,
                                ![r].dipped = @ \/ catalog[r].shown]
  /\ unread' = [unread EXCEPT ![r] = @ + 1]
  /\ UNCHANGED <<row, published, queue, sent, remote, tick, recon, clock, mark,
                 skipped, faults>>

\* The patch trigger: the page's visibility moves, and every key of it is
\* enqueued.
SetPublished(r, shown) ==
  /\ published[r] # shown
  /\ published' = [published EXCEPT ![r] = shown]
  /\ TriggerEnqueue({k \in KeysOf(r, row[r].edits) : row[r].exists})

\* What the last event the crons read said: they alternate.
LastRead(r) == IF unread[r] % 2 = 0 THEN catalog[r].shown ELSE ~catalog[r].shown

\* Mutant of SyncClaim: the cursor moves on with no event to read.
SyncClaimAnyway(r) ==
  /\ unread' = [unread EXCEPT ![r] = @ - 1]
  /\ SetPublished(r, ~LastRead(r)) \/ UNCHANGED <<published, queue, mark, skipped>>
  /\ UNCHANGED <<row, catalog, sent, remote, tick, recon, clock, changes, faults>>

\* The claim-event cron and the deletion mirror read one event.  A deletion and
\* a restore move the page; a ban does when its submitter is known, and lifting
\* one only notifies.
SyncClaim(r) ==
  /\ unread[r] > 0
  /\ unread' = [unread EXCEPT ![r] = @ - 1]
  /\ \/ SetPublished(r, ~LastRead(r))
     \/ UNCHANGED <<published, queue, mark, skipped>>
  /\ UNCHANGED <<row, catalog, sent, remote, tick, recon, clock, changes, faults>>

\* A resource lands on the page: it is published again, unless banned.
MarkIndexed(r) ==
  /\ row[r].exists /\ LastRead(r)
  /\ SetPublished(r, TRUE)
  /\ UNCHANGED <<row, catalog, unread, sent, remote, tick, recon, clock, changes, faults>>

-----------------------------------------------------------------------------
(* RunOnce, one tick of a drainer *)

\* The rows a claim returns: the oldest ones, at most ClaimLimit.
Claimable(K) ==
  /\ K # {} /\ K \subseteq Queued
  /\ IF Cardinality(Queued) <= ClaimLimit THEN K = Queued
     ELSE /\ Cardinality(K) = ClaimLimit
          /\ \A k \in K, j \in Queued \ K : queue[k].at <= queue[j].at

\* claim, then the revision.  An empty queue stamps nothing.
Claim(d) ==
  /\ pc[d] = "idle"
  /\ clock < MaxRevision
  /\ \E K \in SUBSET Queued :
       /\ Claimable(K)
       /\ claim' = [claim EXCEPT ![d] = [k \in Key |-> IF k \in K THEN queue[k].at ELSE 0]]
       /\ flag' = [flag EXCEPT ![d] = [k \in Key |-> k \in K /\ queue[k].backfill]]
  /\ clock' = clock + 1
  /\ rev' = [rev EXCEPT ![d] = clock + 1]
  /\ pc' = [pc EXCEPT ![d] = "claimed"]
  /\ UNCHANGED <<local, queue, sent, remote, rows, works, item, accepted, recon,
                 mark, skipped, changes, faults>>

ReadRows(d) ==
  /\ pc[d] = "claimed"
  /\ rows' = [rows EXCEPT ![d] = row]
  /\ pc' = [pc EXCEPT ![d] = "rows"]
  /\ UNCHANGED <<local, queue, sent, remote, claim, flag, rev, works, item, accepted,
                 recon, clock, mark, skipped, changes, faults>>

\* Mutant of ReadWorks: an error reads as "no such work".
ReadWorksOrNothing(d) ==
  /\ pc[d] = "rows"
  /\ works' \in {[works EXCEPT ![d] = catalog],
                 [works EXCEPT ![d] = [r \in Resources |-> NoWork]]}
  /\ pc' = [pc EXCEPT ![d] = "works"]
  /\ UNCHANGED <<local, queue, sent, remote, claim, flag, rev, rows, item, accepted,
                 recon, clock, mark, skipped, changes, faults>>

\* GalgameBatch.  Its error is Fail(d): an outage is not a verdict.
ReadWorks(d) ==
  /\ pc[d] = "rows"
  /\ works' = [works EXCEPT ![d] = catalog]
  /\ pc' = [pc EXCEPT ![d] = "works"]
  /\ UNCHANGED <<local, queue, sent, remote, claim, flag, rev, rows, item, accepted,
                 recon, clock, mark, skipped, changes, faults>>

\* Mutant of NotifyFor: a backfill row notifies too.
NotifyBackfill(d, k) == k[1] = "publish" /\ sent[k].rev = 0
\* Only the first publish of a key that a trigger enqueued.
NotifyFor(d, k) == k[1] = "publish" /\ sent[k].rev = 0 /\ ~flag[d][k]

\* Mutant of HeldLive: a missing ledger row counts as a live one.
NotRemoved(k) == ~sent[k].removed
\* The ledger holds k live.
HeldLive(k) == sent[k].rev # 0 /\ ~sent[k].removed

\* What is pushed for a claimed key: its content, or a tombstone for a key the
\* ledger holds live.  Never a tombstone for a key community never accepted.
ItemFor(d, k) ==
  LET current == Resolved(k, rows[d], works[d], row) IN
    IF claim[d][k] = 0 THEN NoItem
    ELSE IF current.op = "live"
      THEN [op |-> "live", content |-> current.content,
            notify |-> NotifyFor(d, k)]
    ELSE IF HeldLive(k)
      THEN [NoItem EXCEPT !.op = "tomb"]
    ELSE NoItem

\* What was claimed as backfill and what was read is not used again once the
\* items are built.
DropReads(d) ==
  /\ flag' = [flag EXCEPT ![d] = [k \in Key |-> FALSE]]
  /\ rows' = [rows EXCEPT ![d] = [r \in Resources |-> NoRow]]
  /\ works' = [works EXCEPT ![d] = [r \in Resources |-> NoWork]]

\* The revision rows, then the ledger, then the items.
BuildItems(d) ==
  /\ pc[d] = "works"
  /\ item' = [item EXCEPT ![d] = [k \in Key |-> ItemFor(d, k)]]
  /\ pc' = [pc EXCEPT ![d] = "built"]
  /\ DropReads(d)
  /\ UNCHANGED <<local, queue, sent, remote, claim, rev, accepted, recon, clock,
                 mark, skipped, changes, faults>>

\* Community keeps an item only under a revision above the stored one, and
\* notifies once, for a key it has never seen.
Supersedes(r, k) == r > comm[k].rev
Stored(i, r) == [rev |-> r, live |-> i.op = "live", content |-> i.content]
Notifies(i, k) == i.op = "live" /\ i.notify /\ comm[k].rev = 0

Items(d) == {k \in Key : item[d][k].op # "none"}

\* The items community stores when it refuses R.
Kept(d, R) == {k \in Items(d) \ R : Supersedes(rev[d], k)}

\* Mutant of AcceptedOutcome: stale and invalid count as accepted.
AnyOutcome(d, R) == Items(d)
\* created, updated, removed or restored; not stale, not invalid.
AcceptedOutcome(d, R) == Kept(d, R)

\* WriteActivities.  The items in R are refused as malformed (a 422 halved
\* down to them, or the outcome "invalid") and dropped; a stale one is not an
\* error either.
Write(d) ==
  /\ pc[d] = "built"
  /\ \E R \in SUBSET Items(d) :
       LET ok == Kept(d, R) IN
         /\ R # {} => faults < MaxFault
         /\ faults' = IF R = {} THEN faults ELSE faults + 1
         /\ comm' = [k \in Key |-> IF k \in ok THEN Stored(item[d][k], rev[d]) ELSE comm[k]]
         /\ notified' = notified \cup {k \in ok : Notifies(item[d][k], k)}
         /\ accepted' = [accepted EXCEPT ![d] =
              [k \in Key |-> IF k \in AcceptedOutcome(d, R) THEN item[d][k].op ELSE "none"]]
         /\ skipped' = skipped \cup R
  /\ item' = [item EXCEPT ![d] = [k \in Key |-> NoItem]]
  /\ pc' = [pc EXCEPT ![d] = "written"]
  /\ UNCHANGED <<local, queue, sent, wire, claim, flag, rev, rows, works, recon, clock,
                 mark, changes>>

\* record: an older revision never replaces a newer one.
Newest(ledger, r, removed, k) ==
  IF ledger[k].rev <= r THEN [rev |-> r, removed |-> removed] ELSE ledger[k]

Record(d) ==
  /\ pc[d] = "written"
  /\ sent' = [k \in Key |-> IF accepted[d][k] # "none"
                            THEN Newest(sent, rev[d], accepted[d][k] = "tomb", k)
                            ELSE sent[k]]
  /\ pc' = [pc EXCEPT ![d] = "recorded"]
  /\ UNCHANGED <<local, queue, remote, claim, flag, rev, rows, works, item, accepted,
                 recon, clock, mark, skipped, changes, faults>>

\* The tick is over, well or badly: nothing of it outlives it.
EndTick(d) ==
  /\ pc' = [pc EXCEPT ![d] = "idle"]
  /\ claim' = [claim EXCEPT ![d] = [k \in Key |-> 0]]
  /\ rev' = [rev EXCEPT ![d] = 0]
  /\ item' = [item EXCEPT ![d] = [k \in Key |-> NoItem]]
  /\ accepted' = [accepted EXCEPT ![d] = [k \in Key |-> "none"]]
  /\ DropReads(d)

\* Mutant of Unmoved: ack goes by the key alone.
Claimed(d, k) == claim[d][k] # 0
\* ack: delete the claimed rows that were not enqueued again.
Unmoved(d, k) == claim[d][k] # 0 /\ claim[d][k] = queue[k].at
NoQueueRow == [at |-> 0, backfill |-> FALSE]

Ack(d) ==
  /\ pc[d] = "recorded"
  /\ queue' = [k \in Key |-> IF Unmoved(d, k) THEN NoQueueRow ELSE queue[k]]
  /\ EndTick(d)
  /\ UNCHANGED <<local, sent, remote, recon, clock, mark, skipped, changes, faults>>

\* An error of any call, tickTimeout, or a crash: the rows stay queued.
Fail(d) ==
  /\ pc[d] # "idle"
  /\ faults < MaxFault /\ faults' = faults + 1
  /\ EndTick(d)
  /\ UNCHANGED <<local, queue, sent, remote, recon, clock, mark, skipped, changes>>

\* The write fails here and its outcome is unknown: any of its items may
\* still be applied there, at any time.
WriteLost(d) ==
  /\ pc[d] = "built"
  /\ Items(d) # {}
  /\ faults < MaxFault /\ faults' = faults + 1
  /\ wire' = wire \cup {[key |-> k, rev |-> rev[d], item |-> item[d][k]] : k \in Items(d)}
  /\ EndTick(d)
  /\ UNCHANGED <<local, queue, sent, comm, notified, recon, clock, mark, skipped, changes>>

Land(m) ==
  /\ wire' = wire \ {m}
  /\ IF Supersedes(m.rev, m.key)
     THEN /\ comm' = [comm EXCEPT ![m.key] = Stored(m.item, m.rev)]
          /\ notified' = notified \cup {k \in {m.key} : Notifies(m.item, k)}
     ELSE UNCHANGED <<comm, notified>>
  /\ UNCHANGED <<local, queue, sent, tick, recon, clock, mark, skipped, changes, faults>>

-----------------------------------------------------------------------------
(* Reconcile; SkipIfStillRunning lets one run at a time *)

\* loadStored.
RecList ==
  /\ rpc = "idle"
  /\ listing' = comm
  /\ rpc' = "listed"
  /\ UNCHANGED <<local, queue, sent, remote, tick, drift, clock, mark, skipped,
                 changes, faults>>

\* The listing becomes the ledger, except where the ledger is newer.
RecRecord ==
  /\ rpc = "listed"
  /\ sent' = [k \in Key |-> IF listing[k].rev # 0
                            THEN Newest(sent, listing[k].rev, ~listing[k].live, k)
                            ELSE sent[k]]
  /\ rpc' = "recorded"
  /\ UNCHANGED <<local, queue, remote, tick, listing, drift, clock, mark, skipped,
                 changes, faults>>

\* Mutant of Differs: only presence is compared.
DiffersInPresence(k) == listing[k].live # (Want(k).op = "live")
\* A key differs from the listing; with the orphans, whose Want is "none".
Differs(k) ==
  IF Want(k).op = "live"
  THEN ~listing[k].live \/ listing[k].content # Want(k).content
  ELSE listing[k].live

RecCompare ==
  /\ rpc = "recorded"
  /\ drift' = {k \in Key : Differs(k)}
  /\ listing' = [k \in Key |-> Unseen]
  /\ rpc' = "compared"
  /\ UNCHANGED <<local, queue, sent, remote, tick, clock, mark, skipped, changes,
                 faults>>

EndReconcile ==
  /\ rpc' = "idle"
  /\ drift' = {}
  /\ listing' = [k \in Key |-> Unseen]

RecEnqueue ==
  /\ rpc = "compared"
  /\ Enqueue(drift, TRUE)
  /\ EndReconcile
  /\ UNCHANGED <<local, sent, remote, tick, clock, mark, changes, faults>>

\* An error or a crash; some pages may have been enqueued before it.
RecFail ==
  /\ rpc # "idle"
  /\ faults < MaxFault /\ faults' = faults + 1
  /\ \E K \in SUBSET drift : Enqueue(K, TRUE)
  /\ EndReconcile
  /\ UNCHANGED <<local, sent, remote, tick, clock, mark, changes>>

-----------------------------------------------------------------------------
(* Migration 043 enqueues every key of the rows it finds as backfill. *)

InitRow == {NoRow} \cup [exists : {TRUE}, public : BOOLEAN, ver : {1}, dipped : {FALSE},
                         edits : IF "edit" \in Kinds THEN {0, 1} ELSE {0}]
Init ==
  /\ row \in [Resources -> InitRow]
  /\ catalog \in [Resources -> [shown : BOOLEAN, title : {1}, dipped : BOOLEAN]]
  /\ \A r \in Resources : catalog[r].dipped = ~catalog[r].shown
  /\ published = [r \in Resources |-> catalog[r].shown]
  /\ unread = [r \in Resources |-> 0]
  /\ queue = [k \in Key |->
       IF row[k[2]].exists /\ k \in KeysOf(k[2], row[k[2]].edits)
       THEN [at |-> 1, backfill |-> TRUE] ELSE NoQueueRow]
  /\ sent = [k \in Key |-> [rev |-> 0, removed |-> FALSE]]
  /\ comm = [k \in Key |-> Unseen]
  /\ notified = {} /\ wire = {}
  /\ pc = [d \in Drainers |-> "idle"]
  /\ claim = [d \in Drainers |-> [k \in Key |-> 0]]
  /\ flag = [d \in Drainers |-> [k \in Key |-> FALSE]]
  /\ rev = [d \in Drainers |-> 0]
  /\ rows = [d \in Drainers |-> [r \in Resources |-> NoRow]]
  /\ works = [d \in Drainers |-> [r \in Resources |-> NoWork]]
  /\ item = [d \in Drainers |-> [k \in Key |-> NoItem]]
  /\ accepted = [d \in Drainers |-> [k \in Key |-> "none"]]
  /\ rpc = "idle" /\ listing = [k \in Key |-> Unseen] /\ drift = {}
  /\ clock = 1 /\ mark = [k \in Key |-> 0] /\ skipped = {}
  /\ changes = 0 /\ faults = 0

Writer(r) == \/ CreateResource(r) \/ UpdateResource(r) \/ ToggleResource(r)
             \/ DeleteResource(r) \/ CatalogRename(r) \/ CatalogFlip(r)
TickStep(d) == \/ Claim(d) \/ ReadRows(d) \/ ReadWorks(d) \/ BuildItems(d)
               \/ Write(d) \/ Record(d) \/ Ack(d)
RecStep == RecList \/ RecRecord \/ RecCompare \/ RecEnqueue

Next == \/ \E r \in Resources : Writer(r) \/ SyncClaim(r) \/ MarkIndexed(r)
        \/ \E d \in Drainers : TickStep(d) \/ Fail(d) \/ WriteLost(d)
        \/ \E m \in wire : Land(m)
        \/ RecStep \/ RecFail

Spec == Init /\ [][Next]_vars

\* drainLoop polls for ever, and cron fires the reconcile daily.
Fairness == /\ \A d \in Drainers : WF_vars(TickStep(d))
            /\ WF_vars(RecStep)
FairSpec == Spec /\ Fairness

-----------------------------------------------------------------------------
(* Properties *)

RowType  == [exists : BOOLEAN, public : BOOLEAN, ver : Nat, edits : Nat, dipped : BOOLEAN]
WorkType == [shown : BOOLEAN, title : Nat, dipped : BOOLEAN]
CommType == [rev : Nat, live : BOOLEAN, content : Content]

\* The shape of the state: tables, a tick per drainer, the reconcile.
TypeOK ==
  /\ row \in [Resources -> RowType]
  /\ catalog \in [Resources -> WorkType]
  /\ published \in [Resources -> BOOLEAN]
  /\ unread \in [Resources -> Nat]
  /\ queue \in [Key -> [at : Nat, backfill : BOOLEAN]]
  /\ sent \in [Key -> [rev : Nat, removed : BOOLEAN]]
  /\ comm \in [Key -> CommType]
  /\ notified \subseteq Key
  /\ wire \subseteq [key : Key, rev : Nat, item : Item]
  /\ pc \in [Drainers -> {"idle", "claimed", "rows", "works", "built", "written", "recorded"}]
  /\ claim \in [Drainers -> [Key -> Nat]]
  /\ flag \in [Drainers -> [Key -> BOOLEAN]]
  /\ rev \in [Drainers -> Nat]
  /\ rows \in [Drainers -> [Resources -> RowType]]
  /\ works \in [Drainers -> [Resources -> WorkType]]
  /\ item \in [Drainers -> [Key -> Item]]
  /\ accepted \in [Drainers -> [Key -> {"none", "live", "tomb"}]]
  /\ rpc \in {"idle", "listed", "recorded", "compared"}
  /\ listing \in [Key -> CommType]
  /\ drift \subseteq Key
  /\ clock \in Nat
  /\ mark \in [Key -> Nat]
  /\ skipped \subseteq Key
  /\ changes \in Nat
  /\ faults \in Nat

\* The outbox loses no change.  A resource that is live, on a work catalog has
\* shown throughout, and that is neither queued nor was refused, is in the feed
\* with the columns it has now.  Ticks fail, their writes arrive late, other
\* processes drain at the same time, and the state moves between the reads.
NoLostChange ==
  \A k \in Key :
    /\ queue[k].at = 0 /\ k \notin skipped
    /\ LocalLive(k) /\ ~catalog[k[2]].dipped
    => /\ comm[k].live
       /\ comm[k].content.ver = LocalPart(k, row).ver
       /\ comm[k].content.edits = LocalPart(k, row).edits

-----------------------------------------------------------------------------
(* Why NoLostChange holds: a revision above mark[k] was stamped after the    *)
(* last trigger enqueue of k, so whatever carries it was read after that.    *)

Due(k) == LocalLive(k) /\ ~catalog[k[2]].dipped

Current(k, content) == /\ content.ver = LocalPart(k, row).ver
                       /\ content.edits = LocalPart(k, row).edits

ClockBound == \A k \in Key : mark[k] <= clock

RevBound == /\ \A d \in Drainers : rev[d] <= clock
            /\ \A m \in wire : m.rev <= clock
            /\ \A k \in Key : comm[k].rev <= clock

DippedIsRemembered == \A r \in Resources : ~catalog[r].dipped => catalog[r].shown

ReadsFresh == \A d \in Drainers, k \in Key :
  /\ pc[d] \in {"rows", "works"} /\ rev[d] > mark[k] /\ LocalLive(k)
     => rows[d][k[2]] = row[k[2]]
  /\ pc[d] = "works" /\ ~catalog[k[2]].dipped => works[d][k[2]].shown

ItemsFresh == \A d \in Drainers, k \in Key :
  pc[d] = "built" /\ rev[d] > mark[k] /\ Due(k) /\ claim[d][k] # 0
  => item[d][k].op = "live" /\ Current(k, item[d][k].content)

ItemsClaimed == \A d \in Drainers, k \in Key :
  item[d][k].op # "none" => pc[d] = "built" /\ claim[d][k] # 0

WireFresh == \A m \in wire :
  m.rev > mark[m.key] /\ Due(m.key) => m.item.op = "live" /\ Current(m.key, m.item.content)

FeedFresh == \A k \in Key :
  comm[k].rev > mark[k] /\ Due(k) => comm[k].live /\ Current(k, comm[k].content)

ClaimsFresh == \A d \in Drainers, k \in Key : Unmoved(d, k) => rev[d] > mark[k]

WrittenIsThere == \A d \in Drainers, k \in Key :
  pc[d] \in {"written", "recorded"} /\ Unmoved(d, k) /\ k \notin skipped /\ Due(k)
  => comm[k].rev > mark[k]

SettledIsThere == \A k \in Key :
  queue[k].at = 0 /\ k \notin skipped /\ Due(k) => comm[k].rev > mark[k]

\* The inductive invariant behind NoLostChange: everything in flight, stored or
\* claimed under a revision above a key's mark is as fresh as the key.
FreshnessInv ==
  /\ ClockBound /\ RevBound /\ DippedIsRemembered /\ ReadsFresh /\ ItemsFresh
  /\ ItemsClaimed /\ WireFresh /\ FeedFresh /\ ClaimsFresh /\ WrittenIsThere
  /\ SettledIsThere

\* The ledger is never ahead of community: what activity_push_sent says of a
\* key is something community accepted, and says whether it is removed once
\* the revisions agree.  Both the drainer and the reconcile write it.
LedgerSound ==
  \A k \in Key :
    /\ sent[k].rev <= comm[k].rev
    /\ sent[k].rev = comm[k].rev /\ sent[k].rev # 0 => sent[k].removed = ~comm[k].live

\* A key community never accepted gets no tombstone: the first thing community
\* stores for a key is live, or restoring the content would never notify.
NoOrphanTombstone ==
  [][\A k \in Key : comm[k].rev = 0 /\ comm'[k].rev # 0 => comm'[k].live]_vars

\* Hidden content does not stay in the feed: as long as no call failed, a key
\* that is not live here is not live there once nothing is queued for it, and
\* this with the reconcile rewriting the ledger under the drainer.
HiddenIsWithdrawn ==
  faults = 0 =>
    \A k \in Key : queue[k].at = 0 /\ ~LocalLive(k) => ~comm[k].live

\* Backfill is silent: a key that only the migration and the reconcile ever
\* enqueued notifies nobody.
NoBackfillNotice == \A k \in notified : mark[k] > 0

\* Everything is in step with the feed.
Mirrored ==
  \A k \in Key : /\ comm[k].live <=> Want(k).op = "live"
                 /\ comm[k].live => comm[k].content = Want(k).content

\* The feed this module keeps is the mirror FeedMirror specifies.  With one
\* drainer: two may overwrite a newer read with an older one for a while.
Mirror == INSTANCE FeedMirror WITH
  source <- [k \in Key |->
    [public  |-> Want(k).op = "live",
     content |-> [ver   |-> LocalPart(k, row).ver,
                  edits |-> LocalPart(k, row).edits,
                  title |-> catalog[k[2]].title],
     lapsed  |-> row[k[2]].dipped \/ catalog[k[2]].dipped]],
  feed <- [k \in Key |-> [live |-> comm[k].live, content |-> comm[k].content]]

\* Lost and late writes, crashes and reads at different times included, the
\* feed never shows a state this site was never in, never goes back to older
\* fields, and never withdraws what stayed public.
MirrorsTheSite == Mirror!Spec

\* Once writers and faults stop, the feed comes to show exactly what this site
\* would push and stays so.  This is what the daily reconcile is for.
EventuallyMirrored == <>[]Mirrored
=============================================================================
