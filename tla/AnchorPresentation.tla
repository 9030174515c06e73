-------------------------- MODULE AnchorPresentation --------------------------
(***************************************************************************)
(* Anchor presentations: which page a comment wall of this site is on,     *)
(* told to community: presentation.go, presentation_store.go and           *)
(* presentation_reconcile.go of internal/community/activitypush, with the  *)
(* triggers of migration 045.                                              *)
(*                                                                         *)
(* The outbox of ActivityPush for other pages: a game page renders for any *)
(* work catalog renders, with or without a patch row, so no trigger sees   *)
(* every wall.  A comment, the sweep at start and the daily reconcile      *)
(* enqueue the rest.                                                       *)
(*                                                                         *)
(* Abstractions.  One wall, on a game page or on a resource page whose     *)
(* work keeps its patch row; walls share only their batches.  What         *)
(* a presentation shows is the version of the work it was built from and   *)
(* the resource's name.  Instead of enqueued_at a claim remembers whether  *)
(* the anchor was enqueued since, all that ack asks of it.                 *)
(***************************************************************************)
EXTENDS Naturals, FiniteSets

CONSTANTS
  Drainers,     \* drain loops, one per process
  MaxChange,    \* bound: writes here, in catalog and on the wall
  MaxRevision,  \* bound: revisions stamped
  MaxFault      \* bound: crashes, errors, refusals and lost writes

VARIABLES
  kind,     \* of the anchor: "game" or "resource"
  work,     \* external: the version of the work catalog renders; 0 if it does not
  patch,    \* the work has its patch row
  res,      \* the patch_resource row: its status and name
  wall,     \* external: community holds a comment on the wall
  queued,   \* the row of anchor_presentation_queue is there
  sent,     \* the row of anchor_presentation_sent; rev = 0 is no row
  comm,     \* external: what community stores; rev = 0 is never seen
  wire,     \* writes that failed here and may still land
  tick,     \* one RunPresentationsOnce per drainer
  listing,  \* what the reconcile listed
  clock, changes, faults

vars == <<kind, work, patch, res, wall, queued, sent, comm, wire, tick, listing,
          clock, changes, faults>>
page == <<kind, work, patch, res, wall>>

Absent == [status |-> "absent", name |-> 0]
Rendered(r) == r.status \notin {"absent", "hidden"}

\* What the wall's page shows with the row r and the work as catalog has it.
NoPage == <<0, 0>>
Page(r) == IF work = 0 \/ (kind = "resource" /\ ~Rendered(r)) THEN NoPage
           ELSE <<work, IF kind = "game" THEN 0 ELSE r.name>>
Current == Page(res)

NoRow == [rev |-> 0, shows |-> NoPage]
Unlisted == [on |-> FALSE, some |-> FALSE, shows |-> NoPage]
Idle == [pc |-> "idle", rev |-> 0, moved |-> FALSE, row |-> Absent, item |-> NoRow]

-----------------------------------------------------------------------------
(* The queue: enqueueing again gives the row a new enqueued_at. *)

Enqueue ==
  /\ queued' = TRUE
  /\ tick' = [d \in Drainers |-> [tick[d] EXCEPT !.moved = @ \/ tick[d].pc # "idle"]]

\* An anchor already waiting keeps its place.
Unpresented == sent.rev = 0 \/ sent.shows = NoPage
EnqueueUnpresented == queued' = (queued \/ Unpresented)

-----------------------------------------------------------------------------
(* The page changes; the triggers of migration 045 enqueue in the same       *)
(* statement.                                                                *)

Change == /\ changes < MaxChange /\ changes' = changes + 1
          /\ UNCHANGED <<kind, sent, comm, wire, listing, clock, faults>>

EnqueueIf(mine) == IF mine THEN Enqueue ELSE UNCHANGED <<queued, tick>>

InsertPatch ==
  /\ ~patch /\ work # 0 /\ patch' = TRUE /\ Enqueue /\ Change
  /\ UNCHANGED <<work, res, wall>>

DeletePatch ==
  /\ kind = "game" /\ patch /\ patch' = FALSE /\ Enqueue /\ Change
  /\ UNCHANGED <<work, res, wall>>

\* published or content_limit, moved by a cron that read catalog.
UpdatePatch ==
  /\ patch /\ EnqueueIf(kind = "game" \/ res # Absent) /\ Change
  /\ UNCHANGED <<work, patch, res, wall>>

WriteResource ==
  /\ kind = "resource"
  /\ IF res = Absent THEN res' = [status |-> "normal", name |-> 1]
     ELSE res' \in {Absent, [res EXCEPT !.name = 2]}
                   \cup {[res EXCEPT !.status = s] : s \in {"normal", "disabled", "hidden"}}
  /\ res' # res
  /\ Enqueue /\ Change
  /\ UNCHANGED <<work, patch, wall>>

\* Catalog renames, rates, hides or restores the work: nothing is enqueued.
CatalogChange ==
  /\ work' \in {0, 1, 2} \ {work} /\ Change
  /\ UNCHANGED <<patch, res, wall, queued, tick>>

\* A comment on the wall; queueing its anchor is best effort.
Comment ==
  /\ Current # NoPage /\ wall' = TRUE /\ Change
  /\ EnqueueUnpresented \/ UNCHANGED queued
  /\ UNCHANGED <<work, patch, res, tick>>

-----------------------------------------------------------------------------
(* RunPresentationsOnce *)

Tick(d, t) == /\ tick' = [tick EXCEPT ![d] = t]
              /\ UNCHANGED <<page, wire, listing, changes>>

\* The revision is stamped before the reads.
Claim(d) ==
  /\ tick[d].pc = "idle" /\ queued /\ clock < MaxRevision
  /\ clock' = clock + 1
  /\ Tick(d, [Idle EXCEPT !.pc = "claimed", !.rev = clock'])
  /\ UNCHANGED <<queued, sent, comm, faults>>

ReadResources(d) ==
  /\ tick[d].pc = "claimed"
  /\ Tick(d, [tick[d] EXCEPT !.pc = "rows", !.row = res])
  /\ UNCHANGED <<queued, sent, comm, clock, faults>>

\* The works, the ledger, and the item: the page, or a tombstone if community
\* holds the anchor live, or none.
Build(d) ==
  LET shows == Page(tick[d].row) IN
  /\ tick[d].pc = "rows"
  /\ Tick(d, [tick[d] EXCEPT !.pc = "built", !.row = Absent, !.item =
       IF shows = NoPage /\ Unpresented THEN NoRow ELSE [rev |-> tick[d].rev, shows |-> shows]])
  /\ UNCHANGED <<queued, sent, comm, clock, faults>>

\* External: community keeps the newest revision and answers stale to others.
Stored(item) == IF item.rev > comm.rev THEN item ELSE comm

\* sendPresentations.  Community answers accepted or stale, or refuses the
\* item, which is dropped; only what it accepted goes on.
Write(d) ==
  /\ tick[d].pc = "built"
  /\ \/ /\ comm' = Stored(tick[d].item) /\ UNCHANGED faults
     \/ /\ tick[d].item # NoRow /\ faults < MaxFault
        /\ faults' = faults + 1 /\ UNCHANGED comm
  /\ Tick(d, [tick[d] EXCEPT !.pc = "written",
                              !.item = IF comm' # comm THEN @ ELSE NoRow])
  /\ UNCHANGED <<queued, sent, clock>>

\* recordPresentations: an older revision never replaces a newer one.
Newest(item) == IF item.rev >= sent.rev THEN item ELSE sent

Record(d) ==
  /\ tick[d].pc = "written"
  /\ sent' = Newest(tick[d].item)
  /\ Tick(d, [tick[d] EXCEPT !.pc = "recorded", !.item = NoRow])
  /\ UNCHANGED <<queued, comm, clock, faults>>

\* ackPresentations: the row, unless it was enqueued again.  Another drainer's
\* claim of it no longer finds it.
Ack(d) ==
  /\ tick[d].pc = "recorded"
  /\ queued' = (queued /\ tick[d].moved)
  /\ tick' = [e \in Drainers |->
       IF e = d THEN Idle
       ELSE [tick[e] EXCEPT !.moved = @ \/ (~queued' /\ tick[e].pc # "idle")]]
  /\ UNCHANGED <<page, sent, comm, wire, listing, clock, changes, faults>>

Fault == /\ faults < MaxFault /\ faults' = faults + 1
         /\ UNCHANGED <<page, sent, comm, listing, clock, changes>>

\* An error, a timeout or a crash.
Fail(d) ==
  /\ tick[d].pc # "idle" /\ Fault
  /\ tick' = [tick EXCEPT ![d] = Idle]
  /\ UNCHANGED <<queued, wire>>

\* A restart, and the sweep of the game walls it starts with (PresentWalls).
Restart(d) ==
  /\ wall /\ kind = "game" /\ Fault
  /\ tick' = [tick EXCEPT ![d] = Idle]
  /\ EnqueueUnpresented
  /\ UNCHANGED wire

WriteLost(d) ==
  /\ tick[d].pc = "built" /\ tick[d].item # NoRow /\ Fault
  /\ wire' = wire \cup {tick[d].item}
  /\ tick' = [tick EXCEPT ![d] = Idle]
  /\ UNCHANGED queued

Land(item) ==
  /\ wire' = wire \ {item} /\ comm' = Stored(item)
  /\ UNCHANGED <<page, queued, sent, tick, listing, clock, changes, faults>>

-----------------------------------------------------------------------------
(* ReconcilePresentations *)

\* Mutant of Ledger: what community lists is not taken into the ledger.
LedgerKept == sent
\* loadStoredPresentations, then the listing into the ledger.
Ledger == IF comm.rev # 0 THEN Newest(comm) ELSE sent

RecList ==
  /\ ~listing.on
  /\ listing' = [on |-> TRUE, some |-> comm.rev # 0, shows |-> comm.shows]
  /\ sent' = Ledger
  /\ UNCHANGED <<page, queued, comm, wire, tick, clock, changes, faults>>

\* localAnchors: the game pages with a patch row, the resources, and the game
\* walls community holds a comment on.
Local == IF kind = "game" THEN patch \/ wall ELSE res # Absent

RecCompare ==
  /\ listing.on
  /\ EnqueueIf((Local \/ listing.some) /\ listing.shows # Current)
  /\ listing' = Unlisted
  /\ UNCHANGED <<page, sent, comm, wire, clock, changes, faults>>

-----------------------------------------------------------------------------
(* Migration 045 enqueues every row it finds. *)

Init ==
  /\ kind \in {"game", "resource"} /\ work = 1 /\ patch \in BOOLEAN /\ wall = FALSE
  /\ kind = "resource" => patch
  /\ res \in {Absent} \cup IF kind = "game" THEN {} ELSE {[status |-> "normal", name |-> 1]}
  /\ queued = Local
  /\ sent = NoRow /\ comm = NoRow /\ wire = {}
  /\ tick = [d \in Drainers |-> Idle] /\ listing = Unlisted
  /\ clock = 0 /\ changes = 0 /\ faults = 0

TickStep(d) == Claim(d) \/ ReadResources(d) \/ Build(d) \/ Write(d) \/ Record(d) \/ Ack(d)
RecStep == RecList \/ RecCompare

Next ==
  \/ InsertPatch \/ DeletePatch \/ UpdatePatch \/ WriteResource \/ CatalogChange \/ Comment
  \/ \E d \in Drainers : TickStep(d) \/ Fail(d) \/ Restart(d) \/ WriteLost(d)
  \/ \E item \in wire : Land(item)
  \/ RecStep

Fairness == WF_vars(RecStep) /\ \A d \in Drainers : WF_vars(TickStep(d))
Spec == Init /\ [][Next]_vars /\ Fairness

-----------------------------------------------------------------------------
Shows == {NoPage} \cup (1..2) \X (0..2)
Rows == [rev : 0..MaxRevision, shows : Shows]

TypeOK ==
  /\ kind \in {"game", "resource"} /\ work \in 0..2 /\ patch \in BOOLEAN
  /\ wall \in BOOLEAN /\ queued \in BOOLEAN
  /\ res \in {Absent} \cup [status : {"normal", "disabled", "hidden"}, name : {1, 2}]
  /\ sent \in Rows /\ comm \in Rows /\ wire \subseteq Rows \ {NoRow}
  /\ \A d \in Drainers : tick[d].item \in Rows /\ tick[d].moved \in BOOLEAN
  /\ listing \in [on : BOOLEAN, some : BOOLEAN, shows : Shows]
  /\ clock \in 0..MaxRevision /\ changes \in 0..MaxChange /\ faults \in 0..MaxFault

\* Where every behaviour settles: a wall this site or community knows is presented
\* as the page it is on now, and one whose page is gone is withdrawn, whatever
\* write was lost, landed late or was never recorded.  A withdrawal needs the
\* ledger, which the reconcile mends from what community lists.
PresentationsFollow == Local \/ comm.rev # 0 => comm.shows = Current
=============================================================================
