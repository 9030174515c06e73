------------------------------ MODULE DisplayMirror ------------------------------
(***************************************************************************)
(* Catalog's display verdict and its deletions, mirrored onto the pages:   *)
(* internal/infrastructure/cron/catalog_mirror_sync.go and                 *)
(* catalog_deletion_mirror.go, over the feed of pkg/catalogv2/changes.go.  *)
(*                                                                         *)
(* Catalog lists a work again at the tail of its feed whenever its verdict *)
(* or its existence changes.  A tick takes the feed page by page; of each  *)
(* it asks catalog the verdicts of the live works and whether the gone     *)
(* ones were deleted, so what it writes may be older than catalog by then. *)
(*                                                                         *)
(* Abstractions.  One tick at a time: its context ends with its period.    *)
(* "gone" is hidden or merged away.  The fill takes every page (the code   *)
(* the newest 500).  Merged pages are in CatalogMerge.                     *)
(* History variable: late.                                                 *)
(***************************************************************************)
EXTENDS Naturals, FiniteSets, Sequences, FiniteSetsExt, SequencesExt

CONSTANTS
  Works,      \* catalog work ids
  PageSize,   \* mirrorSyncPageSize
  MaxChange,  \* bound: changes in catalog
  MaxFail     \* bound: ticks that fail

VARIABLES
  work,     \* external: a work's condition and its display verdict
  listed,   \* external: its place on the feed, the last change highest
  page,     \* patch: content_limit and catalog_deleted_at of the pages
  opening,  \* pages being created: catalog knew the work
  late,     \* pages inserted when catalog had already deleted the work
  cursor,   \* cron_state.last_cursor
  tick,     \* RunCatalogMirrorSync
  failed    \* ticks that failed so far

vars == <<work, listed, page, opening, late, cursor, tick, failed>>

Limits == {"sfw", "nsfw"}
Idle == [at |-> "idle", live |-> {}, gone |-> {}, next |-> 0,
         verdicts |-> [w \in {} |-> "sfw"], dead |-> {}]

-----------------------------------------------------------------------------
(* Catalog. *)

Change(w, is, limit) ==
  /\ Max(Range(listed)) < Cardinality(Works) + MaxChange
  /\ work[w] # [is |-> is, limit |-> limit]
  /\ work' = [work EXCEPT ![w] = [is |-> is, limit |-> limit]]
  /\ listed' = [listed EXCEPT ![w] = Max(Range(listed)) + 1]
  /\ UNCHANGED <<page, opening, late, cursor, tick, failed>>

\* Hydration answers the live works of ids.
Hydrated(ids) == [w \in {x \in ids : work[x].is = "live"} |-> work[w].limit]

-----------------------------------------------------------------------------
(* Pages: a stub, a first publish, an import. *)

LookUp(w) ==
  /\ w \notin DOMAIN page /\ work[w].is = "live"
  /\ opening' = opening \cup {w}
  /\ UNCHANGED <<work, listed, page, late, cursor, tick, failed>>

CreatePage(w) ==
  /\ w \in opening /\ opening' = opening \ {w}
  /\ page' = [x \in DOMAIN page \cup {w} |->
                IF x = w THEN [limit |-> "null", deleted |-> FALSE] ELSE page[x]]
  /\ late' = IF work[w].is = "deleted" THEN late \cup {w} ELSE late
  /\ UNCHANGED <<work, listed, cursor, tick, failed>>

-----------------------------------------------------------------------------
(* The tick. *)

\* A page of the feed, oldest change first; only a full one has a cursor.
Feed == LET rows == SortSeq(SetToSeq({w \in Works : listed[w] > cursor}),
                            LAMBDA a, b : listed[a] < listed[b])
        IN  SubSeq(rows, 1, IF Len(rows) < PageSize THEN Len(rows) ELSE PageSize)
NextCursor == IF Len(Feed) < PageSize THEN 0 ELSE listed[Feed[PageSize]]

\* Mutant of Fetch: the watermark is saved with the fetch.
FetchAhead ==
  /\ tick.at = "idle"
  /\ tick' = [Idle EXCEPT !.at = "fetched", !.next = NextCursor,
                !.live = {w \in Range(Feed) : work[w].is = "live"},
                !.gone = {w \in Range(Feed) : work[w].is # "live"}]
  /\ cursor' = IF NextCursor = 0 THEN cursor ELSE NextCursor
  /\ UNCHANGED <<work, listed, page, opening, late, failed>>

Fetch ==
  /\ tick.at = "idle"
  /\ tick' = [Idle EXCEPT !.at = "fetched", !.next = NextCursor,
                !.live = {w \in Range(Feed) : work[w].is = "live"},
                !.gone = {w \in Range(Feed) : work[w].is # "live"}]
  /\ UNCHANGED <<work, listed, page, opening, late, cursor, failed>>

Hydrate ==
  /\ tick.at = "fetched"
  /\ tick' = [tick EXCEPT !.at = "hydrated", !.verdicts = Hydrated(tick.live)]
  /\ UNCHANGED <<work, listed, page, opening, late, cursor, failed>>

Limited(verdicts) ==
  [w \in DOMAIN page |-> IF w \in DOMAIN verdicts THEN [page[w] EXCEPT !.limit = verdicts[w]]
                         ELSE page[w]]

\* The verdicts and clearRestoredPages; then the pages to ask about.
WriteLive ==
  /\ tick.at = "hydrated"
  /\ page' = [w \in DOMAIN page |-> IF w \in tick.live THEN [Limited(tick.verdicts)[w] EXCEPT !.deleted = FALSE]
                                    ELSE Limited(tick.verdicts)[w]]
  /\ tick' = [tick EXCEPT !.at = "marking",
                !.gone = {w \in @ \cap DOMAIN page : ~page[w].deleted}]
  /\ UNCHANGED <<work, listed, opening, late, cursor, failed>>

\* WorkDeletion: merged away and not found are not deletions.
Ask(w) ==
  /\ tick.at = "marking" /\ tick.dead = {} /\ w \in tick.gone
  /\ tick' = [tick EXCEPT !.gone = @ \ {w},
                !.dead = IF work[w].is = "deleted" THEN {w} ELSE {}]
  /\ UNCHANGED <<work, listed, page, opening, late, cursor, failed>>

Stamp(w) ==
  /\ tick.at = "marking" /\ w \in tick.dead
  /\ page' = [page EXCEPT ![w].deleted = TRUE]
  /\ tick' = [tick EXCEPT !.dead = {}]
  /\ UNCHANGED <<work, listed, opening, late, cursor, failed>>

\* The page is done: on to the next one, or to the pages the feed has passed.
EndPage ==
  /\ tick.at = "marking" /\ tick.gone = {} /\ tick.dead = {}
  /\ IF tick.next # 0
     THEN cursor' = tick.next /\ tick' = Idle
     ELSE UNCHANGED cursor /\ tick' = [Idle EXCEPT !.at = "fill"]
  /\ UNCHANGED <<work, listed, page, opening, late, failed>>

HydrateUnmirrored ==
  /\ tick.at = "fill"
  /\ tick' = [tick EXCEPT !.at = "filling",
                !.verdicts = Hydrated({w \in DOMAIN page : page[w] = [limit |-> "null", deleted |-> FALSE]})]
  /\ UNCHANGED <<work, listed, page, opening, late, cursor, failed>>

Fill ==
  /\ tick.at = "filling"
  /\ page' = Limited(tick.verdicts) /\ tick' = Idle
  /\ UNCHANGED <<work, listed, opening, late, cursor, failed>>

\* A call fails or the process dies.
Fail ==
  /\ tick.at # "idle" /\ failed < MaxFail
  /\ failed' = failed + 1 /\ tick' = Idle
  /\ UNCHANGED <<work, listed, page, opening, late, cursor>>

-----------------------------------------------------------------------------
Init ==
  /\ work \in [Works -> [is : {"live"}, limit : {"sfw"}]]
  /\ listed = [w \in Works |-> Cardinality({x \in Works : x <= w})]
  /\ page = [w \in {} |-> Idle] /\ opening = {} /\ late = {}
  /\ cursor = 0 /\ tick = Idle /\ failed = 0

Step == \/ Fetch \/ Hydrate \/ WriteLive \/ EndPage \/ HydrateUnmirrored \/ Fill
        \/ \E w \in Works : Ask(w) \/ Stamp(w)

Next ==
  \/ Step \/ Fail
  \/ \E w \in Works : LookUp(w) \/ CreatePage(w)
  \/ \E w \in Works, is \in {"live", "gone", "deleted"}, limit \in Limits : Change(w, is, limit)

Fairness == WF_vars(Step)
Spec == Init /\ [][Next]_vars /\ Fairness

-----------------------------------------------------------------------------
TypeOK ==
  /\ work \in [Works -> [is : {"live", "gone", "deleted"}, limit : Limits]]
  /\ listed \in [Works -> 1..Cardinality(Works) + MaxChange]
  /\ DOMAIN page \subseteq Works
  /\ \A w \in DOMAIN page : page[w] \in [limit : Limits \cup {"null"}, deleted : BOOLEAN]
  /\ opening \subseteq Works /\ late \subseteq Works
  /\ cursor \in Nat /\ failed \in 0..MaxFail
  /\ tick.at \in {"idle", "fetched", "hydrated", "marking", "fill", "filling"}

\* Where every behaviour settles: whatever moved in catalog between a question and
\* its answer's write, and whenever a page was created, its page ends with
\* catalog's verdict and with a stamp exactly if catalog deleted the work.
MirrorsCatalog ==
  \A w \in DOMAIN page :
    /\ work[w].is = "live" => page[w] = [limit |-> work[w].limit, deleted |-> FALSE]
    /\ work[w].is = "deleted" /\ w \notin late => page[w].deleted
=============================================================================
