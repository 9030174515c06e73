----------------------------- MODULE MCFollowers ------------------------------
(***************************************************************************)
(* The components that follow what somebody else holds, each for TLC:      *)
(* catalog's claims and its works, NextMoe's ratings, and the walls that   *)
(* community has to know.  They share no state; one runs in a behaviour    *)
(* and the others stay as they start.  The one that is proved about,       *)
(* ClaimSync, is extended, the others are instances.                       *)
(***************************************************************************)
EXTENDS ClaimSync

CONSTANTS c1, c2, d1

VARIABLES
  part,  \* which component runs
  d_work, d_listed, d_page, d_opening, d_late, d_cursor, d_tick, d_failed,
  r_rating, r_row, r_cursor, r_sync, r_call, r_failed, r_behind,
  a_kind, a_work, a_patch, a_res, a_wall, a_queued, a_sent, a_comm, a_wire,
  a_tick, a_listing, a_clock, a_changes, a_faults

Display == INSTANCE DisplayMirror WITH
  Works <- {1, 2}, PageSize <- 1, MaxChange <- 2, MaxFail <- 1,
  work <- d_work, listed <- d_listed, page <- d_page, opening <- d_opening,
  late <- d_late, cursor <- d_cursor, tick <- d_tick, failed <- d_failed
displayVars == <<d_work, d_listed, d_page, d_opening, d_late, d_cursor, d_tick,
  d_failed>>

Ratings == INSTANCE RatingMirror WITH
  Ids <- {1, 2, 3}, Calls <- {c1, c2}, PageSize <- 1, MaxChange <- 4,
  MaxFail <- 1,
  rating <- r_rating, row <- r_row, cursor <- r_cursor, sync <- r_sync,
  call <- r_call, failed <- r_failed, behind <- r_behind
ratingsVars == <<r_rating, r_row, r_cursor, r_sync, r_call, r_failed,
  r_behind>>

Walls == INSTANCE AnchorPresentation WITH
  Drainers <- {d1}, MaxChange <- 2, MaxRevision <- 8, MaxFault <- 1,
  kind <- a_kind, work <- a_work, patch <- a_patch, res <- a_res,
  wall <- a_wall, queued <- a_queued, sent <- a_sent, comm <- a_comm,
  wire <- a_wire, tick <- a_tick, listing <- a_listing, clock <- a_clock,
  changes <- a_changes, faults <- a_faults
wallsVars == <<a_kind, a_work, a_patch, a_res, a_wall, a_queued, a_sent,
  a_comm, a_wire, a_tick, a_listing, a_clock, a_changes, a_faults>>

-----------------------------------------------------------------------------
allVars == <<part, vars, displayVars, ratingsVars, wallsVars>>

InitOfOne ==
  /\ part \in {"claims", "display", "ratings", "walls"}
  /\ Init
  /\ Display!Init
  /\ Ratings!Init
  /\ Walls!Init /\ (part # "walls" => a_kind = "game" /\ ~a_patch)

ClaimsOnly == UNCHANGED <<part, displayVars, ratingsVars, wallsVars>>
DisplayOnly == UNCHANGED <<part, vars, ratingsVars, wallsVars>>
RatingsOnly == UNCHANGED <<part, vars, displayVars, wallsVars>>
WallsOnly == UNCHANGED <<part, vars, displayVars, ratingsVars>>

NextOfOne ==
  \/ part = "claims" /\ Next /\ ClaimsOnly
  \/ part = "display" /\ Display!Next /\ DisplayOnly
  \/ part = "ratings" /\ Ratings!Next /\ RatingsOnly
  \/ part = "walls" /\ Walls!Next /\ WallsOnly

\* One component runs, so one condition serves them all; the reconcile of the
\* walls is always enabled and needs its own.
OneWorks ==
  \/ part = "claims" /\ (Seed \/ \E s \in Syncs : Step(s)) /\ ClaimsOnly
  \/ part = "display" /\ Display!Step /\ DisplayOnly
  \/ part = "ratings" /\ Ratings!Step /\ RatingsOnly
  \/ part = "walls" /\ Walls!TickStep(d1) /\ WallsOnly
Reconciles == part = "walls" /\ Walls!RecStep /\ WallsOnly
FairnessOfOne == WF_allVars(OneWorks) /\ WF_allVars(Reconciles)

SpecOfOne == InitOfOne /\ [][NextOfOne]_allVars /\ FairnessOfOne

-----------------------------------------------------------------------------
\* The state of the component that runs has its shape.
Shapes ==
  /\ part = "claims" => TypeOK
  /\ part = "display" => Display!TypeOK
  /\ part = "ratings" => Ratings!TypeOK
  /\ part = "walls" => Walls!TypeOK

\* Whatever overlaps, fails and dies, what follows catches up for good: the claim
\* events are read to their end, every page has catalog's verdict, the copy of the
\* ratings is NextMoe's, and every known wall is presented as the page it is on.
\* (One temporal property: it costs one tableau.)
AllFollowed ==
  <>[] /\ part = "claims" => EventsFollowed
       /\ part = "display" => Display!MirrorsCatalog
       /\ part = "ratings" => Ratings!MirrorsRatings
       /\ part = "walls" => Walls!PresentationsFollow
=============================================================================
