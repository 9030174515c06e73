------------------------------ MODULE MCServices ------------------------------
(***************************************************************************)
(* The components that serve readers, each for TLC: a page with its        *)
(* resources, its wall, a chat room and the feed of resource changes.      *)
(* They share no state; one runs in a behaviour and the others stay as     *)
(* they start.  ChangeFeed is extended, the others are instances.          *)
(***************************************************************************)
EXTENDS ChangeFeed, TLC

CONSTANTS
  Parts,                  \* the components a run is about
  Calls, Users,           \* of the instances below
  MaxPost, MaxReq, MaxFault,
  Pair, Moderators, Reader, MaxMsg, MaxActs,  \* of ChatRoom
  Facets                  \* of PatchPage

ASSUME ServicesAssumption ==
  /\ IsFiniteSet(Calls) /\ Pair \subseteq Users
  /\ PageSize \in Nat /\ MaxPost \in Nat /\ MaxReq \in Nat /\ MaxFault \in Nat
  /\ MaxMsg \in Nat /\ MaxActs \in Nat
  /\ Users # {} /\ Facets # {}

VARIABLES
  part,  \* which component runs
  c_room, c_msgs, c_next, c_reactions, c_seen, c_texts, c_acts, c_moved,
  c_call, c_view, c_copied, c_late, c_overtaken, c_crossed, c_skipped,
  w_post, w_liked, w_paid, w_count, w_row, w_contrib, w_mirror, w_notices,
  w_call, w_reqs, w_faults, w_ups, w_askew, w_unpaid, w_overlap, w_doubled,
  g_page, g_contrib, g_res, g_liked, g_store, g_owed, g_paid, g_call, g_reqs,
  g_faults, g_gave, g_hidden, g_torn, g_left, g_askew, g_raced, g_unpaid

\* Calls and resources are interchangeable.
Symmetry == Permutations(Calls) \cup Permutations(Resources)

Chat == INSTANCE ChatRoom WITH
  room <- c_room, msgs <- c_msgs, next <- c_next, reactions <- c_reactions,
  seen <- c_seen, texts <- c_texts, acts <- c_acts, moved <- c_moved,
  call <- c_call, view <- c_view, copied <- c_copied, late <- c_late,
  overtaken <- c_overtaken, crossed <- c_crossed, skipped <- c_skipped
chatVars == <<c_room, c_msgs, c_next, c_reactions, c_seen, c_texts, c_acts,
  c_moved, c_call, c_view, c_copied, c_late, c_overtaken, c_crossed, c_skipped>>

Wall == INSTANCE CommentWall WITH
  post <- w_post, liked <- w_liked, paid <- w_paid, count <- w_count,
  row <- w_row, contrib <- w_contrib, mirror <- w_mirror,
  notices <- w_notices, call <- w_call, reqs <- w_reqs, faults <- w_faults,
  ups <- w_ups, askew <- w_askew, unpaid <- w_unpaid, overlap <- w_overlap,
  doubled <- w_doubled
wallVars == <<w_post, w_liked, w_paid, w_count, w_row, w_contrib, w_mirror,
  w_notices, w_call, w_reqs, w_faults, w_ups, w_askew, w_unpaid, w_overlap,
  w_doubled>>

Site == INSTANCE PatchPage WITH
  page <- g_page, contrib <- g_contrib, res <- g_res, liked <- g_liked,
  store <- g_store, owed <- g_owed, paid <- g_paid, call <- g_call,
  reqs <- g_reqs, faults <- g_faults, gave <- g_gave, hidden <- g_hidden,
  torn <- g_torn, left <- g_left, askew <- g_askew, raced <- g_raced,
  unpaid <- g_unpaid
siteVars == <<g_page, g_contrib, g_res, g_liked, g_store, g_owed, g_paid, g_call,
  g_reqs, g_faults, g_gave, g_hidden, g_torn, g_left, g_askew, g_raced, g_unpaid>>

-----------------------------------------------------------------------------
allVars == <<part, vars, chatVars, wallVars, siteVars>>

InitOfOne ==
  /\ part \in Parts
  /\ Init /\ Wall!Init
  /\ Chat!Init /\ (part # "chat" => c_room.type = "GROUP")
  /\ Site!Init /\ (part # "page" => g_page.at = "none")

FeedOnly == UNCHANGED <<part, chatVars, wallVars, siteVars>>
ChatOnly == UNCHANGED <<part, vars, wallVars, siteVars>>
WallOnly == UNCHANGED <<part, vars, chatVars, siteVars>>
SiteOnly == UNCHANGED <<part, vars, chatVars, wallVars>>

NextOfOne ==
  \/ part = "feed" /\ Next /\ FeedOnly
  \/ part = "chat" /\ Chat!Next /\ ChatOnly
  \/ part = "wall" /\ Wall!Next /\ WallOnly
  \/ part = "page" /\ Site!Next /\ SiteOnly

SpecOfOne == InitOfOne /\ [][NextOfOne]_allVars

-----------------------------------------------------------------------------
\* The state of the component that runs has its shape (a page: PageKept).
Shapes ==
  /\ part = "feed" => TypeOK
  /\ part = "chat" => Chat!TypeOK
  /\ part = "wall" => Wall!TypeOK

\* Withdrawn messages stay so, and neither the history of edits, the page nor
\* the move loses any (ChatRoom).
ChatKept == part = "chat" => Chat!ChatKept

\* The counters, awards and notices of a wall settle (CommentWall).
WallKept == part = "wall" => Wall!WallKept

\* A page has its shape, and its rows, counters, files and hides settle
\* (PatchPage).
PageKept == part = "page" => Site!TypeOK /\ Site!PageKept
=============================================================================
