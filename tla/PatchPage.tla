------------------------------- MODULE PatchPage -------------------------------
(***************************************************************************)
(* One page and its resources: the requests of internal/patch that create, *)
(* adopt, claim and delete the page, that publish, edit, delete and        *)
(* disable a resource, and that like one, each with everything it settles  *)
(* after its first write: counters, facets, contributors, files, awards.   *)
(*                                                                         *)
(* A page exists before anyone publishes it, as a stub, when an            *)
(* interaction needs its row.  Requests run side by side and none takes a  *)
(* lock; a request may die after any of its steps.                         *)
(*                                                                         *)
(* Abstractions.  A resource has one facet and a file of its own, stored   *)
(* under its name; ArtifactLifecycle models edits that replace the file.   *)
(* One reader likes, and owns no resource.  Downloads, favourites, views   *)
(* and the order of the list change no row another request settles; who    *)
(* may act, the notices and the dates are left out, and so is the          *)
(* published flag (ClaimSync).  History variables: gave, hidden, torn,     *)
(* left, askew, raced, unpaid.                                             *)
(***************************************************************************)
EXTENDS Integers, FiniteSets

CONSTANTS
  Users,      \* who create pages and publish
  Resources,
  Facets,     \* what a resource is: types, languages, platforms
  Calls,      \* requests that may run at once
  MaxReq,     \* bound: requests made
  MaxFault    \* bound: requests dead, calls of other services failed

VARIABLES
  page,     \* the patch row
  contrib,  \* user_patch_contribute_relation: its users
  res,      \* patch_resource
  liked,    \* the reader's like row of a resource, 0 if there is none
  store,    \* external: the files the artifact service holds
  owed,     \* awards that are on their way
  paid,     \* external: the ledger's keys
  call,     \* what a request is at
  reqs,     \* requests made
  faults,
  gave,     \* users this row of the page was given to
  hidden,   \* resources moderation hid and did not restore
  torn,     \* resources whose row was overwritten with another one
  left,     \* files a delete did not reach
  askew,    \* a cause that leaves a counter of the page wrong has happened
  raced,    \* two requests derived the facets at once
  unpaid    \* an award was lost

rows == <<page, contrib, res, liked>>
ledger == <<owed, paid>>
bounds == <<reqs, faults>>
history == <<gave, hidden, torn, left, askew, raced, unpaid>>
vars == <<rows, store, ledger, call, bounds, history>>

NoUser == 0
NoPage == [at |-> "none", by |-> NoUser, resources |-> 0, contributors |-> 0, facets |-> {}]
Published(f) == [at |-> "here", status |-> 0, likes |-> 0, facet |-> f]
Unborn == [Published(CHOOSE f \in Facets : TRUE) EXCEPT !.at = "none"]
NoCall == [at |-> "idle", op |-> "none", by |-> NoUser, r |-> {}, n |-> 0, row |-> <<>>, set |-> {}]

Here == {r \in Resources : res[r].at = "here"}
Exists == page.at # "none"
FacetsOf(R) == {res[r].facet : r \in R}

-----------------------------------------------------------------------------
(* The steps of a request. *)

Of(c) == CHOOSE r \in Resources : r \in call[c].r

Begin(c, rec) ==
  /\ call[c] = NoCall /\ reqs < MaxReq /\ reqs' = reqs + 1
  /\ call' = [call EXCEPT ![c] = rec]
  /\ UNCHANGED <<rows, store, ledger, faults, history>>

Goes(c, step) == call' = [call EXCEPT ![c].at = step]
Answered(c) == call' = [call EXCEPT ![c] = NoCall]
Fault == faults < MaxFault /\ faults' = faults + 1
Owes(event, id) == owed' = owed \cup {<<event, id>>}

\* Requests that will yet write to the row of the page they began with: if it
\* is deleted and another takes its id, they write to that one.
Settling == {c \in Calls : call[c].at \in {"count", "write", "contributor", "unstore", "uncount"}}

OnThePage(change) == page' = IF Exists THEN change ELSE page

-----------------------------------------------------------------------------
(* The page: createPatchRow, adoptStub, RegisterClaimedGalgame. *)

\* What is done is decided by the row that was read.
CreatePatch(c, u) ==
  /\ page.at # "own"
  /\ Begin(c, [NoCall EXCEPT !.by = u, !.op = "create",
                             !.at = IF page.at = "stub" THEN "adopt" ELSE "insert"])

\* A page that exists, be it a stub, is left as it is.
RegisterClaimedGalgame(c, u) ==
  ~Exists /\ Begin(c, [NoCall EXCEPT !.by = u, !.op = "claim", !.at = "insert"])

\* The page, its first contributor and the count in one transaction, which
\* fails if the row has come since.
InsertPage(c) ==
  LET u == call[c].by IN
  /\ call[c].at = "insert" /\ Answered(c)
  /\ IF Exists THEN UNCHANGED <<page, contrib, owed, gave, askew>>
     ELSE /\ page' = [NoPage EXCEPT !.at = "own", !.by = u, !.contributors = 1]
          /\ contrib' = {u} /\ gave' = {u} /\ Owes(call[c].op, {})
          /\ askew' = (askew \/ Settling # {})
  /\ UNCHANGED <<res, liked, store, paid, bounds, hidden, torn, left, raced, unpaid>>

Adopt(c, may) ==
  LET u == call[c].by IN
  /\ call[c].at = "adopt" /\ Answered(c)
  /\ IF ~may THEN UNCHANGED <<page, contrib, owed, gave>>
     ELSE /\ page' = [page EXCEPT !.at = "own", !.by = u,
                                  !.contributors = @ + IF u \in contrib THEN 0 ELSE 1]
          /\ contrib' = contrib \cup {u} /\ gave' = gave \cup {u} /\ Owes("create", {})
  /\ UNCHANGED <<res, liked, store, paid, bounds, hidden, torn, left, askew, raced, unpaid>>

\* Mutant of AdoptStub: the update does not ask for a stub.
AdoptAny(c) == Adopt(c, Exists)
\* Of those who saw the stub, the one whose update finds it adopts it.
AdoptStub(c) == Adopt(c, page.at = "stub")

\* The files are listed, the page and all of its rows deleted in a transaction,
\* and the files that were listed deleted; a list that fails is an empty one.
DeletePatch(c) == Exists /\ Begin(c, [NoCall EXCEPT !.op = "erase", !.at = "list"])

ListArtifacts(c) ==
  /\ call[c].at = "list"
  /\ \/ call' = [call EXCEPT ![c].at = "erase", ![c].set = Here] /\ UNCHANGED faults
     \/ Fault /\ Goes(c, "erase")
  /\ UNCHANGED <<rows, store, ledger, reqs, history>>

ErasePage(c) ==
  /\ call[c].at = "erase" /\ Goes(c, "sweep")
  /\ left' = left \cup (Here \ call[c].set)
  /\ res' = [r \in Resources |-> IF r \in Here THEN [res[r] EXCEPT !.at = "gone"] ELSE res[r]]
  /\ liked' = [r \in Resources |-> 0] /\ contrib' = {} /\ page' = NoPage /\ gave' = {}
  /\ UNCHANGED <<store, ledger, bounds, hidden, torn, askew, raced, unpaid>>

SoftDeleteArtifacts(c) ==
  /\ call[c].at = "sweep" /\ Answered(c)
  /\ \/ store' = store \ call[c].set /\ UNCHANGED <<faults, left>>
     \/ /\ Fault
        /\ \E r \in call[c].set : store' = store \ (call[c].set \ {r}) /\ left' = left \cup {r}
  /\ UNCHANGED <<rows, ledger, reqs, gave, hidden, torn, askew, raced, unpaid>>

-----------------------------------------------------------------------------
(* CreateResource. *)

Unused(r) == res[r].at = "none" /\ \A c \in Calls : r \notin call[c].r

CreateResource(c, u, r) ==
  /\ Unused(r)
  /\ Begin(c, [NoCall EXCEPT !.op = "publish", !.by = u, !.r = {r},
                             !.at = IF Exists THEN "post" ELSE "stub"])

\* ensureLocalPatch: a stub in the name of whoever asks.
InsertStub(c) ==
  /\ call[c].at = "stub" /\ Goes(c, "post")
  /\ page' = IF Exists THEN page ELSE [NoPage EXCEPT !.at = "stub", !.by = call[c].by]
  /\ askew' = (askew \/ (~Exists /\ Settling # {}))
  /\ UNCHANGED <<contrib, res, liked, store, ledger, bounds, gave, hidden, torn, left, raced,
                 unpaid>>

\* The row needs its page; its file has been uploaded.
InsertResource(c, f) ==
  /\ call[c].at = "post"
  /\ IF Exists THEN /\ res' = [res EXCEPT ![Of(c)] = Published(f)]
                    /\ store' = store \cup {Of(c)} /\ Goes(c, "count")
     ELSE Answered(c) /\ UNCHANGED <<res, store>>
  /\ UNCHANGED <<page, contrib, liked, ledger, bounds, history>>

\* UpdateCount, up.
Count(c) ==
  /\ call[c].at = "count" /\ Goes(c, "gather")
  /\ OnThePage([page EXCEPT !.resources = @ + 1])
  /\ UNCHANGED <<contrib, res, liked, store, ledger, bounds, history>>

\* RecalculatePatchAggregates reads the resources, the hidden ones too,
Gather(c) ==
  /\ call[c].at = "gather"
  /\ call' = [call EXCEPT ![c].at = "write", ![c].set = FacetsOf(Here)]
  /\ raced' = (raced \/ \E o \in Calls : call[o].at = "write")
  /\ UNCHANGED <<rows, store, ledger, bounds, gave, hidden, torn, left, askew, unpaid>>

\* and writes what they come to.  A delete takes its points back next.
WriteFacets(c) ==
  /\ call[c].at = "write"
  /\ OnThePage([page EXCEPT !.facets = call[c].set])
  /\ IF call[c].op = "publish" THEN Goes(c, "index") ELSE Answered(c)
  /\ IF call[c].op = "delete" THEN Owes("delete", call[c].r) ELSE UNCHANGED owed
  /\ UNCHANGED <<contrib, res, liked, store, paid, bounds, history>>

\* A resource makes a page of a stub, which stays with whom it was made for.
MarkIndexed(c) ==
  /\ call[c].at = "index" /\ Goes(c, "row") /\ Owes("publish", call[c].r)
  /\ OnThePage([page EXCEPT !.at = "own"])
  /\ UNCHANGED <<contrib, res, liked, store, paid, bounds, history>>

\* EnsureContributor: the row, and the count if the row is new.
EnsureContributor(c) ==
  LET u == call[c].by IN
  /\ call[c].at = "row"
  /\ IF Exists /\ u \notin contrib THEN contrib' = contrib \cup {u} /\ Goes(c, "contributor")
     ELSE Answered(c) /\ UNCHANGED contrib
  /\ UNCHANGED <<page, res, liked, store, ledger, bounds, history>>

CountContributor(c) ==
  /\ call[c].at = "contributor" /\ Answered(c)
  /\ OnThePage([page EXCEPT !.contributors = @ + 1])
  /\ UNCHANGED <<contrib, res, liked, store, ledger, bounds, history>>

-----------------------------------------------------------------------------
(* UpdateResource and DeleteResource. *)

UpdateResource(c, r, f) ==
  /\ r \in Here
  /\ Begin(c, [NoCall EXCEPT !.op = "edit", !.r = {r}, !.at = "save", !.row = res[r], !.set = {f}])

\* Save writes every column as it was read, and inserts the row again if it has
\* gone: only an edit that changes something has a revision to fail on.
SaveResource(c) ==
  LET r == Of(c)
      f == CHOOSE g \in Facets : g \in call[c].set
      row == [call[c].row EXCEPT !.facet = f]
      saved == r \in Here \/ (Exists /\ f = call[c].row.facet) IN
  /\ call[c].at = "save"
  /\ IF ~saved THEN Answered(c) /\ UNCHANGED <<res, torn, askew>>
     ELSE /\ res' = [res EXCEPT ![r] = row] /\ Goes(c, "gather")
          /\ torn' = IF row = [res[r] EXCEPT !.facet = f] THEN torn ELSE torn \cup {r}
          /\ askew' = (askew \/ r \notin Here)
  /\ UNCHANGED <<page, contrib, liked, store, ledger, bounds, gave, hidden, left, raced, unpaid>>

DeleteResource(c, r) ==
  r \in Here /\ Begin(c, [NoCall EXCEPT !.op = "delete", !.r = {r}, !.at = "delete"])

\* The second of two deletes finds no row.
RemoveResource(c) ==
  LET r == Of(c) IN
  /\ call[c].at = "delete"
  /\ IF r \notin Here THEN Answered(c) /\ UNCHANGED <<res, liked>>
     ELSE /\ res' = [res EXCEPT ![r].at = "gone"] /\ liked' = [liked EXCEPT ![r] = 0]
          /\ Goes(c, "unstore")
  /\ UNCHANGED <<page, contrib, store, ledger, bounds, history>>

DeleteArtifact(c) ==
  /\ call[c].at = "unstore" /\ Goes(c, "uncount")
  /\ \/ store' = store \ call[c].r /\ UNCHANGED <<faults, left>>
     \/ Fault /\ left' = left \cup call[c].r /\ UNCHANGED store
  /\ UNCHANGED <<rows, ledger, reqs, gave, hidden, torn, askew, raced, unpaid>>

\* UpdateCount, down, never under zero.
Uncount(c) ==
  /\ call[c].at = "uncount" /\ Goes(c, "gather")
  /\ OnThePage([page EXCEPT !.resources = IF @ = 0 THEN 0 ELSE @ - 1])
  /\ askew' = (askew \/ (Exists /\ page.resources = 0))
  /\ UNCHANGED <<contrib, res, liked, store, ledger, bounds, gave, hidden, torn, left, raced,
                 unpaid>>

-----------------------------------------------------------------------------
(* Likes, and who may see a resource. *)

ToggleResourceLike(c, r) ==
  r \in Here /\ Begin(c, [NoCall EXCEPT !.r = {r}, !.at = "like", !.n = liked[r]])

\* The row that was found is deleted by its id, or one is inserted if there is
\* none yet.  Only the request that changed a row settles.
WriteLike(c) ==
  LET r == Of(c)
      on == call[c].n = 0
      changes == r \in Here /\ liked[r] = call[c].n IN
  /\ call[c].at = "like"
  /\ IF ~changes THEN Answered(c) /\ UNCHANGED liked
     ELSE /\ liked' = [liked EXCEPT ![r] = IF on THEN reqs ELSE 0]
          /\ call' = [call EXCEPT ![c].at = "settle", ![c].op = IF on THEN "like" ELSE "unlike"]
  /\ UNCHANGED <<page, contrib, res, store, ledger, bounds, history>>

SettleResourceLike(c) ==
  LET r == Of(c)
      up == call[c].op = "like" IN
  /\ call[c].at = "settle" /\ Answered(c) /\ Owes(call[c].op, {r})
  /\ res' = IF r \notin Here THEN res
            ELSE [res EXCEPT ![r].likes = IF up THEN @ + 1 ELSE IF @ = 0 THEN 0 ELSE @ - 1]
  /\ torn' = IF up \/ res[r].likes > 0 THEN torn ELSE torn \cup {r}
  /\ UNCHANGED <<page, contrib, liked, store, paid, bounds, gave, hidden, left, askew, raced,
                 unpaid>>

ToggleResourceDisable(c, r) ==
  /\ r \in Here /\ res[r].status # 2
  /\ Begin(c, [NoCall EXCEPT !.r = {r}, !.at = "toggle"])

\* What moderation hid meanwhile stays hidden.
ToggleResourceStatus(c) ==
  /\ call[c].at = "toggle" /\ Answered(c)
  /\ res' = [res EXCEPT ![Of(c)].status = IF @ = 2 THEN 2 ELSE 1 - @]
  /\ UNCHANGED <<page, contrib, liked, store, ledger, bounds, history>>

\* SetResourceStatus and RestoreResourceFromModHide, one statement each.
Moderate(r, hide) ==
  /\ r \in Here /\ reqs < MaxReq /\ reqs' = reqs + 1
  /\ hide \/ res[r].status = 2
  /\ res' = [res EXCEPT ![r].status = IF hide THEN 2 ELSE 0]
  /\ hidden' = IF hide THEN hidden \cup {r} ELSE hidden \ {r}
  /\ UNCHANGED <<page, contrib, liked, store, ledger, call, faults, gave, torn, left, askew,
                 raced, unpaid>>

-----------------------------------------------------------------------------
\* An award runs beside the request; a key counts once.
Award(k) ==
  /\ k \in owed /\ owed' = owed \ {k}
  /\ \/ paid' = paid \cup {k} /\ UNCHANGED <<faults, unpaid>>
     \/ Fault /\ unpaid' = TRUE /\ UNCHANGED paid
  /\ UNCHANGED <<rows, store, call, reqs, gave, hidden, torn, left, askew, raced>>

\* The process ends, or the database refuses, between two steps.
Die(c) ==
  /\ call[c].at \in {"count", "gather", "write", "index", "row", "contributor", "unstore",
                     "uncount", "sweep", "settle"}
  /\ Fault /\ Answered(c) /\ unpaid' = TRUE
  /\ askew' = (askew \/ call[c].at \in {"count", "gather", "write", "contributor", "unstore",
                                        "uncount"})
  /\ left' = left \cup IF call[c].at = "unstore" THEN call[c].r
                       ELSE IF call[c].at = "sweep" THEN call[c].set ELSE {}
  /\ torn' = torn \cup IF call[c].at = "settle" THEN call[c].r ELSE {}
  /\ UNCHANGED <<rows, store, ledger, reqs, gave, hidden, raced>>

Creator == CHOOSE u \in Users : TRUE
\* Nothing yet, or a page its creator has published a resource on.
Init ==
  /\ \E R \in SUBSET Resources :
       /\ Cardinality(R) <= 1
       /\ page = IF R = {} THEN NoPage
                 ELSE [at |-> "own", by |-> Creator, resources |-> 1, contributors |-> 1,
                       facets |-> {Unborn.facet}]
       /\ contrib = IF R = {} THEN {} ELSE {Creator}
       /\ res = [r \in Resources |-> IF r \in R THEN Published(Unborn.facet) ELSE Unborn]
       /\ store = R /\ gave = contrib
       /\ paid = IF R = {} THEN {} ELSE {<<"create", {}>>, <<"publish", R>>}
  /\ liked = [r \in Resources |-> 0] /\ owed = {}
  /\ call = [c \in Calls |-> NoCall] /\ reqs = 0 /\ faults = 0
  /\ hidden = {} /\ torn = {} /\ left = {}
  /\ askew = FALSE /\ raced = FALSE /\ unpaid = FALSE

Next ==
  \/ \E c \in Calls :
       \/ InsertPage(c) \/ AdoptStub(c)
       \/ DeletePatch(c) \/ ListArtifacts(c) \/ ErasePage(c) \/ SoftDeleteArtifacts(c)
       \/ InsertStub(c) \/ Count(c) \/ Gather(c) \/ WriteFacets(c)
       \/ MarkIndexed(c) \/ EnsureContributor(c) \/ CountContributor(c)
       \/ SaveResource(c) \/ RemoveResource(c) \/ DeleteArtifact(c) \/ Uncount(c)
       \/ WriteLike(c) \/ SettleResourceLike(c) \/ ToggleResourceStatus(c) \/ Die(c)
       \/ \E u \in Users :
            \/ CreatePatch(c, u) \/ RegisterClaimedGalgame(c, u)
            \/ \E r \in Resources : CreateResource(c, u, r)
       \/ \E r \in Resources :
            \/ DeleteResource(c, r) \/ ToggleResourceLike(c, r) \/ ToggleResourceDisable(c, r)
            \/ \E f \in Facets : UpdateResource(c, r, f)
       \/ \E f \in Facets : InsertResource(c, f)
  \/ \E r \in Resources, hide \in BOOLEAN : Moderate(r, hide)
  \/ \E k \in owed : Award(k)

Spec == Init /\ [][Next]_vars

-----------------------------------------------------------------------------
Idle == owed = {} /\ \A c \in Calls : call[c] = NoCall

\* Every variable has its shape.
TypeOK ==
  /\ page.at \in {"none", "stub", "own"} /\ page.by \in Users \cup {NoUser}
  /\ page.resources \in 0..MaxReq + 1 /\ page.contributors \in 0..MaxReq + 1
  /\ page.facets \subseteq Facets /\ contrib \subseteq Users /\ gave \subseteq Users
  /\ \A r \in Resources :
       /\ res[r].at \in {"none", "here", "gone"} /\ res[r].status \in 0..2
       /\ res[r].likes \in 0..MaxReq /\ res[r].facet \in Facets /\ liked[r] \in 0..MaxReq
  /\ store \cup hidden \cup torn \cup left \subseteq Resources
  /\ reqs \in 0..MaxReq /\ faults \in 0..MaxFault

\* When the requests are over the page's counters come to its resources and its
\* contributors and its facets to those of its resources, whatever ran beside
\* what, unless one of the named causes struck.
CountersSettle ==
  Idle /\ Exists /\ ~askew =>
    /\ page.resources = Cardinality(Here)
    /\ page.contributors = Cardinality(contrib)
    /\ raced \/ page.facets = FacetsOf(Here)

\* A like that stands is counted once, and no points are taken back that were
\* not given.
LikesSettle ==
  Idle =>
    /\ \A r \in Here \ torn : res[r].likes = IF liked[r] = 0 THEN 0 ELSE 1
    /\ unpaid \/ \A r \in Resources :
         /\ <<"unlike", {r}>> \in paid => <<"like", {r}>> \in paid
         /\ <<"delete", {r}>> \in paid => <<"publish", {r}>> \in paid

\* A resource offers a file that is stored, and a file outlives its resource
\* only if it could not be deleted or its page's delete had not listed it.
FilesFollow ==
  /\ Here \ torn \subseteq store
  /\ Idle => \A r \in store : r \in Here \cup left

\* What moderation hid is hidden until it is restored, and nothing else is,
\* unless an edit that had read the row before overwrote it.
HiddenStays == \A r \in Here \ torn : res[r].status = 2 <=> r \in hidden

\* A page is given to one user, who keeps it as long as it exists.
OneOwner == gave # {} => gave = {page.by}

\* What the site keeps of a page settles to its rows, its files and its hides.
PageKept == CountersSettle /\ LikesSettle /\ FilesFollow /\ HiddenStays /\ OneOwner
=============================================================================
