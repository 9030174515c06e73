--------------------------- MODULE PatchPageProofs ---------------------------
(***************************************************************************)
(* What PatchPage settles to, whatever the numbers of users, resources,    *)
(* facets and requests, as the component of MCServices that runs.          *)
(*                                                                         *)
(* Why: while the page stands, what its counters lack is what requests are *)
(* about to add, and what they have too much is what requests are about to *)
(* take off (Counted).  Whoever changes the resources gathers the facets   *)
(* afterwards, so the last to write them has read them as they are, unless *)
(* two of them crossed (Faceted).  A like that stands is counted or about  *)
(* to be (Hearted), and paid or about to be (Earned).  A file no resource  *)
(* has any more is about to be deleted (Filed).  A resource that was gone  *)
(* and is there again is torn, so a delete still at work on its file does  *)
(* no harm that has no name (Placed).                                      *)
(***************************************************************************)
EXTENDS MCServices, FiniteSetTheorems, TLAPS

\* The rows, and what a request is at.
PageRow == [at : {"none", "stub", "own"}, by : Users \cup {0}, resources : Nat, contributors : Nat,
            facets : SUBSET Facets]
Offer == [at : {"none", "here", "gone"}, status : 0..2, likes : Nat, facet : Facets]
Deed == [at : {"idle", "insert", "adopt", "list", "erase", "sweep", "stub", "post", "count", "gather", "write", "index",
               "row", "contributor", "save", "delete", "unstore", "uncount", "like", "settle", "toggle"},
         op : {"none", "create", "claim", "erase", "publish", "edit", "delete", "like", "unlike"},
         by : Users \cup {0}, r : SUBSET Resources, n : Nat, row : Offer \cup {<<>>}, set : SUBSET (Resources \cup Facets)]

\* The requests at a step, and how many they are.
At(S) == {d \in Deed : d.at \in S}
Working == {d \in Deed : d.at # "idle"}
Hearts(event, r) == {d \in Deed : d.at = "settle" /\ d.op = event /\ d.r = {r}}
Doing(T) == {c \in Calls : g_call[c] \in T}
N(T) == Cardinality(Doing(T))

\* A request has what its step needs.
Apt(d) ==
  /\ d.at \in {"idle", "insert", "adopt", "list", "erase", "sweep"} => d.r = {}
  /\ d.at \notin {"idle", "insert", "adopt", "list", "erase", "sweep"} => \E r \in Resources : d.r = {r}
  /\ d.at \in {"insert", "adopt", "stub", "post", "count", "index", "row", "contributor"} => d.by \in Users
  /\ d.at \in {"insert", "adopt"} => d.op \in {"create", "claim"}
  /\ d.at \in {"stub", "post", "count", "index", "row", "contributor"} => d.op = "publish"
  /\ d.at \in {"gather", "write"} => d.op \in {"publish", "edit", "delete"}
  /\ d.at \in {"gather", "write"} /\ d.op = "publish" => d.by \in Users
  /\ d.at \in {"delete", "unstore", "uncount"} => d.op = "delete"
  /\ d.at = "save" => d.op = "edit"
  /\ d.at = "settle" => d.op \in {"like", "unlike"}
  /\ d.at = "list" => d.set = {}
  /\ d.at \in {"erase", "sweep"} => d.set \subseteq Resources
  /\ d.at = "write" => d.set \subseteq Facets
  /\ d.at = "save" => d.row \in Offer /\ d.row.at = "here" /\ \E f \in Facets : d.set = {f}

\* Everything is of its type.
PageShape ==
  /\ g_page \in PageRow
  /\ g_contrib \subseteq Users /\ IsFiniteSet(g_contrib) /\ g_gave \subseteq Users
  /\ g_res \in [Resources -> Offer] /\ g_liked \in [Resources -> Nat]
  /\ g_store \subseteq Resources /\ g_hidden \subseteq Resources
  /\ g_torn \subseteq Resources /\ g_left \subseteq Resources
  /\ g_askew \in BOOLEAN /\ g_raced \in BOOLEAN /\ g_unpaid \in BOOLEAN
  /\ g_reqs \in 0..MaxReq /\ g_faults \in 0..MaxFault
  /\ g_call \in [Calls -> Deed] /\ \A c \in Calls : Apt(g_call[c])

\* What is where: before a page, before a resource, after it.
Owned ==
  /\ g_page.at = "none" => g_page = Site!NoPage /\ Site!Here = {} /\ g_contrib = {}
  /\ g_page.at # "own" => g_gave = {}
  /\ g_gave # {} => g_gave = {g_page.by}

Placed ==
  /\ \A r \in Resources : g_res[r].at = "none" => g_liked[r] = 0 /\ r \notin g_hidden
  /\ \A c \in Calls : \A r \in g_call[c].r :
       IF g_call[c].at \in {"stub", "post"} THEN g_res[r].at = "none" /\ \A o \in Calls : r \in g_call[o].r => o = c
       ELSE g_res[r].at # "none"
  /\ \A c \in Calls : g_call[c].at \in {"erase", "sweep"} => \A r \in g_call[c].set : g_res[r].at # "none"
  /\ \A c \in Calls : g_call[c].at = "unstore" => g_call[c].r \cap Site!Here \subseteq g_torn
  /\ \A c \in Calls : g_call[c].at = "sweep" => g_call[c].set \cap Site!Here \subseteq g_torn

\* The counters and the requests on their way to them.
Counted ==
  ~g_askew /\ Site!Exists =>
    /\ g_page.resources + N(At({"count"})) = Cardinality(Site!Here) + N(At({"unstore", "uncount"}))
    /\ g_page.contributors + N(At({"contributor"})) = Cardinality(g_contrib)

\* The last to write the facets has seen the resources as they are.
Changing == {"count", "gather", "unstore", "uncount"}
Faceted ==
  ~g_askew /\ ~g_raced /\ Site!Exists /\ (\A c \in Calls : g_call[c].at \notin Changing) =>
    /\ \A c \in Calls : g_call[c].at = "write" => g_call[c].set = Site!FacetsOf(Site!Here)
    /\ (\A c \in Calls : g_call[c].at # "write") => g_page.facets = Site!FacetsOf(Site!Here)

\* The likes and the requests on their way to settle them.
Hearted ==
  \A r \in Site!Here \ g_torn :
    g_res[r].likes + N(Hearts("like", r)) = (IF g_liked[r] = 0 THEN 0 ELSE 1) + N(Hearts("unlike", r))

\* An award is in the ledger or on its way there, or its request has yet to ask
\* for it.
Booked(event, r) == <<event, {r}>> \in g_owed \cup g_paid
Known(event, r) == Booked(event, r) \/ \E c \in Calls : g_call[c] \in Hearts(event, r)
Publishing(r) == \E c \in Calls : g_call[c].op = "publish" /\ g_call[c].at \in {"count", "gather", "write", "index"}
                                  /\ g_call[c].r = {r}
Earned ==
  g_unpaid \/ \A r \in Resources :
    /\ g_liked[r] # 0 \/ Known("unlike", r) => Known("like", r)
    /\ Booked("delete", r) => g_res[r].at # "none"
    /\ g_res[r].at # "none" => Booked("publish", r) \/ Publishing(r)

\* The files and the requests that have yet to delete them.
Filed ==
  /\ Site!Here \ g_torn \subseteq g_store
  /\ \A r \in g_store \ (Site!Here \cup g_left) :
       \E c \in Calls : \/ g_call[c].at = "unstore" /\ r \in g_call[c].r
                        \/ g_call[c].at = "sweep" /\ r \in g_call[c].set

\* Each request counts up once.
PageBounds ==
  /\ g_page.resources + N(At({"stub", "post", "count"})) <= g_reqs + 1
  /\ g_page.contributors + N(Working) <= g_reqs + 1
  /\ \A r \in Resources : g_res[r].likes + N(Working) <= g_reqs /\ g_liked[r] <= g_reqs
  /\ \A c \in Calls : g_call[c].at = "save" => g_call[c].row.likes + N(Working) <= g_reqs

\* The inductive invariant.
PageInv ==
  /\ PageShape /\ Owned /\ Placed /\ Counted /\ Faceted /\ Hearted /\ Earned /\ Filed /\ Site!HiddenStays
  /\ PageBounds

LEMMA DoingFinite == \A T : IsFiniteSet(Doing(T)) /\ N(T) \in Nat
  <1> TAKE T
  <1>1. Doing(T) \subseteq Calls
    BY DEF Doing
  <1> QED
    BY <1>1, ServicesAssumption, FS_Subset, FS_CardinalityType DEF N

\* The request at c moves to v: who is at a step, and how many.
LEMMA Moves ==
  ASSUME NEW T, g_call \in [Calls -> Deed], NEW c \in Calls, NEW v, g_call' = [g_call EXCEPT ![c] = v]
  PROVE  /\ \A o \in Calls : g_call'[o] = IF o = c THEN v ELSE g_call[o]
         /\ g_call[c] \in T /\ v \in T => N(T)' = N(T)
         /\ g_call[c] \notin T /\ v \notin T => N(T)' = N(T)
         /\ g_call[c] \notin T /\ v \in T => N(T)' = N(T) + 1
         /\ g_call[c] \in T /\ v \notin T => N(T) = N(T)' + 1
         /\ N(T) \in Nat /\ N(T)' \in Nat
  <1>1. \A o \in Calls : g_call'[o] = IF o = c THEN v ELSE g_call[o]
    OBVIOUS
  <1>2. IsFiniteSet(Doing(T)) /\ Doing(T) \subseteq Calls /\ Cardinality(Doing(T)) \in Nat
    BY DoingFinite DEF Doing, N
  <1>3. ASSUME (g_call[c] \in T) <=> (v \in T) PROVE N(T)' = N(T)
    <2>1. Doing(T)' = Doing(T)
      BY <1>1, <1>3 DEF Doing
    <2> QED
      BY <2>1 DEF N
  <1>4. ASSUME g_call[c] \notin T, v \in T PROVE N(T)' = N(T) + 1
    <2>1. Doing(T)' = Doing(T) \cup {c} /\ c \notin Doing(T)
      BY <1>1, <1>4 DEF Doing
    <2>2. Cardinality(Doing(T) \cup {c}) = Cardinality(Doing(T)) + 1
      BY <1>2, <2>1, FS_AddElement
    <2> QED
      BY <2>1, <2>2 DEF N
  <1>5. ASSUME g_call[c] \in T, v \notin T PROVE N(T) = N(T)' + 1
    <2>1. Doing(T)' = Doing(T) \ {c} /\ c \in Doing(T)
      BY <1>1, <1>5 DEF Doing
    <2>2. Cardinality(Doing(T) \ {c}) = Cardinality(Doing(T)) - 1
      BY <1>2, <2>1, FS_RemoveElement
    <2>3. N(T) = Cardinality(Doing(T)) /\ N(T)' = Cardinality(Doing(T) \ {c})
      BY <2>1 DEF N
    <2> QED
      BY <1>2, <2>2, <2>3
  <1>6. N(T)' \in Nat
    <2>1. N(T) \in Nat
      BY <1>2 DEF N
    <2>2. CASE g_call[c] \in T /\ v \notin T
      <3>1. Doing(T)' = Doing(T) \ {c}
        BY <1>1, <2>2 DEF Doing
      <3>2. Cardinality(Doing(T) \ {c}) \in Nat
        BY <1>2, FS_RemoveElement, FS_CardinalityType
      <3> QED
        BY <3>1, <3>2 DEF N
    <2> QED
      BY <2>1, <2>2, <1>3, <1>4
  <1> QED
    BY <1>1, <1>2, <1>3, <1>4, <1>5, <1>6 DEF N

LEMMA NoDeed ==
  /\ Site!NoCall \in Deed /\ Apt(Site!NoCall)
  /\ Site!NoCall.at = "idle" /\ Site!NoCall.op = "none" /\ Site!NoCall.r = {} /\ Site!NoCall.set = {}
  <1>1. Site!NoCall \in Deed
    BY Zenon DEF Site!NoCall, Deed, Site!NoUser
  <1>2. Site!NoCall.at = "idle" /\ Site!NoCall.op = "none" /\ Site!NoCall.r = {} /\ Site!NoCall.set = {}
    BY DEF Site!NoCall
  <1> QED
    BY <1>1, <1>2 DEF Apt

LEMMA UnbornShape ==
  /\ Site!Unborn \in Offer /\ Site!Unborn.at = "none" /\ Site!Unborn.likes = 0
  /\ \A f \in Facets : /\ Site!Published(f) \in Offer /\ Site!Published(f).at = "here" /\ Site!Published(f).likes = 0
                       /\ Site!Published(f).status = 0 /\ Site!Published(f).facet = f
  <1>1. \A f \in Facets : /\ Site!Published(f) \in Offer /\ Site!Published(f).at = "here" /\ Site!Published(f).likes = 0
                          /\ Site!Published(f).status = 0 /\ Site!Published(f).facet = f
    BY DEF Site!Published, Offer
  <1>2. PICK f \in Facets : f = CHOOSE g \in Facets : TRUE
    BY ServicesAssumption
  <1>3. Site!Unborn = [Site!Published(f) EXCEPT !.at = "none"]
    BY <1>2 DEF Site!Unborn
  <1> QED
    BY <1>1, <1>3 DEF Offer

\* Of(c) is the resource of the request.
LEMMA OfOne ==
  ASSUME NEW c \in Calls, NEW r \in Resources, g_call[c].r = {r}
  PROVE  Site!Of(c) = r
  BY DEF Site!Of

-----------------------------------------------------------------------------
(* What a step that touches little leaves as it was. *)

\* The request at c moves to v.
Turns(c, v) == v \in Deed /\ Apt(v) /\ g_call' = [g_call EXCEPT ![c] = v]

LEMMA Turned ==
  ASSUME PageShape, NEW c \in Calls, NEW v, Turns(c, v)
  PROVE  /\ g_call' \in [Calls -> Deed] /\ \A o \in Calls : Apt(g_call'[o])
         /\ \A o \in Calls : g_call'[o] = IF o = c THEN v ELSE g_call[o]
         /\ g_call[c] \in Deed /\ Apt(g_call[c]) /\ v \in Deed /\ Apt(v)
  BY DEF PageShape, Turns

\* How the counts of those at a step move.
LEMMA AtMoves ==
  ASSUME PageShape, NEW c \in Calls, NEW v, Turns(c, v), NEW S
  PROVE  /\ g_call[c].at \in S /\ v.at \in S => N(At(S))' = N(At(S))
         /\ g_call[c].at \notin S /\ v.at \notin S => N(At(S))' = N(At(S))
         /\ g_call[c].at \notin S /\ v.at \in S => N(At(S))' = N(At(S)) + 1
         /\ g_call[c].at \in S /\ v.at \notin S => N(At(S)) = N(At(S))' + 1
         /\ N(At(S)) \in Nat /\ N(At(S))' \in Nat
  <1>1. g_call \in [Calls -> Deed] /\ g_call[c] \in Deed /\ v \in Deed /\ g_call' = [g_call EXCEPT ![c] = v]
    BY DEF PageShape, Turns
  <1>2. (g_call[c] \in At(S) <=> g_call[c].at \in S) /\ (v \in At(S) <=> v.at \in S)
    BY <1>1 DEF At
  <1> DEFINE T == At(S)
  <1>3. /\ g_call[c] \in T /\ v \in T => N(T)' = N(T)
        /\ g_call[c] \notin T /\ v \notin T => N(T)' = N(T)
        /\ g_call[c] \notin T /\ v \in T => N(T)' = N(T) + 1
        /\ g_call[c] \in T /\ v \notin T => N(T) = N(T)' + 1
        /\ N(T) \in Nat /\ N(T)' \in Nat
    <2> HIDE DEF T
    <2> QED
      BY <1>1, Moves
  <1> QED
    BY <1>2, <1>3

LEMMA WorkMoves ==
  ASSUME PageShape, NEW c \in Calls, NEW v, Turns(c, v)
  PROVE  /\ g_call[c].at # "idle" /\ v.at # "idle" => N(Working)' = N(Working)
         /\ g_call[c].at = "idle" /\ v.at # "idle" => N(Working)' = N(Working) + 1
         /\ g_call[c].at # "idle" /\ v.at = "idle" => N(Working) = N(Working)' + 1
         /\ N(Working) \in Nat /\ N(Working)' \in Nat
  <1>1. g_call \in [Calls -> Deed] /\ g_call[c] \in Deed /\ v \in Deed /\ g_call' = [g_call EXCEPT ![c] = v]
    BY DEF PageShape, Turns
  <1>2. (g_call[c] \in Working <=> g_call[c].at # "idle") /\ (v \in Working <=> v.at # "idle")
    BY <1>1 DEF Working
  <1> QED
    BY <1>1, <1>2, Moves

LEMMA CountedStill ==
  ASSUME PageShape, Counted, NEW c \in Calls, NEW v, Turns(c, v),
         g_askew => g_askew', Site!Exists' => Site!Exists,
         g_page'.resources = g_page.resources, g_page'.contributors = g_page.contributors,
         Site!Here' = Site!Here, g_contrib' = g_contrib,
         ~g_askew' => /\ g_call[c].at = "count" <=> v.at = "count"
                      /\ g_call[c].at \in {"unstore", "uncount"} <=> v.at \in {"unstore", "uncount"}
                      /\ g_call[c].at = "contributor" <=> v.at = "contributor"
  PROVE  Counted'
  <1> SUFFICES ASSUME ~g_askew', Site!Exists'
               PROVE  /\ g_page'.resources + N(At({"count"}))' = Cardinality(Site!Here') + N(At({"unstore", "uncount"}))'
                      /\ g_page'.contributors + N(At({"contributor"}))' = Cardinality(g_contrib')
    BY DEF Counted
  <1>1. /\ N(At({"count"}))' = N(At({"count"})) /\ N(At({"unstore", "uncount"}))' = N(At({"unstore", "uncount"}))
        /\ N(At({"contributor"}))' = N(At({"contributor"}))
    BY AtMoves
  <1> QED
    BY <1>1 DEF Counted

LEMMA FacetedBusy ==
  ASSUME PageShape, NEW c \in Calls, NEW v, Turns(c, v), v.at \in Changing
  PROVE  Faceted'
  BY Turned DEF Faceted

LEMMA FacetedStill ==
  ASSUME PageShape, Faceted, NEW c \in Calls, NEW v, Turns(c, v),
         g_askew => g_askew', g_raced => g_raced', Site!Exists' => Site!Exists, g_page'.facets = g_page.facets,
         Site!FacetsOf(Site!Here)' = Site!FacetsOf(Site!Here),
         ~g_askew' => /\ g_call[c].at \in Changing => v.at \in Changing
                      /\ g_call[c].at # "write" /\ v.at # "write"
  PROVE  Faceted'
  BY Turned DEF Faceted

LEMMA HeartedStill ==
  ASSUME PageShape, Hearted, NEW c \in Calls, NEW v, Turns(c, v), v.at # "settle",
         \A r \in Site!Here' \ g_torn' :
           /\ r \in Site!Here \ g_torn /\ g_res'[r].likes = g_res[r].likes /\ g_liked'[r] = g_liked[r]
           /\ g_call[c].at = "settle" => g_call[c].r # {r}
  PROVE  Hearted'
  <1> SUFFICES ASSUME NEW r \in Site!Here' \ g_torn'
               PROVE  g_res'[r].likes + N(Hearts("like", r))' =
                        (IF g_liked'[r] = 0 THEN 0 ELSE 1) + N(Hearts("unlike", r))'
    BY DEF Hearted
  <1>1. g_call \in [Calls -> Deed] /\ g_call' = [g_call EXCEPT ![c] = v]
    BY DEF PageShape, Turns
  <1>2. \A event : g_call[c] \notin Hearts(event, r) /\ v \notin Hearts(event, r)
    BY DEF Hearts
  <1>3. \A event : N(Hearts(event, r))' = N(Hearts(event, r))
    <2> TAKE event
    <2> DEFINE T == Hearts(event, r)
    <2>1. g_call[c] \notin T /\ v \notin T
      BY <1>2
    <2>2. N(T)' = N(T)
      <3> HIDE DEF T
      <3> QED
        BY <1>1, <2>1, Moves
    <2> QED
      BY <2>2
  <1> QED
    BY <1>3 DEF Hearted

LEMMA EarnedStill ==
  ASSUME PageShape, Earned, NEW c \in Calls, NEW v, Turns(c, v), g_unpaid => g_unpaid',
         ~g_unpaid' =>
           /\ g_call[c].at # "settle" /\ v.at # "settle"
           /\ g_call[c].op = "publish" /\ g_call[c].at \in {"count", "gather", "write", "index"} =>
                v.op = "publish" /\ v.at \in {"count", "gather", "write", "index"} /\ v.r = g_call[c].r
           /\ \A r \in Resources : (g_liked'[r] # 0 => g_liked[r] # 0) /\ (g_res'[r].at = "none" <=> g_res[r].at = "none")
           /\ \A event \in {"like", "unlike", "publish", "delete"}, r \in Resources : Booked(event, r)' <=> Booked(event, r)
  PROVE  Earned'
  <1> SUFFICES ASSUME ~g_unpaid', NEW r \in Resources
               PROVE  /\ g_liked'[r] # 0 \/ Known("unlike", r)' => Known("like", r)'
                      /\ Booked("delete", r)' => g_res'[r].at # "none"
                      /\ g_res'[r].at # "none" => Booked("publish", r)' \/ Publishing(r)'
    BY DEF Earned
  <1>1. \A event \in {"like", "unlike", "publish", "delete"} : Booked(event, r)' <=> Booked(event, r)
    OBVIOUS
  <1>2. \A event \in {"like", "unlike"} : Known(event, r)' <=> Known(event, r)
    <2> TAKE event \in {"like", "unlike"}
    <2>1. g_call[c] \notin Hearts(event, r) /\ v \notin Hearts(event, r)
      BY DEF Hearts
    <2> QED
      BY <1>1, <2>1, Turned DEF Known
  <1>3. Publishing(r) => Publishing(r)'
    BY Turned DEF Publishing
  <1> QED
    BY <1>1, <1>2, <1>3 DEF Earned

LEMMA FiledStill ==
  ASSUME PageShape, Filed, NEW c \in Calls, NEW v, Turns(c, v),
         Site!Here' = Site!Here, g_torn \subseteq g_torn', g_store' = g_store, g_left \subseteq g_left',
         g_call[c].at = "unstore" => g_call[c].r \subseteq g_left',
         g_call[c].at = "sweep" => g_call[c].set \subseteq g_left'
  PROVE  Filed'
  <1>1. Site!Here' \ g_torn' \subseteq g_store'
    BY DEF Filed
  <1>2. ASSUME NEW r \in g_store' \ (Site!Here' \cup g_left')
        PROVE  \E o \in Calls : \/ g_call'[o].at = "unstore" /\ r \in g_call'[o].r
                                \/ g_call'[o].at = "sweep" /\ r \in g_call'[o].set
    <2>1. PICK o \in Calls : \/ g_call[o].at = "unstore" /\ r \in g_call[o].r
                             \/ g_call[o].at = "sweep" /\ r \in g_call[o].set
      BY <1>2 DEF Filed
    <2>2. o # c
      BY <1>2, <2>1
    <2> QED
      BY <2>1, <2>2, Turned
  <1> QED
    BY <1>1, <1>2 DEF Filed

LEMMA PlacedMoves ==
  ASSUME PageShape, Placed, NEW c \in Calls, NEW v, Turns(c, v), g_torn \subseteq g_torn',
         \A r \in Resources : g_res[r].at # "none" => g_res'[r].at # "none",
         \A r \in Resources : g_res'[r].at = "none" => g_liked'[r] = 0 /\ r \notin g_hidden',
         \A r \in v.r : IF v.at \in {"stub", "post"}
                        THEN g_res'[r].at = "none" /\ \A o \in Calls : r \in g_call[o].r => o = c
                        ELSE g_res'[r].at # "none",
         \A r \in Resources : g_res'[r].at # "none" /\ g_res[r].at = "none" => \A o \in Calls : r \in g_call[o].r => o = c,
         \A r \in Site!Here' : r \in Site!Here \/ r \in g_torn' \/ g_res[r].at = "none",
         v.at \in {"erase", "sweep"} => \A r \in v.set : g_res'[r].at # "none",
         v.at = "unstore" => v.r \cap Site!Here' \subseteq g_torn',
         v.at = "sweep" => v.set \cap Site!Here' \subseteq g_torn',
         \A o \in Calls : v.r \cap g_call[o].r # {} /\ g_call[o].at \in {"stub", "post"} => o = c
  PROVE  Placed'
  <1>1. \A r \in Resources : g_res'[r].at = "none" => g_liked'[r] = 0 /\ r \notin g_hidden'
    OBVIOUS
  <1>2. \A o \in Calls : g_call'[o] = IF o = c THEN v ELSE g_call[o]
    BY Turned
  <1>3. \A o \in Calls : g_call[o].r \subseteq Resources /\ (g_call[o].at \in {"erase", "sweep"} => g_call[o].set \subseteq Resources)
    BY DEF PageShape, Deed, Apt
  <1>4. ASSUME NEW o \in Calls, NEW r \in g_call'[o].r
        PROVE  IF g_call'[o].at \in {"stub", "post"}
               THEN g_res'[r].at = "none" /\ \A x \in Calls : r \in g_call'[x].r => x = o
               ELSE g_res'[r].at # "none"
    <2>1. CASE o = c
      BY <1>2, <1>4, <2>1
    <2>2. CASE o # c /\ g_call[o].at \in {"stub", "post"}
      <3>1. g_call'[o] = g_call[o] /\ r \in g_call[o].r /\ r \in Resources
        BY <1>2, <1>3, <1>4, <2>2
      <3>2. g_res[r].at = "none" /\ \A x \in Calls : r \in g_call[x].r => x = o
        BY <2>2, <3>1 DEF Placed
      <3>3. g_res'[r].at = "none"
        BY <2>2, <3>1, <3>2
      <3>4. r \notin v.r
        BY <2>2, <3>1
      <3> QED
        BY <2>2, <3>1, <3>2, <3>3, <3>4, <1>2
    <2>3. CASE o # c /\ g_call[o].at \notin {"stub", "post"}
      <3>1. g_call'[o] = g_call[o] /\ r \in g_call[o].r /\ r \in Resources
        BY <1>2, <1>3, <1>4, <2>3
      <3>2. g_res[r].at # "none"
        BY <2>3, <3>1 DEF Placed
      <3> QED
        BY <2>3, <3>1, <3>2
    <2> QED
      BY <2>1, <2>2, <2>3
  <1>5. ASSUME NEW o \in Calls, g_call'[o].at \in {"erase", "sweep"}, NEW r \in g_call'[o].set PROVE g_res'[r].at # "none"
    BY <1>2, <1>3, <1>5 DEF Placed
  <1>6. ASSUME NEW o \in Calls, g_call'[o].at = "unstore" PROVE g_call'[o].r \cap Site!Here' \subseteq g_torn'
    <2>1. CASE o = c
      BY <1>2, <1>6, <2>1
    <2>2. CASE o # c
      <3>1. g_call'[o] = g_call[o] /\ g_call[o].at = "unstore"
        BY <1>2, <1>6, <2>2
      <3>2. \A r \in g_call[o].r : g_res[r].at # "none" /\ (r \in Site!Here => r \in g_torn)
        BY <3>1 DEF Placed
      <3> QED
        BY <3>1, <3>2
    <2> QED
      BY <2>1, <2>2
  <1>7. ASSUME NEW o \in Calls, g_call'[o].at = "sweep" PROVE g_call'[o].set \cap Site!Here' \subseteq g_torn'
    <2>1. CASE o = c
      BY <1>2, <1>7, <2>1
    <2>2. CASE o # c
      <3>1. g_call'[o] = g_call[o] /\ g_call[o].at = "sweep"
        BY <1>2, <1>7, <2>2
      <3>2. \A r \in g_call[o].set : g_res[r].at # "none" /\ (r \in Site!Here => r \in g_torn)
        BY <3>1 DEF Placed
      <3> QED
        BY <3>1, <3>2
    <2> QED
      BY <2>1, <2>2
  <1> QED
    BY <1>1, <1>4, <1>5, <1>6, <1>7 DEF Placed

LEMMA BoundsStill ==
  ASSUME PageShape, PageBounds, NEW c \in Calls, NEW v, Turns(c, v), g_reqs' = g_reqs,
         g_call[c].at # "idle", v.at # "save",
         v.at \in {"stub", "post", "count"} => g_call[c].at \in {"stub", "post", "count"},
         g_page'.resources \in Nat, g_page'.resources <= g_page.resources,
         g_page'.contributors \in Nat, g_page'.contributors <= g_page.contributors,
         \A r \in Resources : /\ g_res'[r].likes \in Nat /\ g_res'[r].likes <= g_res[r].likes
                              /\ g_liked'[r] = g_liked[r] \/ g_liked'[r] = 0
  PROVE  PageBounds'
  <1>1. /\ N(At({"stub", "post", "count"}))' <= N(At({"stub", "post", "count"}))
        /\ N(At({"stub", "post", "count"})) \in Nat /\ N(At({"stub", "post", "count"}))' \in Nat
    BY AtMoves
  <1>2. N(Working)' <= N(Working) /\ N(Working) \in Nat /\ N(Working)' \in Nat
    BY WorkMoves
  <1>3. /\ g_reqs \in Nat /\ g_page.resources \in Nat /\ g_page.contributors \in Nat
        /\ \A r \in Resources : g_res[r].likes \in Nat /\ g_liked[r] \in Nat
    BY ServicesAssumption DEF PageShape, Offer, PageRow
  <1>4. \A o \in Calls : g_call'[o].at = "save" => g_call'[o] = g_call[o] /\ g_call[o].row.likes \in Nat
    BY Turned DEF PageShape, Apt, Offer
  <1>5. g_page'.resources + N(At({"stub", "post", "count"}))' <= g_reqs' + 1
    BY <1>1, <1>3 DEF PageBounds
  <1>6. g_page'.contributors + N(Working)' <= g_reqs' + 1
    BY <1>2, <1>3 DEF PageBounds
  <1>7. \A r \in Resources : g_res'[r].likes + N(Working)' <= g_reqs' /\ g_liked'[r] <= g_reqs'
    BY <1>2, <1>3 DEF PageBounds
  <1>8. \A o \in Calls : g_call'[o].at = "save" => g_call'[o].row.likes + N(Working)' <= g_reqs'
    BY <1>2, <1>3, <1>4 DEF PageBounds
  <1> QED
    BY <1>5, <1>6, <1>7, <1>8 DEF PageBounds

-----------------------------------------------------------------------------
(* Requests begin. *)

LEMMA PageBegins ==
  ASSUME PageInv, NEW c \in Calls, NEW v, Turns(c, v), g_call[c].at = "idle", g_call[c].r = {}, g_reqs < MaxReq,
         g_reqs' = g_reqs + 1, UNCHANGED <<Site!rows, g_store, Site!ledger, g_faults, Site!history>>,
         v.at \in {"adopt", "insert", "list", "post", "stub", "save", "delete", "like", "toggle"},
         \A r \in v.r : IF v.at \in {"stub", "post"} THEN g_res[r].at = "none" /\ \A o \in Calls : r \notin g_call[o].r
                        ELSE g_res[r].at # "none",
         v.at = "save" => \E r \in Resources : v.row = g_res[r]
  PROVE  PageInv'
  <1>1. /\ g_page' = g_page /\ g_contrib' = g_contrib /\ g_res' = g_res /\ g_liked' = g_liked /\ g_store' = g_store
        /\ g_owed' = g_owed /\ g_paid' = g_paid /\ g_faults' = g_faults /\ g_gave' = g_gave /\ g_hidden' = g_hidden
        /\ g_torn' = g_torn /\ g_left' = g_left /\ g_askew' = g_askew /\ g_raced' = g_raced /\ g_unpaid' = g_unpaid
    BY DEF Site!rows, Site!ledger, Site!history
  <1>2. PageShape /\ Owned /\ Placed /\ Counted /\ Faceted /\ Hearted /\ Earned /\ Filed /\ Site!HiddenStays /\ PageBounds
    BY DEF PageInv
  <1>3. Site!Here' = Site!Here /\ Site!FacetsOf(Site!Here)' = Site!FacetsOf(Site!Here) /\ (Site!Exists' <=> Site!Exists)
    BY <1>1 DEF Site!Here, Site!FacetsOf, Site!Exists
  <1>4. g_reqs \in Nat /\ g_reqs' \in 0..MaxReq
    BY <1>2, ServicesAssumption DEF PageShape
  <1>5. PageShape'
    BY <1>1, <1>2, <1>4, Turned DEF PageShape
  <1>6. Owned'
    BY <1>1, <1>2, <1>3 DEF Owned
  <1>7. Placed'
    <2>1. \A o \in Calls : v.r \cap g_call[o].r # {} /\ g_call[o].at \in {"stub", "post"} => o = c
      BY <1>2 DEF Placed
    <2>2. \A r \in Resources : g_res[r].at = "none" => g_liked[r] = 0 /\ r \notin g_hidden
      BY <1>2 DEF Placed
    <2> QED
      BY <1>1, <1>2, <1>3, <2>1, <2>2, PlacedMoves
  <1>8. Counted'
    BY <1>1, <1>2, <1>3, CountedStill
  <1>9. Faceted'
    BY <1>1, <1>2, <1>3, FacetedStill DEF Changing
  <1>10. Hearted'
    BY <1>1, <1>2, <1>3, HeartedStill
  <1>11. Earned'
    BY <1>1, <1>2, EarnedStill DEF Booked
  <1>12. Filed'
    BY <1>1, <1>2, <1>3, FiledStill
  <1>13. Site!HiddenStays'
    BY <1>1, <1>2, <1>3 DEF Site!HiddenStays
  <1>14. PageBounds'
    <2>1. N(Working)' = N(Working) + 1 /\ N(Working) \in Nat
      BY <1>2, WorkMoves
    <2>2. /\ N(At({"stub", "post", "count"}))' <= N(At({"stub", "post", "count"})) + 1
          /\ N(At({"stub", "post", "count"})) \in Nat /\ N(At({"stub", "post", "count"}))' \in Nat
      BY <1>2, AtMoves
    <2>3. /\ g_page.resources \in Nat /\ g_page.contributors \in Nat
          /\ \A r \in Resources : g_res[r].likes \in Nat /\ g_liked[r] \in Nat
      BY <1>2 DEF PageShape, Offer, PageRow
    <2>4. g_page'.resources + N(At({"stub", "post", "count"}))' <= g_reqs' + 1
      BY <1>1, <1>2, <1>4, <2>2, <2>3 DEF PageBounds
    <2>5. g_page'.contributors + N(Working)' <= g_reqs' + 1
      BY <1>1, <1>2, <1>4, <2>1, <2>3 DEF PageBounds
    <2>6. \A r \in Resources : g_res'[r].likes + N(Working)' <= g_reqs' /\ g_liked'[r] <= g_reqs'
      BY <1>1, <1>2, <1>4, <2>1, <2>3 DEF PageBounds
    <2>7. ASSUME NEW o \in Calls, g_call'[o].at = "save" PROVE g_call'[o].row.likes + N(Working)' <= g_reqs'
      <3>1. CASE o = c
        <4>1. PICK r \in Resources : g_call'[o].row = g_res[r]
          BY <1>2, <2>7, <3>1, Turned
        <4> QED
          BY <1>1, <2>6, <4>1
      <3>2. CASE o # c
        <4>1. g_call'[o] = g_call[o] /\ g_call[o].row.likes \in Nat
          BY <1>2, <2>7, <3>2, Turned DEF PageShape, Apt, Offer
        <4> QED
          BY <1>2, <1>4, <2>1, <2>7, <4>1 DEF PageBounds
      <3> QED
        BY <3>1, <3>2
    <2> QED
      BY <2>4, <2>5, <2>6, <2>7 DEF PageBounds
  <1> QED
    BY <1>5, <1>6, <1>7, <1>8, <1>9, <1>10, <1>11, <1>12, <1>13, <1>14 DEF PageInv

LEMMA PageAsks ==
  ASSUME PageInv, NEW c \in Calls,
         \/ Site!DeletePatch(c)
         \/ \E u \in Users : Site!CreatePatch(c, u) \/ Site!RegisterClaimedGalgame(c, u)
         \/ \E u \in Users, r \in Resources : Site!CreateResource(c, u, r)
         \/ \E r \in Resources : Site!DeleteResource(c, r) \/ Site!ToggleResourceLike(c, r) \/ Site!ToggleResourceDisable(c, r)
         \/ \E r \in Resources, f \in Facets : Site!UpdateResource(c, r, f)
  PROVE  PageInv'
  <1>0. PageShape
    BY DEF PageInv
  <1>1. ASSUME NEW v, Site!Begin(c, v), v \in Deed, Apt(v),
               v.at \in {"adopt", "insert", "list", "post", "stub", "save", "delete", "like", "toggle"},
               \A r \in v.r : IF v.at \in {"stub", "post"} THEN g_res[r].at = "none" /\ \A o \in Calls : r \notin g_call[o].r
                              ELSE g_res[r].at # "none",
               v.at = "save" => \E r \in Resources : v.row = g_res[r]
        PROVE  PageInv'
    <2>1. /\ g_call[c] = Site!NoCall /\ g_reqs < MaxReq /\ g_reqs' = g_reqs + 1 /\ g_call' = [g_call EXCEPT ![c] = v]
          /\ UNCHANGED <<Site!rows, g_store, Site!ledger, g_faults, Site!history>>
      BY <1>1 DEF Site!Begin
    <2>2. Turns(c, v)
      BY <1>1, <2>1 DEF Turns
    <2> QED
      BY <1>1, <2>1, <2>2, NoDeed, PageBegins
  <1>2. CASE Site!DeletePatch(c)
    <2> DEFINE v == [Site!NoCall EXCEPT !.op = "erase", !.at = "list"]
    <2>1. v \in Deed /\ v.at = "list" /\ v.r = {} /\ v.set = {}
      BY NoDeed DEF Deed
    <2>2. Site!Begin(c, v)
      BY <1>2 DEF Site!DeletePatch
    <2> HIDE DEF v
    <2>3. Apt(v)
      BY <2>1 DEF Apt
    <2> QED
      BY <1>1, <2>1, <2>2, <2>3
  <1>3. ASSUME NEW u \in Users, Site!CreatePatch(c, u) PROVE PageInv'
    <2> DEFINE w == IF g_page.at = "stub" THEN "adopt" ELSE "insert"
    <2>0. PICK s \in {"adopt", "insert"} : s = w
      OBVIOUS
    <2> DEFINE v == [Site!NoCall EXCEPT !.by = u, !.op = "create", !.at = s]
    <2>1. v \in Deed /\ v.at = s /\ v.r = {} /\ v.op = "create" /\ v.by = u
      BY NoDeed DEF Deed
    <2>2. Site!Begin(c, v)
      BY <1>3, <2>0 DEF Site!CreatePatch
    <2> HIDE DEF v
    <2>3. Apt(v)
      BY <2>1 DEF Apt
    <2> QED
      BY <1>1, <2>1, <2>2, <2>3
  <1>4. ASSUME NEW u \in Users, Site!RegisterClaimedGalgame(c, u) PROVE PageInv'
    <2> DEFINE v == [Site!NoCall EXCEPT !.by = u, !.op = "claim", !.at = "insert"]
    <2>1. v \in Deed /\ v.at = "insert" /\ v.r = {} /\ v.op = "claim" /\ v.by = u
      BY NoDeed DEF Deed
    <2>2. Site!Begin(c, v)
      BY <1>4 DEF Site!RegisterClaimedGalgame
    <2> HIDE DEF v
    <2>3. Apt(v)
      BY <2>1 DEF Apt
    <2> QED
      BY <1>1, <2>1, <2>2, <2>3
  <1>5. ASSUME NEW u \in Users, NEW r \in Resources, Site!CreateResource(c, u, r) PROVE PageInv'
    <2>0. PICK s \in {"post", "stub"} : s = IF Site!Exists THEN "post" ELSE "stub"
      OBVIOUS
    <2> DEFINE v == [Site!NoCall EXCEPT !.op = "publish", !.by = u, !.r = {r}, !.at = s]
    <2>1. v \in Deed /\ v.at = s /\ v.r = {r} /\ v.op = "publish" /\ v.by = u
      BY NoDeed DEF Deed
    <2>2. Site!Begin(c, v) /\ Site!Unused(r)
      BY <1>5, <2>0 DEF Site!CreateResource
    <2> HIDE DEF v
    <2>3. Apt(v)
      BY <2>1 DEF Apt
    <2>4. g_res[r].at = "none" /\ \A o \in Calls : r \notin g_call[o].r
      BY <2>2 DEF Site!Unused
    <2> QED
      BY <1>1, <2>1, <2>2, <2>3, <2>4
  <1>6. ASSUME NEW r \in Site!Here, NEW v, Site!Begin(c, v), v \in Deed, v.r = {r},
               v.at \in {"delete", "like", "toggle"}, v.at = "delete" => v.op = "delete"
        PROVE  PageInv'
    <2>1. r \in Resources /\ g_res[r].at # "none"
      BY <1>6 DEF Site!Here
    <2>2. Apt(v)
      BY <1>6, <2>1 DEF Apt
    <2> QED
      BY <1>1, <1>6, <2>1, <2>2
  <1>7. ASSUME NEW r \in Resources, Site!DeleteResource(c, r) \/ Site!ToggleResourceLike(c, r) \/ Site!ToggleResourceDisable(c, r)
        PROVE  PageInv'
    <2>1. r \in Site!Here /\ g_liked[r] \in Nat
      BY <1>0, <1>7 DEF Site!DeleteResource, Site!ToggleResourceLike, Site!ToggleResourceDisable, PageShape
    <2>2. CASE Site!DeleteResource(c, r)
      <3> DEFINE v == [Site!NoCall EXCEPT !.op = "delete", !.r = {r}, !.at = "delete"]
      <3>1. v \in Deed /\ v.at = "delete" /\ v.r = {r} /\ v.op = "delete"
        BY NoDeed DEF Deed
      <3>2. Site!Begin(c, v)
        BY <2>2 DEF Site!DeleteResource
      <3> HIDE DEF v
      <3> QED
        BY <1>6, <2>1, <3>1, <3>2
    <2>3. CASE Site!ToggleResourceLike(c, r)
      <3> DEFINE v == [Site!NoCall EXCEPT !.r = {r}, !.at = "like", !.n = g_liked[r]]
      <3>1. v \in Deed /\ v.at = "like" /\ v.r = {r}
        BY <2>1, NoDeed DEF Deed
      <3>2. Site!Begin(c, v)
        BY <2>3 DEF Site!ToggleResourceLike
      <3> HIDE DEF v
      <3> QED
        BY <1>6, <2>1, <3>1, <3>2
    <2>4. CASE Site!ToggleResourceDisable(c, r)
      <3> DEFINE v == [Site!NoCall EXCEPT !.r = {r}, !.at = "toggle"]
      <3>1. v \in Deed /\ v.at = "toggle" /\ v.r = {r}
        BY NoDeed DEF Deed
      <3>2. Site!Begin(c, v)
        BY <2>4 DEF Site!ToggleResourceDisable
      <3> HIDE DEF v
      <3> QED
        BY <1>6, <2>1, <3>1, <3>2
    <2> QED
      BY <1>7, <2>2, <2>3, <2>4
  <1>8. ASSUME NEW r \in Resources, NEW f \in Facets, Site!UpdateResource(c, r, f) PROVE PageInv'
    <2>0. r \in Site!Here /\ g_res[r] \in Offer /\ g_res[r].at = "here"
      BY <1>0, <1>8 DEF Site!UpdateResource, PageShape, Site!Here
    <2> DEFINE v == [Site!NoCall EXCEPT !.op = "edit", !.r = {r}, !.at = "save", !.row = g_res[r], !.set = {f}]
    <2>1. v \in Deed /\ v.at = "save" /\ v.r = {r} /\ v.op = "edit" /\ v.row = g_res[r] /\ v.set = {f}
      BY <2>0, NoDeed DEF Deed
    <2>2. Site!Begin(c, v)
      BY <1>8 DEF Site!UpdateResource
    <2> HIDE DEF v
    <2>3. Apt(v)
      BY <2>0, <2>1 DEF Apt
    <2> QED
      BY <1>1, <2>0, <2>1, <2>2, <2>3
  <1> QED
    BY <1>2, <1>3, <1>4, <1>5, <1>7, <1>8

-----------------------------------------------------------------------------
(* Requests go on, and end. *)

Stage == {"idle", "insert", "adopt", "list", "erase", "sweep", "stub", "post", "count", "gather", "write", "index",
          "row", "contributor", "save", "delete", "unstore", "uncount", "like", "settle", "toggle"}

\* The request goes to another step with what it has.
LEMMA GoesOn ==
  ASSUME PageShape, NEW c \in Calls, NEW s \in Stage, Site!Goes(c, s)
  PROVE  \E v \in Deed : /\ g_call' = [g_call EXCEPT ![c] = v] /\ v.at = s
                         /\ v.op = g_call[c].op /\ v.by = g_call[c].by /\ v.r = g_call[c].r
                         /\ v.n = g_call[c].n /\ v.row = g_call[c].row /\ v.set = g_call[c].set
  <1>1. g_call \in [Calls -> Deed] /\ g_call[c] \in Deed /\ g_call' = [g_call EXCEPT ![c].at = s]
    BY DEF PageShape, Site!Goes
  <1> DEFINE v == [g_call[c] EXCEPT !.at = s]
  <1>2. /\ v \in Deed /\ v.at = s /\ v.op = g_call[c].op /\ v.by = g_call[c].by /\ v.r = g_call[c].r
        /\ v.n = g_call[c].n /\ v.row = g_call[c].row /\ v.set = g_call[c].set
    BY <1>1 DEF Deed, Stage
  <1>3. g_call' = [g_call EXCEPT ![c] = v]
    BY <1>1
  <1> HIDE DEF v
  <1> QED
    BY <1>2, <1>3

LEMMA Ending ==
  ASSUME NEW c \in Calls, Site!Answered(c)
  PROVE  Turns(c, Site!NoCall)
  BY NoDeed DEF Turns, Site!Answered

\* Where nobody is at a step, nobody counts.
LEMMA NoneAt ==
  ASSUME PageShape, NEW S, \A c \in Calls : g_call[c].at \notin S
  PROVE  N(At(S)) = 0
  <1>1. Doing(At(S)) = {}
    BY DEF Doing, At, PageShape
  <1> QED
    BY <1>1, FS_EmptySet DEF N

\* A step that writes nothing: a request that finds nothing to do, or looks.
LEMMA PageQuits ==
  ASSUME PageInv, NEW c \in Calls, NEW v, Turns(c, v),
         UNCHANGED <<g_page, g_contrib, g_res, g_liked, g_store, g_owed, g_paid, g_gave, g_hidden, g_torn, g_left,
                     g_askew, g_raced, g_unpaid, g_reqs>>, g_faults' \in 0..MaxFault,
         g_call[c].at \in {"insert", "adopt", "post", "row", "save", "delete", "like", "list"},
         v.at \in {"idle", "erase"}, v.r = {},
         v.at = "erase" => \A r \in v.set : g_res[r].at # "none"
  PROVE  PageInv'
  <1>2. PageShape /\ Owned /\ Placed /\ Counted /\ Faceted /\ Hearted /\ Earned /\ Filed /\ Site!HiddenStays /\ PageBounds
    BY DEF PageInv
  <1>3. Site!Here' = Site!Here /\ Site!FacetsOf(Site!Here)' = Site!FacetsOf(Site!Here) /\ (Site!Exists' <=> Site!Exists)
    BY DEF Site!Here, Site!FacetsOf, Site!Exists
  <1>5. PageShape'
    BY <1>2, Turned DEF PageShape
  <1>6. Owned'
    BY <1>2, <1>3 DEF Owned
  <1>7. Placed'
    <2>1. \A r \in Resources : g_res[r].at = "none" => g_liked[r] = 0 /\ r \notin g_hidden
      BY <1>2 DEF Placed
    <2> QED
      BY <1>2, <1>3, <2>1, PlacedMoves
  <1>8. Counted'
    BY <1>2, <1>3, CountedStill
  <1>9. Faceted'
    BY <1>2, <1>3, FacetedStill DEF Changing
  <1>10. Hearted'
    BY <1>2, <1>3, HeartedStill
  <1>11. Earned'
    BY <1>2, EarnedStill DEF Booked
  <1>12. Filed'
    BY <1>2, <1>3, FiledStill
  <1>13. Site!HiddenStays'
    BY <1>2, <1>3 DEF Site!HiddenStays
  <1>14. PageBounds'
    BY <1>2, BoundsStill DEF PageShape, Offer, PageRow
  <1> QED
    BY <1>5, <1>6, <1>7, <1>8, <1>9, <1>10, <1>11, <1>12, <1>13, <1>14 DEF PageInv

LEMMA ListSteps ==
  ASSUME PageInv, NEW c \in Calls, Site!ListArtifacts(c)
  PROVE  PageInv'
  <1>1. /\ g_call[c].at = "list" /\ g_call \in [Calls -> Deed] /\ g_call[c] \in Deed /\ Apt(g_call[c]) /\ PageShape
        /\ UNCHANGED <<g_page, g_contrib, g_res, g_liked, g_store, g_owed, g_paid, g_gave, g_hidden, g_torn, g_left,
                       g_askew, g_raced, g_unpaid, g_reqs>>
    BY DEF Site!ListArtifacts, PageInv, PageShape, Site!rows, Site!ledger, Site!history
  <1>2. g_faults' \in 0..MaxFault
    BY <1>1, ServicesAssumption DEF Site!ListArtifacts, PageShape, Site!Fault
  <1>3. CASE g_call' = [g_call EXCEPT ![c].at = "erase", ![c].set = Site!Here]
    <2>1. Site!Here \in SUBSET Resources /\ \A r \in Site!Here : g_res[r].at # "none"
      BY DEF Site!Here
    <2>2. PICK H \in SUBSET Resources : H = Site!Here
      BY <2>1
    <2> DEFINE v == [g_call[c] EXCEPT !.at = "erase", !.set = H]
    <2>3. v \in Deed /\ v.at = "erase" /\ v.set = H /\ v.r = g_call[c].r
      BY <1>1 DEF Deed
    <2>4. g_call' = [g_call EXCEPT ![c] = v]
      BY <1>1, <1>3, <2>2
    <2> HIDE DEF v
    <2>5. Apt(v) /\ v.r = {}
      BY <1>1, <2>3 DEF Apt
    <2> QED
      BY <1>1, <1>2, <2>1, <2>2, <2>3, <2>4, <2>5, PageQuits DEF Turns
  <1>4. CASE Site!Goes(c, "erase")
    <2>1. PICK v \in Deed : /\ g_call' = [g_call EXCEPT ![c] = v] /\ v.at = "erase"
                            /\ v.r = g_call[c].r /\ v.set = g_call[c].set
      BY <1>1, <1>4, GoesOn DEF Stage
    <2>2. Apt(v) /\ v.r = {}
      BY <1>1, <2>1 DEF Apt
    <2>3. \A r \in v.set : g_res[r].at # "none"
      BY <1>1, <2>1 DEF Apt
    <2> QED
      BY <1>1, <1>2, <2>1, <2>2, <2>3, PageQuits DEF Turns
  <1> QED
    BY <1>3, <1>4 DEF Site!ListArtifacts

\* What the invariant says of the request at c.
LEMMA PageFacts ==
  ASSUME PageInv, NEW c \in Calls
  PROVE  /\ PageShape /\ Owned /\ Placed /\ Counted /\ Faceted /\ Hearted /\ Earned /\ Filed /\ Site!HiddenStays /\ PageBounds
         /\ g_call \in [Calls -> Deed] /\ g_call[c] \in Deed /\ Apt(g_call[c])
         /\ g_reqs \in Nat /\ g_page.resources \in Nat /\ g_page.contributors \in Nat
         /\ \A r \in Resources : g_res[r] \in Offer /\ g_res[r].likes \in Nat /\ g_liked[r] \in Nat
  BY ServicesAssumption DEF PageInv, PageShape, Offer, PageRow

LEMMA EarnedMoves ==
  ASSUME PageShape, Earned, NEW c \in Calls, NEW v, Turns(c, v), g_unpaid => g_unpaid',
         ~g_unpaid' =>
           /\ g_call[c].at # "settle" /\ v.at # "settle"
           /\ \A r \in Resources : (g_liked'[r] # 0 => g_liked[r] # 0) /\ (g_res[r].at # "none" => g_res'[r].at # "none")
           /\ \A event \in {"like", "unlike"}, r \in Resources : Booked(event, r)' <=> Booked(event, r)
           /\ \A r \in Resources : Booked("delete", r)' => Booked("delete", r) \/ g_res'[r].at # "none"
           /\ \A r \in Resources : g_res'[r].at # "none" => Booked("publish", r)' \/ Publishing(r)'
  PROVE  Earned'
  <1> SUFFICES ASSUME ~g_unpaid', NEW r \in Resources
               PROVE  /\ g_liked'[r] # 0 \/ Known("unlike", r)' => Known("like", r)'
                      /\ Booked("delete", r)' => g_res'[r].at # "none"
                      /\ g_res'[r].at # "none" => Booked("publish", r)' \/ Publishing(r)'
    BY DEF Earned
  <1>1. \A event \in {"like", "unlike"} : Known(event, r)' <=> Known(event, r)
    <2> TAKE event \in {"like", "unlike"}
    <2>1. g_call[c] \notin Hearts(event, r) /\ v \notin Hearts(event, r)
      BY DEF Hearts
    <2> QED
      BY <2>1, Turned DEF Known
  <1> QED
    BY <1>1 DEF Earned

LEMMA BoundsMove ==
  ASSUME PageInv, NEW c \in Calls, NEW v, Turns(c, v), g_reqs' = g_reqs,
         g_call[c].at # "idle", v.at # "save",
         g_page'.resources + N(At({"stub", "post", "count"}))' <= g_page.resources + N(At({"stub", "post", "count"})),
         g_page'.contributors + N(Working)' <= g_page.contributors + N(Working),
         g_page'.resources \in Nat, g_page'.contributors \in Nat,
         \A r \in Resources : g_res'[r].likes + N(Working)' <= g_reqs /\ g_liked'[r] <= g_reqs
  PROVE  PageBounds'
  <1>1. /\ N(At({"stub", "post", "count"})) \in Nat /\ N(At({"stub", "post", "count"}))' \in Nat
        /\ N(Working)' <= N(Working) /\ N(Working) \in Nat /\ N(Working)' \in Nat
    BY PageFacts, AtMoves, WorkMoves
  <1>2. /\ g_reqs \in Nat /\ g_page.resources \in Nat /\ g_page.contributors \in Nat
    BY PageFacts
  <1>3. PageBounds
    BY DEF PageInv
  <1>4. \A o \in Calls : g_call'[o].at = "save" => g_call'[o] = g_call[o] /\ g_call[o].row.likes \in Nat
    BY PageFacts, Turned DEF PageShape, Apt, Offer
  <1>5. g_page'.resources + N(At({"stub", "post", "count"}))' <= g_reqs' + 1
    BY <1>1, <1>2, <1>3 DEF PageBounds
  <1>6. g_page'.contributors + N(Working)' <= g_reqs' + 1
    BY <1>1, <1>2, <1>3 DEF PageBounds
  <1>8. \A o \in Calls : g_call'[o].at = "save" => g_call'[o].row.likes + N(Working)' <= g_reqs'
    BY <1>1, <1>2, <1>3, <1>4 DEF PageBounds
  <1> QED
    BY <1>5, <1>6, <1>8 DEF PageBounds

\* A step that writes to the page and its contributors only.
LEMMA PageMoves ==
  ASSUME PageInv, NEW c \in Calls, NEW v, Turns(c, v),
         UNCHANGED <<g_res, g_liked, g_store, g_hidden, g_torn, g_left, g_unpaid, g_reqs, g_faults>>,
         g_page' \in PageRow,
         g_contrib' \subseteq Users, IsFiniteSet(g_contrib'), g_gave' \subseteq Users,
         g_askew' \in BOOLEAN, g_raced' \in BOOLEAN,
         g_call[c].at \in {"insert", "adopt", "stub", "count", "gather", "write", "index", "row", "contributor", "uncount"},
         v.at \in {"idle", "post", "gather", "write", "index", "row", "contributor"},
         v.r = {} \/ v.r = g_call[c].r, v.at = "post" <=> g_call[c].at = "stub",
         Owned', Counted', Faceted', Earned',
         g_page'.resources + N(At({"stub", "post", "count"}))' <= g_page.resources + N(At({"stub", "post", "count"})),
         g_page'.contributors + N(Working)' <= g_page.contributors + N(Working)
  PROVE  PageInv'
  <1>2. PageShape /\ Owned /\ Placed /\ Counted /\ Faceted /\ Hearted /\ Earned /\ Filed /\ Site!HiddenStays /\ PageBounds
    BY DEF PageInv
  <1>3. Site!Here' = Site!Here
    BY DEF Site!Here
  <1>4. v.at # "settle" /\ v.at # "save" /\ v.at \notin {"stub", "erase", "sweep", "unstore"}
        /\ g_call[c].at # "settle" /\ g_call[c].at \notin {"unstore", "sweep", "idle"}
    OBVIOUS
  <1>5. PageShape'
    BY <1>2, Turned DEF PageShape
  <1>7. Placed'
    <2>1. \A r \in Resources : g_res[r].at = "none" => g_liked[r] = 0 /\ r \notin g_hidden
      BY <1>2 DEF Placed
    <2>2. ASSUME NEW r \in v.r
          PROVE  IF v.at \in {"stub", "post"} THEN g_res'[r].at = "none" /\ \A o \in Calls : r \in g_call[o].r => o = c
                 ELSE g_res'[r].at # "none"
      <3>1. r \in g_call[c].r
        BY <2>2
      <3> QED
        BY <1>2, <1>4, <3>1 DEF Placed
    <2>3. \A o \in Calls : v.r \cap g_call[o].r # {} /\ g_call[o].at \in {"stub", "post"} => o = c
      BY <1>2 DEF Placed
    <2> QED
      BY <1>2, <1>3, <1>4, <2>1, <2>2, <2>3, PlacedMoves
  <1>10. Hearted'
    BY <1>2, <1>3, <1>4, HeartedStill
  <1>12. Filed'
    BY <1>2, <1>3, <1>4, FiledStill
  <1>13. Site!HiddenStays'
    BY <1>2, <1>3 DEF Site!HiddenStays
  <1>14. PageBounds'
    <2>1. N(Working)' <= N(Working) /\ N(Working) \in Nat /\ N(Working)' \in Nat
      BY <1>2, <1>4, WorkMoves
    <2>2. \A r \in Resources : g_res'[r].likes + N(Working)' <= g_reqs /\ g_liked'[r] <= g_reqs
      BY <1>2, <2>1, PageFacts DEF PageBounds
    <2>3. g_page'.resources \in Nat /\ g_page'.contributors \in Nat
      BY DEF PageRow
    <2> QED
      BY <1>4, <2>2, <2>3, BoundsMove
  <1> QED
    BY <1>5, <1>7, <1>10, <1>12, <1>13, <1>14 DEF PageInv

\* With nobody settling no count is under way.
LEMMA NoneSettling ==
  ASSUME PageShape, Site!Settling = {}
  PROVE  /\ N(At({"count"})) = 0 /\ N(At({"unstore", "uncount"})) = 0 /\ N(At({"contributor"})) = 0
         /\ \A c \in Calls : g_call[c].at # "write"
  <1>1. \A c \in Calls : g_call[c].at \notin {"count", "write", "contributor", "unstore", "uncount"}
    BY DEF Site!Settling
  <1>2. \A c \in Calls : g_call[c].at \notin {"count"} /\ g_call[c].at \notin {"unstore", "uncount"}
                         /\ g_call[c].at \notin {"contributor"}
    BY <1>1
  <1> QED
    BY <1>1, <1>2, NoneAt

\* The page appears with counters that come to its contributors.
LEMMA Appears ==
  ASSUME PageInv, NEW c \in Calls, NEW v, Turns(c, v), ~Site!Exists, g_res' = g_res,
         g_call[c].at \in {"insert", "stub"}, v.at \in {"idle", "post"},
         g_page'.resources = 0, g_page'.facets = {}, g_page'.contributors = Cardinality(g_contrib'),
         g_page'.contributors \in Nat, ~g_askew' => Site!Settling = {}
  PROVE  Counted' /\ Faceted'
  <1>1. PageShape /\ Owned
    BY DEF PageInv
  <1>2. Site!Here = {} /\ Site!Here' = {} /\ Site!FacetsOf(Site!Here)' = {}
    BY <1>1 DEF Owned, Site!Exists, Site!Here, Site!FacetsOf
  <1>3. Cardinality(Site!Here') = 0
    BY <1>2, FS_EmptySet
  <1>4. /\ N(At({"count"}))' = N(At({"count"})) /\ N(At({"unstore", "uncount"}))' = N(At({"unstore", "uncount"}))
        /\ N(At({"contributor"}))' = N(At({"contributor"}))
    BY <1>1, AtMoves
  <1>5. Counted'
    <2> SUFFICES ASSUME ~g_askew', Site!Exists'
                 PROVE  /\ g_page'.resources + N(At({"count"}))' = Cardinality(Site!Here') + N(At({"unstore", "uncount"}))'
                        /\ g_page'.contributors + N(At({"contributor"}))' = Cardinality(g_contrib')
      BY DEF Counted
    <2>1. N(At({"count"})) = 0 /\ N(At({"unstore", "uncount"})) = 0 /\ N(At({"contributor"})) = 0
      BY <1>1, NoneSettling
    <2> QED
      BY <1>3, <1>4, <2>1
  <1>6. Faceted'
    <2> SUFFICES ASSUME ~g_askew'
                 PROVE  /\ \A o \in Calls : g_call'[o].at = "write" => g_call'[o].set = Site!FacetsOf(Site!Here)'
                        /\ g_page'.facets = Site!FacetsOf(Site!Here)'
      BY DEF Faceted
    <2>1. \A o \in Calls : g_call'[o].at # "write"
      BY <1>1, NoneSettling, Turned
    <2> QED
      BY <1>2, <2>1
  <1> QED
    BY <1>5, <1>6

LEMMA PageInserts ==
  ASSUME PageInv, NEW c \in Calls, Site!InsertPage(c)
  PROVE  PageInv'
  <1> DEFINE v == Site!NoCall
             u == g_call[c].by
  <1>1. /\ g_call[c].at = "insert" /\ Turns(c, v) /\ v.at = "idle" /\ v.r = {} /\ v.op = "none"
        /\ UNCHANGED <<g_res, g_liked, g_store, g_paid, g_hidden, g_torn, g_left, g_raced, g_unpaid, g_reqs, g_faults>>
    BY Ending, NoDeed DEF Site!InsertPage, Site!bounds
  <1>2. PageShape /\ Owned /\ Earned /\ PageBounds /\ g_call[c].op \in {"create", "claim"} /\ u \in Users
        /\ g_faults \in 0..MaxFault
    BY <1>1, PageFacts DEF Apt, PageShape
  <1>3. CASE Site!Exists
    <2>1. UNCHANGED <<g_page, g_contrib, g_owed, g_gave, g_askew>>
      BY <1>3 DEF Site!InsertPage
    <2> QED
      BY <1>1, <1>2, <2>1, PageQuits
  <1>4. CASE ~Site!Exists
    <2>1. /\ g_page' = [Site!NoPage EXCEPT !.at = "own", !.by = u, !.contributors = 1]
          /\ g_contrib' = {u} /\ g_gave' = {u} /\ g_owed' = g_owed \cup {<<g_call[c].op, {}>>}
          /\ g_askew' = (g_askew \/ Site!Settling # {})
      BY <1>4 DEF Site!InsertPage, Site!Owes
    <2>2. /\ g_page' \in PageRow
          /\ g_page'.at = "own" /\ g_page'.by = u /\ g_page'.resources = 0 /\ g_page'.contributors = 1 /\ g_page'.facets = {}
      BY <1>2, <2>1 DEF Site!NoPage, Site!NoUser, PageRow
    <2>3. g_askew' \in BOOLEAN /\ g_raced' \in BOOLEAN /\ (~g_askew' => Site!Settling = {})
      BY <1>1, <1>2, <2>1, Zenon DEF PageShape
    <2>4. g_contrib' \subseteq Users /\ IsFiniteSet(g_contrib') /\ g_gave' \subseteq Users /\ Cardinality(g_contrib') = 1
      BY <1>2, <2>1, FS_Singleton
    <2>5. Owned'
      BY <2>1, <2>2 DEF Owned
    <2>6. Counted' /\ Faceted'
      <3> HIDE DEF v
      <3> QED
        BY <1>1, <1>4, <2>2, <2>3, <2>4, Appears
    <2>7. \A event \in {"like", "unlike", "publish", "delete"}, r \in Resources : Booked(event, r)' <=> Booked(event, r)
      BY <1>1, <2>1 DEF Booked
    <2>8. Earned'
      <3> HIDE DEF v
      <3> QED
        BY <1>1, <1>2, <2>7, EarnedStill
    <2>9. /\ g_page'.resources + N(At({"stub", "post", "count"}))' <= g_page.resources + N(At({"stub", "post", "count"}))
          /\ g_page'.contributors + N(Working)' <= g_page.contributors + N(Working)
      <3>1. g_page.resources = 0 /\ g_page.contributors = 0
        BY <1>2, <1>4 DEF Owned, Site!Exists, Site!NoPage
      <3>2. /\ N(At({"stub", "post", "count"}))' = N(At({"stub", "post", "count"}))
            /\ N(At({"stub", "post", "count"})) \in Nat
        BY <1>1, <1>2, AtMoves
      <3>3. N(Working) = N(Working)' + 1 /\ N(Working)' \in Nat
        BY <1>1, <1>2, WorkMoves
      <3> QED
        BY <2>2, <3>1, <3>2, <3>3
    <2> HIDE DEF v
    <2> QED
      BY <1>1, <2>2, <2>3, <2>4, <2>5, <2>6, <2>8, <2>9, PageMoves
  <1> QED
    BY <1>3, <1>4

LEMMA StubAdopted ==
  ASSUME PageInv, NEW c \in Calls, Site!AdoptStub(c)
  PROVE  PageInv'
  <1> DEFINE v == Site!NoCall
             u == g_call[c].by
  <1>1. /\ g_call[c].at = "adopt" /\ Turns(c, v) /\ v.at = "idle" /\ v.r = {} /\ v.op = "none"
        /\ UNCHANGED <<g_res, g_liked, g_store, g_paid, g_hidden, g_torn, g_left, g_askew, g_raced, g_unpaid, g_reqs,
                       g_faults>>
    BY Ending, NoDeed DEF Site!AdoptStub, Site!Adopt, Site!bounds
  <1>2. PageShape /\ Owned /\ Counted /\ Faceted /\ Earned /\ u \in Users /\ g_faults \in 0..MaxFault
    BY <1>1, PageFacts DEF Apt, PageShape
  <1>3. CASE g_page.at # "stub"
    <2>1. UNCHANGED <<g_page, g_contrib, g_owed, g_gave>>
      BY <1>3 DEF Site!AdoptStub, Site!Adopt
    <2> QED
      BY <1>1, <1>2, <2>1, PageQuits
  <1>4. CASE g_page.at = "stub"
    <2> DEFINE k == IF u \in g_contrib THEN 0 ELSE 1
    <2>1. /\ g_page' = [g_page EXCEPT !.at = "own", !.by = u, !.contributors = @ + k]
          /\ g_contrib' = g_contrib \cup {u} /\ g_gave' = g_gave \cup {u} /\ g_owed' = g_owed \cup {<<"create", {}>>}
      BY <1>4 DEF Site!AdoptStub, Site!Adopt, Site!Owes
    <2>2. g_gave = {} /\ g_page \in PageRow
      BY <1>2, <1>4 DEF Owned, PageShape
    <2>3. k \in 0..1
      OBVIOUS
    <2>4. /\ g_page' \in PageRow
          /\ g_page'.at = "own" /\ g_page'.by = u /\ g_page'.resources = g_page.resources
          /\ g_page'.contributors = g_page.contributors + k /\ g_page'.facets = g_page.facets
      <3>1. PICK m \in Nat : m = g_page.contributors + k
        BY <2>2, <2>3, PageFacts
      <3>2. g_page' = [g_page EXCEPT !.at = "own", !.by = u, !.contributors = m]
        BY <2>1, <3>1
      <3> HIDE DEF k
      <3> QED
        BY <1>2, <2>2, <3>1, <3>2 DEF PageRow
    <2>5. Cardinality(g_contrib') = Cardinality(g_contrib) + k /\ Cardinality(g_contrib) \in Nat
          /\ IsFiniteSet(g_contrib') /\ g_contrib' \subseteq Users /\ g_gave' \subseteq Users
      <3>1. IsFiniteSet(g_contrib) /\ g_contrib \subseteq Users
        BY <1>2 DEF PageShape
      <3>2. Cardinality(g_contrib) \in Nat
        BY <3>1, FS_CardinalityType
      <3>3. IsFiniteSet(g_contrib') /\ Cardinality(g_contrib') =
              IF u \in g_contrib THEN Cardinality(g_contrib) ELSE Cardinality(g_contrib) + 1
        BY <2>1, <3>1, FS_AddElement
      <3>4. Cardinality(g_contrib') = Cardinality(g_contrib) + k
        BY <3>2, <3>3
      <3> QED
        BY <1>2, <2>1, <2>2, <3>1, <3>2, <3>3, <3>4
    <2>6. Owned'
      BY <2>1, <2>2, <2>4 DEF Owned
    <2>7. Counted'
      <3> SUFFICES ASSUME ~g_askew', Site!Exists'
                   PROVE  /\ g_page'.resources + N(At({"count"}))' = Cardinality(Site!Here') + N(At({"unstore", "uncount"}))'
                          /\ g_page'.contributors + N(At({"contributor"}))' = Cardinality(g_contrib')
        BY DEF Counted
      <3>1. /\ N(At({"count"}))' = N(At({"count"})) /\ N(At({"unstore", "uncount"}))' = N(At({"unstore", "uncount"}))
            /\ N(At({"contributor"}))' = N(At({"contributor"})) /\ N(At({"contributor"})) \in Nat
        BY <1>1, <1>2, AtMoves
      <3>2. Site!Here' = Site!Here /\ Site!Exists
        BY <1>1, <1>4 DEF Site!Here, Site!Exists
      <3>3. /\ g_page.resources + N(At({"count"})) = Cardinality(Site!Here) + N(At({"unstore", "uncount"}))
            /\ g_page.contributors + N(At({"contributor"})) = Cardinality(g_contrib)
        BY <1>1, <1>2, <3>2 DEF Counted
      <3>4. g_page.contributors \in Nat
        BY PageFacts
      <3> HIDE DEF k
      <3>5. g_page'.contributors + N(At({"contributor"}))' = Cardinality(g_contrib')
        BY <2>3, <2>4, <2>5, <3>1, <3>3, <3>4
      <3> QED
        BY <2>4, <3>1, <3>2, <3>3, <3>5
    <2>8. Faceted'
      <3>1. Site!FacetsOf(Site!Here)' = Site!FacetsOf(Site!Here) /\ Site!Exists
        BY <1>1, <1>4 DEF Site!Here, Site!FacetsOf, Site!Exists
      <3> HIDE DEF v
      <3> QED
        BY <1>1, <1>2, <2>4, <3>1, FacetedStill DEF Changing
    <2>9. \A event \in {"like", "unlike", "publish", "delete"}, r \in Resources : Booked(event, r)' <=> Booked(event, r)
      BY <1>1, <2>1 DEF Booked
    <2>10. Earned'
      <3> HIDE DEF v
      <3> QED
        BY <1>1, <1>2, <2>9, EarnedStill
    <2>11. /\ g_page'.resources + N(At({"stub", "post", "count"}))' <= g_page.resources + N(At({"stub", "post", "count"}))
           /\ g_page'.contributors + N(Working)' <= g_page.contributors + N(Working)
      <3>1. g_page.resources \in Nat /\ g_page.contributors \in Nat
        BY PageFacts
      <3>2. /\ N(At({"stub", "post", "count"}))' = N(At({"stub", "post", "count"}))
            /\ N(At({"stub", "post", "count"})) \in Nat
        BY <1>1, <1>2, AtMoves
      <3>3. N(Working) = N(Working)' + 1 /\ N(Working)' \in Nat
        BY <1>1, <1>2, WorkMoves
      <3> HIDE DEF k
      <3> QED
        BY <2>3, <2>4, <3>1, <3>2, <3>3
    <2>12. g_askew' \in BOOLEAN /\ g_raced' \in BOOLEAN
      BY <1>1, <1>2 DEF PageShape
    <2> HIDE DEF v
    <2> QED
      BY <1>1, <2>4, <2>5, <2>6, <2>7, <2>8, <2>10, <2>11, <2>12, PageMoves
  <1> QED
    BY <1>3, <1>4

LEMMA StubInserted ==
  ASSUME PageInv, NEW c \in Calls, Site!InsertStub(c)
  PROVE  PageInv'
  <1>1. /\ g_call[c].at = "stub" /\ Site!Goes(c, "post")
        /\ UNCHANGED <<g_contrib, g_res, g_liked, g_store, g_owed, g_paid, g_gave, g_hidden, g_torn, g_left, g_raced,
                       g_unpaid, g_reqs, g_faults>>
        /\ g_askew' = (g_askew \/ (~Site!Exists /\ Site!Settling # {}))
    BY DEF Site!InsertStub, Site!bounds, Site!ledger
  <1>2. /\ PageShape /\ Owned /\ Counted /\ Faceted /\ Earned /\ g_call[c] \in Deed /\ Apt(g_call[c])
        /\ g_call[c].by \in Users /\ g_page.resources \in Nat /\ g_page.contributors \in Nat
    BY <1>1, PageFacts DEF Apt
  <1>3. PICK v \in Deed : /\ g_call' = [g_call EXCEPT ![c] = v] /\ v.at = "post"
                          /\ v.op = g_call[c].op /\ v.by = g_call[c].by /\ v.r = g_call[c].r
    BY <1>1, <1>2, GoesOn DEF Stage
  <1>4. Turns(c, v)
    BY <1>1, <1>2, <1>3 DEF Turns, Apt
  <1>5. g_askew' \in BOOLEAN /\ g_raced' \in BOOLEAN /\ (g_askew => g_askew')
    BY <1>1, <1>2, Zenon DEF PageShape
  <1>6. /\ N(At({"stub", "post", "count"}))' = N(At({"stub", "post", "count"})) /\ N(At({"stub", "post", "count"})) \in Nat
        /\ N(Working)' = N(Working) /\ N(Working) \in Nat
    BY <1>1, <1>2, <1>3, <1>4, AtMoves, WorkMoves
  <1>7. /\ g_contrib' \subseteq Users /\ IsFiniteSet(g_contrib') /\ g_gave' \subseteq Users
    BY <1>1, <1>2 DEF PageShape
  <1>8. Earned'
    <2>1. \A event \in {"like", "unlike", "publish", "delete"}, r \in Resources : Booked(event, r)' <=> Booked(event, r)
      BY <1>1 DEF Booked
    <2> QED
      BY <1>1, <1>2, <1>3, <1>4, <2>1, EarnedStill
  <1>9. CASE Site!Exists
    <2>1. g_page' = g_page
      BY <1>9 DEF Site!InsertStub
    <2>2. Owned' /\ Counted' /\ Faceted'
      <3>1. Site!FacetsOf(Site!Here)' = Site!FacetsOf(Site!Here) /\ Site!Here' = Site!Here /\ (Site!Exists' <=> Site!Exists)
        BY <1>1, <2>1 DEF Site!Here, Site!FacetsOf, Site!Exists
      <3>2. Owned'
        BY <1>1, <1>2, <2>1, <3>1 DEF Owned
      <3>3. Counted'
        BY <1>1, <1>2, <1>3, <1>4, <1>5, <2>1, <3>1, CountedStill
      <3>4. Faceted'
        BY <1>1, <1>2, <1>3, <1>4, <1>5, <2>1, <3>1, FacetedStill DEF Changing
      <3> QED
        BY <3>2, <3>3, <3>4
    <2>3. g_page' \in PageRow
      BY <1>2, <2>1 DEF PageShape
    <2>4. /\ g_page'.resources + N(At({"stub", "post", "count"}))' <= g_page.resources + N(At({"stub", "post", "count"}))
          /\ g_page'.contributors + N(Working)' <= g_page.contributors + N(Working)
      BY <1>2, <1>6, <2>1
    <2> QED
      BY <1>1, <1>3, <1>4, <1>5, <1>7, <1>8, <2>2, <2>3, <2>4, PageMoves
  <1>10. CASE ~Site!Exists
    <2>1. g_page' = [Site!NoPage EXCEPT !.at = "stub", !.by = g_call[c].by]
      BY <1>10 DEF Site!InsertStub
    <2>2. /\ g_page' \in PageRow
          /\ g_page'.at = "stub" /\ g_page'.resources = 0 /\ g_page'.contributors = 0 /\ g_page'.facets = {}
      BY <1>2, <2>1 DEF Site!NoPage, Site!NoUser, PageRow
    <2>3. g_contrib = {} /\ g_gave = {} /\ g_page.resources = 0 /\ g_page.contributors = 0
      BY <1>2, <1>10 DEF Owned, Site!Exists, Site!NoPage
    <2>4. Owned'
      BY <1>1, <2>2, <2>3 DEF Owned
    <2>5. g_page'.contributors = Cardinality(g_contrib') /\ (~g_askew' => Site!Settling = {})
      BY <1>1, <1>5, <1>10, <2>2, <2>3, FS_EmptySet
    <2>6. Counted' /\ Faceted'
      BY <1>1, <1>3, <1>4, <1>10, <2>2, <2>5, Appears
    <2>7. /\ g_page'.resources + N(At({"stub", "post", "count"}))' <= g_page.resources + N(At({"stub", "post", "count"}))
          /\ g_page'.contributors + N(Working)' <= g_page.contributors + N(Working)
      BY <1>6, <2>2, <2>3
    <2> QED
      BY <1>1, <1>3, <1>4, <1>5, <1>7, <1>8, <2>2, <2>4, <2>6, <2>7, PageMoves
  <1> QED
    BY <1>9, <1>10

\* What stays as it was, stays booked.
LEMMA BookedStill ==
  ASSUME g_owed' = g_owed, g_paid' = g_paid
  PROVE  \A event \in {"like", "unlike", "publish", "delete"}, r \in Resources : Booked(event, r)' <=> Booked(event, r)
  BY DEF Booked

LEMMA CountSteps ==
  ASSUME PageInv, NEW c \in Calls, Site!Count(c)
  PROVE  PageInv'
  <1>1. /\ g_call[c].at = "count" /\ Site!Goes(c, "gather")
        /\ g_page' = IF Site!Exists THEN [g_page EXCEPT !.resources = @ + 1] ELSE g_page
        /\ UNCHANGED <<g_contrib, g_res, g_liked, g_store, g_owed, g_paid, g_gave, g_hidden, g_torn, g_left, g_askew, g_raced,
                       g_unpaid, g_reqs, g_faults>>
    BY DEF Site!Count, Site!OnThePage, Site!bounds, Site!ledger, Site!history
  <1>2. /\ PageShape /\ Owned /\ Counted /\ Faceted /\ Earned /\ g_call[c] \in Deed /\ Apt(g_call[c])
        /\ g_page \in PageRow /\ g_page.resources \in Nat /\ g_page.contributors \in Nat
    BY PageFacts DEF PageShape, PageRow
  <1>3. PICK v \in Deed : /\ g_call' = [g_call EXCEPT ![c] = v] /\ v.at = "gather"
                          /\ v.op = g_call[c].op /\ v.by = g_call[c].by /\ v.r = g_call[c].r
    BY <1>1, <1>2, GoesOn DEF Stage
  <1>4. Turns(c, v)
    BY <1>1, <1>2, <1>3 DEF Turns, Apt
  <1>5. g_askew' \in BOOLEAN /\ g_raced' \in BOOLEAN /\ g_contrib' \subseteq Users /\ IsFiniteSet(g_contrib')
        /\ g_gave' \subseteq Users
    BY <1>1, <1>2 DEF PageShape
  <1>6. /\ g_page' \in PageRow /\ g_page'.at = g_page.at /\ g_page'.by = g_page.by
        /\ g_page'.contributors = g_page.contributors /\ (Site!Exists => g_page'.resources = g_page.resources + 1)
        /\ (~Site!Exists => g_page' = g_page) /\ g_page'.resources <= g_page.resources + 1
    BY <1>1, <1>2 DEF PageRow
  <1>7. Site!Here' = Site!Here /\ (Site!Exists' <=> Site!Exists)
    BY <1>1, <1>6 DEF Site!Here, Site!Exists
  <1>8. Owned'
    BY <1>1, <1>2, <1>6, <1>7 DEF Owned, Site!Exists
  <1>9. Counted'
    <2> SUFFICES ASSUME ~g_askew', Site!Exists'
                 PROVE  /\ g_page'.resources + N(At({"count"}))' = Cardinality(Site!Here') + N(At({"unstore", "uncount"}))'
                        /\ g_page'.contributors + N(At({"contributor"}))' = Cardinality(g_contrib')
      BY DEF Counted
    <2>1. /\ N(At({"count"})) = N(At({"count"}))' + 1 /\ N(At({"count"}))' \in Nat
          /\ N(At({"unstore", "uncount"}))' = N(At({"unstore", "uncount"}))
          /\ N(At({"contributor"}))' = N(At({"contributor"}))
      BY <1>1, <1>2, <1>3, <1>4, AtMoves
    <2>2. /\ g_page.resources + N(At({"count"})) = Cardinality(Site!Here) + N(At({"unstore", "uncount"}))
          /\ g_page.contributors + N(At({"contributor"})) = Cardinality(g_contrib)
      BY <1>1, <1>2, <1>7 DEF Counted
    <2> QED
      BY <1>1, <1>2, <1>6, <1>7, <2>1, <2>2
  <1>10. Faceted'
    BY <1>2, <1>3, <1>4, FacetedBusy DEF Changing
  <1>11. Earned'
    BY <1>1, <1>2, <1>3, <1>4, EarnedStill, BookedStill
  <1>12. /\ g_page'.resources + N(At({"stub", "post", "count"}))' <= g_page.resources + N(At({"stub", "post", "count"}))
         /\ g_page'.contributors + N(Working)' <= g_page.contributors + N(Working)
    <2>1. N(At({"stub", "post", "count"})) = N(At({"stub", "post", "count"}))' + 1 /\ N(At({"stub", "post", "count"}))' \in Nat
      BY <1>1, <1>2, <1>3, <1>4, AtMoves
    <2>2. N(Working)' = N(Working) /\ N(Working) \in Nat
      BY <1>1, <1>2, <1>3, <1>4, WorkMoves
    <2>3. g_page'.resources \in Nat
      BY <1>6 DEF PageRow
    <2> QED
      BY <1>2, <1>6, <2>1, <2>2, <2>3
  <1> QED
    BY <1>1, <1>3, <1>4, <1>5, <1>6, <1>8, <1>9, <1>10, <1>11, <1>12, PageMoves

LEMMA UncountSteps ==
  ASSUME PageInv, NEW c \in Calls, Site!Uncount(c)
  PROVE  PageInv'
  <1>1. /\ g_call[c].at = "uncount" /\ Site!Goes(c, "gather")
        /\ g_page' = IF Site!Exists THEN [g_page EXCEPT !.resources = IF @ = 0 THEN 0 ELSE @ - 1] ELSE g_page
        /\ g_askew' = (g_askew \/ (Site!Exists /\ g_page.resources = 0))
        /\ UNCHANGED <<g_contrib, g_res, g_liked, g_store, g_owed, g_paid, g_gave, g_hidden, g_torn, g_left, g_raced,
                       g_unpaid, g_reqs, g_faults>>
    BY DEF Site!Uncount, Site!OnThePage, Site!bounds, Site!ledger
  <1>2. /\ PageShape /\ Owned /\ Counted /\ Faceted /\ Earned /\ g_call[c] \in Deed /\ Apt(g_call[c])
        /\ g_page \in PageRow /\ g_page.resources \in Nat /\ g_page.contributors \in Nat
    BY PageFacts DEF PageShape, PageRow
  <1>3. PICK v \in Deed : /\ g_call' = [g_call EXCEPT ![c] = v] /\ v.at = "gather"
                          /\ v.op = g_call[c].op /\ v.by = g_call[c].by /\ v.r = g_call[c].r
    BY <1>1, <1>2, GoesOn DEF Stage
  <1>4. Turns(c, v)
    BY <1>1, <1>2, <1>3 DEF Turns, Apt
  <1>5. g_askew' \in BOOLEAN /\ g_raced' \in BOOLEAN /\ g_contrib' \subseteq Users /\ IsFiniteSet(g_contrib')
        /\ g_gave' \subseteq Users
    <2>1. g_askew' \in BOOLEAN
      BY <1>1, <1>2, Zenon DEF PageShape
    <2> QED
      BY <1>1, <1>2, <2>1 DEF PageShape
  <1>6. /\ g_page' \in PageRow /\ g_page'.at = g_page.at /\ g_page'.by = g_page.by
        /\ g_page'.contributors = g_page.contributors /\ g_page'.resources \in Nat /\ g_page'.resources <= g_page.resources
        /\ (Site!Exists /\ g_page.resources # 0 => g_page'.resources = g_page.resources - 1)
        /\ (~Site!Exists => g_page' = g_page)
    <2>1. PICK m \in Nat : m = IF g_page.resources = 0 THEN 0 ELSE g_page.resources - 1
      BY <1>2
    <2>2. g_page' = IF Site!Exists THEN [g_page EXCEPT !.resources = m] ELSE g_page
      BY <1>1, <2>1
    <2> QED
      BY <1>2, <2>1, <2>2 DEF PageRow
  <1>7. Site!Here' = Site!Here /\ (Site!Exists' <=> Site!Exists)
    BY <1>1, <1>6 DEF Site!Here, Site!Exists
  <1>8. Owned'
    BY <1>1, <1>2, <1>6, <1>7 DEF Owned, Site!Exists
  <1>9. Counted'
    <2> SUFFICES ASSUME ~g_askew', Site!Exists'
                 PROVE  /\ g_page'.resources + N(At({"count"}))' = Cardinality(Site!Here') + N(At({"unstore", "uncount"}))'
                        /\ g_page'.contributors + N(At({"contributor"}))' = Cardinality(g_contrib')
      BY DEF Counted
    <2>1. /\ N(At({"count"}))' = N(At({"count"})) /\ N(At({"count"})) \in Nat
          /\ N(At({"unstore", "uncount"})) = N(At({"unstore", "uncount"}))' + 1
          /\ N(At({"unstore", "uncount"}))' \in Nat
          /\ N(At({"contributor"}))' = N(At({"contributor"}))
      BY <1>1, <1>2, <1>3, <1>4, AtMoves
    <2>2. ~g_askew /\ Site!Exists /\ g_page.resources # 0
      BY <1>1, <1>7
    <2>3. /\ g_page.resources + N(At({"count"})) = Cardinality(Site!Here) + N(At({"unstore", "uncount"}))
          /\ g_page.contributors + N(At({"contributor"})) = Cardinality(g_contrib)
      BY <1>2, <2>2 DEF Counted
    <2>4. g_page'.resources = g_page.resources - 1
      BY <1>6, <2>2
    <2>5. g_page'.resources + N(At({"count"}))' + 1 = g_page.resources + N(At({"count"}))
      BY <1>2, <2>1, <2>4
    <2>6. Cardinality(Site!Here) + N(At({"unstore", "uncount"})) = Cardinality(Site!Here) + (N(At({"unstore", "uncount"}))' + 1)
      BY <2>1
    <2>7. Cardinality(Site!Here) \in Nat
      <3>1. Site!Here \subseteq Resources
        BY DEF Site!Here
      <3>2. IsFiniteSet(Site!Here)
        BY <3>1, FeedAssumption, FS_Subset
      <3> QED
        BY <3>2, FS_CardinalityType
    <2>8. g_page'.resources + N(At({"count"}))' = Cardinality(Site!Here) + N(At({"unstore", "uncount"}))'
      BY <1>2, <1>6, <2>1, <2>3, <2>5, <2>6, <2>7
    <2> QED
      BY <1>1, <1>6, <1>7, <2>1, <2>3, <2>8
  <1>10. Faceted'
    BY <1>2, <1>3, <1>4, FacetedBusy DEF Changing
  <1>11. Earned'
    BY <1>1, <1>2, <1>3, <1>4, EarnedStill, BookedStill
  <1>12. /\ g_page'.resources + N(At({"stub", "post", "count"}))' <= g_page.resources + N(At({"stub", "post", "count"}))
         /\ g_page'.contributors + N(Working)' <= g_page.contributors + N(Working)
    <2>1. N(At({"stub", "post", "count"}))' = N(At({"stub", "post", "count"})) /\ N(At({"stub", "post", "count"})) \in Nat
      BY <1>1, <1>2, <1>3, <1>4, AtMoves
    <2>2. N(Working)' = N(Working) /\ N(Working) \in Nat
      BY <1>1, <1>2, <1>3, <1>4, WorkMoves
    <2> QED
      BY <1>2, <1>6, <2>1, <2>2
  <1> QED
    BY <1>1, <1>3, <1>4, <1>5, <1>6, <1>8, <1>9, <1>10, <1>11, <1>12, PageMoves

LEMMA GatherSteps ==
  ASSUME PageInv, NEW c \in Calls, Site!Gather(c)
  PROVE  PageInv'
  <1> DEFINE F == Site!FacetsOf(Site!Here)
  <1>1. /\ g_call[c].at = "gather" /\ g_call' = [g_call EXCEPT ![c].at = "write", ![c].set = F]
        /\ g_raced' = (g_raced \/ \E o \in Calls : g_call[o].at = "write")
        /\ UNCHANGED <<g_page, g_contrib, g_res, g_liked, g_store, g_owed, g_paid, g_gave, g_hidden, g_torn, g_left, g_askew,
                       g_unpaid, g_reqs, g_faults>>
    BY DEF Site!Gather, Site!rows, Site!bounds, Site!ledger
  <1>2. /\ PageShape /\ Owned /\ Counted /\ Faceted /\ Earned /\ g_call \in [Calls -> Deed] /\ g_call[c] \in Deed
        /\ Apt(g_call[c]) /\ g_page.resources \in Nat /\ g_page.contributors \in Nat
    BY PageFacts
  <1>3. F \in SUBSET Facets
    BY <1>2 DEF Site!FacetsOf, Site!Here, PageShape, Offer
  <1>4. PICK G \in SUBSET Facets : G = F
    BY <1>3
  <1> DEFINE v == [g_call[c] EXCEPT !.at = "write", !.set = G]
  <1>5. /\ v \in Deed /\ v.at = "write" /\ v.set = G /\ v.op = g_call[c].op /\ v.by = g_call[c].by /\ v.r = g_call[c].r
    BY <1>2, <1>4 DEF Deed
  <1>6. g_call' = [g_call EXCEPT ![c] = v]
    BY <1>1, <1>2, <1>4
  <1> HIDE DEF v
  <1>7. Turns(c, v)
    BY <1>1, <1>2, <1>4, <1>5, <1>6 DEF Turns, Apt
  <1>8. g_askew' \in BOOLEAN /\ g_raced' \in BOOLEAN /\ g_contrib' \subseteq Users /\ IsFiniteSet(g_contrib')
        /\ g_gave' \subseteq Users
    <2>1. g_raced' \in BOOLEAN
      BY <1>1, <1>2, Zenon DEF PageShape
    <2> QED
      BY <1>1, <1>2, <2>1 DEF PageShape
  <1>9. Site!Here' = Site!Here /\ (Site!Exists' <=> Site!Exists) /\ Site!FacetsOf(Site!Here)' = F
    BY <1>1 DEF Site!Here, Site!Exists, Site!FacetsOf
  <1>10. Owned'
    BY <1>1, <1>2, <1>9 DEF Owned
  <1>11. Counted'
    BY <1>1, <1>2, <1>5, <1>7, <1>9, CountedStill
  <1>12. Faceted'
    <2> SUFFICES ASSUME ~g_raced'
                 PROVE  /\ \A o \in Calls : g_call'[o].at = "write" => g_call'[o].set = F
                        /\ g_call'[c].at = "write"
      BY <1>9 DEF Faceted
    <2>1. \A o \in Calls : g_call[o].at # "write"
      BY <1>1
    <2> QED
      BY <1>2, <1>4, <1>5, <1>7, <2>1, Turned
  <1>13. Earned'
    BY <1>1, <1>2, <1>5, <1>7, EarnedStill, BookedStill
  <1>14. /\ g_page'.resources + N(At({"stub", "post", "count"}))' <= g_page.resources + N(At({"stub", "post", "count"}))
         /\ g_page'.contributors + N(Working)' <= g_page.contributors + N(Working)
    <2>1. N(At({"stub", "post", "count"}))' = N(At({"stub", "post", "count"})) /\ N(At({"stub", "post", "count"})) \in Nat
      BY <1>1, <1>2, <1>5, <1>7, AtMoves
    <2>2. N(Working)' = N(Working) /\ N(Working) \in Nat
      BY <1>1, <1>2, <1>5, <1>7, WorkMoves
    <2> QED
      BY <1>1, <1>2, <2>1, <2>2
  <1>15. g_page' \in PageRow
    BY <1>1, <1>2 DEF PageShape
  <1> HIDE DEF F
  <1> QED
    BY <1>1, <1>5, <1>7, <1>8, <1>10, <1>11, <1>12, <1>13, <1>14, <1>15, PageMoves

LEMMA WriteSteps ==
  ASSUME PageInv, NEW c \in Calls, Site!WriteFacets(c)
  PROVE  PageInv'
  <1>1. /\ g_call[c].at = "write"
        /\ g_page' = IF Site!Exists THEN [g_page EXCEPT !.facets = g_call[c].set] ELSE g_page
        /\ IF g_call[c].op = "publish" THEN Site!Goes(c, "index") ELSE Site!Answered(c)
        /\ g_owed' = IF g_call[c].op = "delete" THEN g_owed \cup {<<"delete", g_call[c].r>>} ELSE g_owed
        /\ UNCHANGED <<g_contrib, g_res, g_liked, g_store, g_paid, g_gave, g_hidden, g_torn, g_left, g_askew, g_raced,
                       g_unpaid, g_reqs, g_faults>>
    BY DEF Site!WriteFacets, Site!OnThePage, Site!Owes, Site!bounds, Site!history
  <1>2. /\ PageShape /\ Owned /\ Placed /\ Counted /\ Faceted /\ Earned /\ g_call[c] \in Deed /\ Apt(g_call[c])
        /\ g_page \in PageRow /\ g_page.resources \in Nat /\ g_page.contributors \in Nat
    BY PageFacts DEF PageShape, PageRow
  <1>3. g_call[c].set \in SUBSET Facets
    BY <1>1, <1>2 DEF Apt
  <1>4. PICK v \in Deed : /\ Turns(c, v) /\ v.at \in {"idle", "index"} /\ v.r \in {{}, g_call[c].r}
                          /\ (g_call[c].op = "publish" => v.op = "publish" /\ v.at = "index" /\ v.r = g_call[c].r)
    <2>1. CASE g_call[c].op = "publish"
      <3>1. PICK v \in Deed : /\ g_call' = [g_call EXCEPT ![c] = v] /\ v.at = "index"
                              /\ v.op = g_call[c].op /\ v.by = g_call[c].by /\ v.r = g_call[c].r
        BY <1>1, <1>2, <2>1, GoesOn DEF Stage
      <3>2. Apt(v)
        BY <1>1, <1>2, <2>1, <3>1 DEF Apt
      <3> QED
        BY <2>1, <3>1, <3>2 DEF Turns
    <2>2. CASE g_call[c].op # "publish"
      BY <1>1, <2>2, Ending, NoDeed
    <2> QED
      BY <2>1, <2>2
  <1>5. g_askew' \in BOOLEAN /\ g_raced' \in BOOLEAN /\ g_contrib' \subseteq Users /\ IsFiniteSet(g_contrib')
        /\ g_gave' \subseteq Users
    BY <1>1, <1>2 DEF PageShape
  <1>6. /\ g_page' \in PageRow /\ g_page'.at = g_page.at /\ g_page'.by = g_page.by
        /\ g_page'.contributors = g_page.contributors /\ g_page'.resources = g_page.resources
        /\ (Site!Exists => g_page'.facets = g_call[c].set) /\ (~Site!Exists => g_page' = g_page)
    BY <1>1, <1>2, <1>3 DEF PageRow
  <1>7. Site!Here' = Site!Here /\ (Site!Exists' <=> Site!Exists) /\ Site!FacetsOf(Site!Here)' = Site!FacetsOf(Site!Here)
    BY <1>1, <1>6 DEF Site!Here, Site!Exists, Site!FacetsOf
  <1>8. Owned'
    BY <1>1, <1>2, <1>6, <1>7 DEF Owned, Site!Exists
  <1>9. Counted'
    BY <1>1, <1>2, <1>4, <1>6, <1>7, CountedStill
  <1>10. Faceted'
    <2> SUFFICES ASSUME ~g_askew', ~g_raced', Site!Exists', \A o \in Calls : g_call'[o].at \notin Changing
                 PROVE  /\ \A o \in Calls : g_call'[o].at = "write" => g_call'[o].set = Site!FacetsOf(Site!Here)'
                        /\ g_page'.facets = Site!FacetsOf(Site!Here)'
      BY DEF Faceted
    <2>1. \A o \in Calls : g_call'[o] = IF o = c THEN v ELSE g_call[o]
      BY <1>2, <1>4, Turned
    <2>2. \A o \in Calls : g_call[o].at \notin Changing
      BY <1>1, <2>1 DEF Changing
    <2>3. \A o \in Calls : g_call[o].at = "write" => g_call[o].set = Site!FacetsOf(Site!Here)
      BY <1>1, <1>2, <1>7, <2>2 DEF Faceted
    <2> QED
      BY <1>1, <1>4, <1>6, <1>7, <2>1, <2>3
  <1>11. Earned'
    <2>1. \A event \in {"like", "unlike"}, r \in Resources : Booked(event, r)' <=> Booked(event, r)
      BY <1>1 DEF Booked
    <2>2. \A r \in Resources : Booked("delete", r)' => Booked("delete", r) \/ g_res'[r].at # "none"
      <3> TAKE r \in Resources
      <3>1. CASE g_call[c].op = "delete" /\ g_call[c].r = {r}
        BY <1>1, <1>2, <3>1 DEF Placed
      <3>2. CASE ~(g_call[c].op = "delete" /\ g_call[c].r = {r})
        BY <1>1, <3>2 DEF Booked
      <3> QED
        BY <3>1, <3>2
    <2>3. ASSUME ~g_unpaid', NEW r \in Resources, g_res'[r].at # "none" PROVE Booked("publish", r)' \/ Publishing(r)'
      <3>1. CASE Booked("publish", r)
        BY <1>1, <3>1 DEF Booked
      <3>2. CASE Publishing(r)
        BY <1>2, <1>4, <3>2, Turned DEF Publishing
      <3> QED
        BY <1>1, <1>2, <2>3, <3>1, <3>2 DEF Earned
    <2> QED
      BY <1>1, <1>2, <1>4, <2>1, <2>2, <2>3, EarnedMoves
  <1>12. /\ g_page'.resources + N(At({"stub", "post", "count"}))' <= g_page.resources + N(At({"stub", "post", "count"}))
         /\ g_page'.contributors + N(Working)' <= g_page.contributors + N(Working)
    <2>1. N(At({"stub", "post", "count"}))' = N(At({"stub", "post", "count"})) /\ N(At({"stub", "post", "count"})) \in Nat
      BY <1>1, <1>2, <1>4, AtMoves
    <2>2. N(Working)' <= N(Working) /\ N(Working) \in Nat /\ N(Working)' \in Nat
      BY <1>1, <1>2, <1>4, WorkMoves
    <2> QED
      BY <1>2, <1>6, <2>1, <2>2
  <1> QED
    BY <1>1, <1>4, <1>5, <1>6, <1>8, <1>9, <1>10, <1>11, <1>12, PageMoves

LEMMA IndexSteps ==
  ASSUME PageInv, NEW c \in Calls, Site!MarkIndexed(c)
  PROVE  PageInv'
  <1>1. /\ g_call[c].at = "index" /\ Site!Goes(c, "row") /\ g_owed' = g_owed \cup {<<"publish", g_call[c].r>>}
        /\ g_page' = IF Site!Exists THEN [g_page EXCEPT !.at = "own"] ELSE g_page
        /\ UNCHANGED <<g_contrib, g_res, g_liked, g_store, g_paid, g_gave, g_hidden, g_torn, g_left, g_askew, g_raced,
                       g_unpaid, g_reqs, g_faults>>
    BY DEF Site!MarkIndexed, Site!OnThePage, Site!Owes, Site!bounds, Site!history
  <1>2. /\ PageShape /\ Owned /\ Counted /\ Faceted /\ Earned /\ g_call[c] \in Deed /\ Apt(g_call[c])
        /\ g_page \in PageRow /\ g_page.resources \in Nat /\ g_page.contributors \in Nat
    BY PageFacts DEF PageShape, PageRow
  <1>3. PICK v \in Deed : /\ g_call' = [g_call EXCEPT ![c] = v] /\ v.at = "row"
                          /\ v.op = g_call[c].op /\ v.by = g_call[c].by /\ v.r = g_call[c].r
    BY <1>1, <1>2, GoesOn DEF Stage
  <1>4. Turns(c, v)
    BY <1>1, <1>2, <1>3 DEF Turns, Apt
  <1>5. g_askew' \in BOOLEAN /\ g_raced' \in BOOLEAN /\ g_contrib' \subseteq Users /\ IsFiniteSet(g_contrib')
        /\ g_gave' \subseteq Users
    BY <1>1, <1>2 DEF PageShape
  <1>6. /\ g_page' \in PageRow /\ g_page'.by = g_page.by /\ g_page'.facets = g_page.facets
        /\ g_page'.contributors = g_page.contributors /\ g_page'.resources = g_page.resources
        /\ (Site!Exists => g_page'.at = "own") /\ (~Site!Exists => g_page' = g_page)
    BY <1>1, <1>2 DEF PageRow
  <1>7. Site!Here' = Site!Here /\ (Site!Exists' <=> Site!Exists) /\ Site!FacetsOf(Site!Here)' = Site!FacetsOf(Site!Here)
    BY <1>1, <1>6 DEF Site!Here, Site!Exists, Site!FacetsOf
  <1>8. Owned'
    BY <1>1, <1>2, <1>6, <1>7 DEF Owned, Site!Exists
  <1>9. Counted'
    BY <1>1, <1>2, <1>3, <1>4, <1>6, <1>7, CountedStill
  <1>10. Faceted'
    BY <1>1, <1>2, <1>3, <1>4, <1>6, <1>7, FacetedStill DEF Changing
  <1>11. Earned'
    <2>1. /\ \A event \in {"like", "unlike"}, r \in Resources : Booked(event, r)' <=> Booked(event, r)
          /\ \A r \in Resources : Booked("delete", r)' <=> Booked("delete", r)
      BY <1>1 DEF Booked
    <2>3. ASSUME ~g_unpaid', NEW r \in Resources, g_res'[r].at # "none" PROVE Booked("publish", r)' \/ Publishing(r)'
      <3>1. CASE Booked("publish", r) \/ g_call[c].r = {r}
        BY <1>1, <3>1 DEF Booked
      <3>2. CASE Publishing(r) /\ g_call[c].r # {r}
        BY <1>2, <1>4, <3>2, Turned DEF Publishing
      <3> QED
        BY <1>1, <1>2, <2>3, <3>1, <3>2 DEF Earned
    <2> QED
      BY <1>1, <1>2, <1>3, <1>4, <2>1, <2>3, EarnedMoves
  <1>12. /\ g_page'.resources + N(At({"stub", "post", "count"}))' <= g_page.resources + N(At({"stub", "post", "count"}))
         /\ g_page'.contributors + N(Working)' <= g_page.contributors + N(Working)
    <2>1. N(At({"stub", "post", "count"}))' = N(At({"stub", "post", "count"})) /\ N(At({"stub", "post", "count"})) \in Nat
      BY <1>1, <1>2, <1>3, <1>4, AtMoves
    <2>2. N(Working)' = N(Working) /\ N(Working) \in Nat
      BY <1>1, <1>2, <1>3, <1>4, WorkMoves
    <2> QED
      BY <1>2, <1>6, <2>1, <2>2
  <1> QED
    BY <1>1, <1>3, <1>4, <1>5, <1>6, <1>8, <1>9, <1>10, <1>11, <1>12, PageMoves

LEMMA RowSteps ==
  ASSUME PageInv, NEW c \in Calls, Site!EnsureContributor(c)
  PROVE  PageInv'
  <1> DEFINE u == g_call[c].by
  <1>1. /\ g_call[c].at = "row"
        /\ UNCHANGED <<g_page, g_res, g_liked, g_store, g_owed, g_paid, g_gave, g_hidden, g_torn, g_left, g_askew, g_raced,
                       g_unpaid, g_reqs, g_faults>>
    BY DEF Site!EnsureContributor, Site!bounds, Site!ledger, Site!history
  <1>2. /\ PageShape /\ Owned /\ Counted /\ Faceted /\ Earned /\ g_call[c] \in Deed /\ Apt(g_call[c]) /\ u \in Users
        /\ g_page.resources \in Nat /\ g_page.contributors \in Nat /\ g_faults \in 0..MaxFault
    BY <1>1, PageFacts DEF Apt, PageShape
  <1>3. CASE ~(Site!Exists /\ u \notin g_contrib)
    <2>1. Site!Answered(c) /\ g_contrib' = g_contrib
      BY <1>3 DEF Site!EnsureContributor
    <2> QED
      BY <1>1, <1>2, <2>1, Ending, NoDeed, PageQuits
  <1>4. CASE Site!Exists /\ u \notin g_contrib
    <2>1. g_contrib' = g_contrib \cup {u} /\ Site!Goes(c, "contributor")
      BY <1>4 DEF Site!EnsureContributor
    <2>2. PICK v \in Deed : /\ g_call' = [g_call EXCEPT ![c] = v] /\ v.at = "contributor"
                            /\ v.op = g_call[c].op /\ v.by = g_call[c].by /\ v.r = g_call[c].r
      BY <1>2, <2>1, GoesOn DEF Stage
    <2>3. Turns(c, v)
      BY <1>1, <1>2, <2>2 DEF Turns, Apt
    <2>4. IsFiniteSet(g_contrib) /\ g_contrib \subseteq Users /\ g_gave' \subseteq Users /\ g_askew' \in BOOLEAN
          /\ g_raced' \in BOOLEAN
      BY <1>1, <1>2 DEF PageShape
    <2>5. IsFiniteSet(g_contrib') /\ Cardinality(g_contrib') = Cardinality(g_contrib) + 1 /\ Cardinality(g_contrib) \in Nat
          /\ g_contrib' \subseteq Users
      BY <1>2, <1>4, <2>1, <2>4, FS_AddElement, FS_CardinalityType
    <2>6. Site!Here' = Site!Here /\ (Site!Exists' <=> Site!Exists) /\ Site!FacetsOf(Site!Here)' = Site!FacetsOf(Site!Here)
      BY <1>1 DEF Site!Here, Site!Exists, Site!FacetsOf
    <2>7. Owned'
      BY <1>1, <1>2, <1>4, <2>6 DEF Owned, Site!Exists
    <2>8. Counted'
      <3> SUFFICES ASSUME ~g_askew'
                   PROVE  /\ g_page'.resources + N(At({"count"}))' = Cardinality(Site!Here') + N(At({"unstore", "uncount"}))'
                          /\ g_page'.contributors + N(At({"contributor"}))' = Cardinality(g_contrib')
        BY DEF Counted
      <3>1. /\ N(At({"count"}))' = N(At({"count"})) /\ N(At({"unstore", "uncount"}))' = N(At({"unstore", "uncount"}))
            /\ N(At({"contributor"}))' = N(At({"contributor"})) + 1 /\ N(At({"contributor"})) \in Nat
        BY <1>1, <1>2, <2>2, <2>3, AtMoves
      <3>2. /\ g_page.resources + N(At({"count"})) = Cardinality(Site!Here) + N(At({"unstore", "uncount"}))
            /\ g_page.contributors + N(At({"contributor"})) = Cardinality(g_contrib)
        BY <1>1, <1>2, <1>4 DEF Counted
      <3> QED
        BY <1>1, <1>2, <2>5, <2>6, <3>1, <3>2
    <2>9. Faceted'
      BY <1>1, <1>2, <2>2, <2>3, <2>6, FacetedStill DEF Changing
    <2>10. Earned'
      BY <1>1, <1>2, <2>2, <2>3, EarnedStill, BookedStill
    <2>11. /\ g_page'.resources + N(At({"stub", "post", "count"}))' <= g_page.resources + N(At({"stub", "post", "count"}))
           /\ g_page'.contributors + N(Working)' <= g_page.contributors + N(Working)
      <3>1. N(At({"stub", "post", "count"}))' = N(At({"stub", "post", "count"})) /\ N(At({"stub", "post", "count"})) \in Nat
        BY <1>1, <1>2, <2>2, <2>3, AtMoves
      <3>2. N(Working)' = N(Working) /\ N(Working) \in Nat
        BY <1>1, <1>2, <2>2, <2>3, WorkMoves
      <3> QED
        BY <1>1, <1>2, <3>1, <3>2
    <2>12. g_page' \in PageRow
      BY <1>1, <1>2 DEF PageShape
    <2> QED
      BY <1>1, <2>2, <2>3, <2>4, <2>5, <2>7, <2>8, <2>9, <2>10, <2>11, <2>12, PageMoves
  <1> QED
    BY <1>3, <1>4

LEMMA ContributorSteps ==
  ASSUME PageInv, NEW c \in Calls, Site!CountContributor(c)
  PROVE  PageInv'
  <1> DEFINE v == Site!NoCall
  <1>1. /\ g_call[c].at = "contributor" /\ Turns(c, v) /\ v.at = "idle" /\ v.r = {} /\ v.op = "none"
        /\ g_page' = IF Site!Exists THEN [g_page EXCEPT !.contributors = @ + 1] ELSE g_page
        /\ UNCHANGED <<g_contrib, g_res, g_liked, g_store, g_owed, g_paid, g_gave, g_hidden, g_torn, g_left, g_askew, g_raced,
                       g_unpaid, g_reqs, g_faults>>
    BY Ending, NoDeed DEF Site!CountContributor, Site!OnThePage, Site!bounds, Site!ledger, Site!history
  <1> HIDE DEF v
  <1>2. /\ PageShape /\ Owned /\ Counted /\ Faceted /\ Earned /\ g_call[c] \in Deed /\ Apt(g_call[c])
        /\ g_page \in PageRow /\ g_page.resources \in Nat /\ g_page.contributors \in Nat /\ g_call[c].op = "publish"
    BY <1>1, PageFacts DEF PageShape, PageRow, Apt
  <1>5. g_askew' \in BOOLEAN /\ g_raced' \in BOOLEAN /\ g_contrib' \subseteq Users /\ IsFiniteSet(g_contrib')
        /\ g_gave' \subseteq Users
    BY <1>1, <1>2 DEF PageShape
  <1>6. /\ g_page' \in PageRow /\ g_page'.at = g_page.at /\ g_page'.by = g_page.by /\ g_page'.facets = g_page.facets
        /\ g_page'.resources = g_page.resources /\ (Site!Exists => g_page'.contributors = g_page.contributors + 1)
        /\ (~Site!Exists => g_page' = g_page) /\ g_page'.contributors <= g_page.contributors + 1
    BY <1>1, <1>2 DEF PageRow
  <1>7. Site!Here' = Site!Here /\ (Site!Exists' <=> Site!Exists) /\ Site!FacetsOf(Site!Here)' = Site!FacetsOf(Site!Here)
    BY <1>1, <1>6 DEF Site!Here, Site!Exists, Site!FacetsOf
  <1>8. Owned'
    BY <1>1, <1>2, <1>6, <1>7 DEF Owned, Site!Exists
  <1>9. Counted'
    <2> SUFFICES ASSUME ~g_askew', Site!Exists'
                 PROVE  /\ g_page'.resources + N(At({"count"}))' = Cardinality(Site!Here') + N(At({"unstore", "uncount"}))'
                        /\ g_page'.contributors + N(At({"contributor"}))' = Cardinality(g_contrib')
      BY DEF Counted
    <2>1. /\ N(At({"count"}))' = N(At({"count"})) /\ N(At({"unstore", "uncount"}))' = N(At({"unstore", "uncount"}))
          /\ N(At({"contributor"})) = N(At({"contributor"}))' + 1 /\ N(At({"contributor"}))' \in Nat
      BY <1>1, <1>2, AtMoves
    <2>2. /\ g_page.resources + N(At({"count"})) = Cardinality(Site!Here) + N(At({"unstore", "uncount"}))
          /\ g_page.contributors + N(At({"contributor"})) = Cardinality(g_contrib)
      BY <1>1, <1>2, <1>7 DEF Counted
    <2> QED
      BY <1>1, <1>2, <1>6, <1>7, <2>1, <2>2
  <1>10. Faceted'
    BY <1>1, <1>2, <1>6, <1>7, FacetedStill DEF Changing
  <1>11. Earned'
    BY <1>1, <1>2, EarnedStill, BookedStill
  <1>12. /\ g_page'.resources + N(At({"stub", "post", "count"}))' <= g_page.resources + N(At({"stub", "post", "count"}))
         /\ g_page'.contributors + N(Working)' <= g_page.contributors + N(Working)
    <2>1. N(At({"stub", "post", "count"}))' = N(At({"stub", "post", "count"})) /\ N(At({"stub", "post", "count"})) \in Nat
      BY <1>1, <1>2, AtMoves
    <2>2. N(Working) = N(Working)' + 1 /\ N(Working)' \in Nat
      BY <1>1, <1>2, WorkMoves
    <2>3. g_page'.contributors \in Nat
      BY <1>6 DEF PageRow
    <2> QED
      BY <1>2, <1>6, <2>1, <2>2, <2>3
  <1> QED
    BY <1>1, <1>5, <1>6, <1>8, <1>9, <1>10, <1>11, <1>12, PageMoves

-----------------------------------------------------------------------------
(* Files and rows. *)

\* A step that leaves the rows, the ledger and the hides alone.
LEMMA RowsStay ==
  ASSUME PageInv, NEW c \in Calls, NEW v, Turns(c, v),
         UNCHANGED <<g_page, g_contrib, g_res, g_liked, g_owed, g_paid, g_gave, g_hidden, g_raced, g_reqs>>,
         g_faults' \in 0..MaxFault, g_store' \subseteq Resources, g_left' \subseteq Resources,
         g_torn' \subseteq Resources, g_torn \subseteq g_torn', g_askew' \in BOOLEAN, g_unpaid' \in BOOLEAN,
         g_askew => g_askew', g_unpaid => g_unpaid',
         g_call[c].at \notin {"idle", "stub", "post"}, v.at \in {"idle", "uncount"}, v.r = {} \/ v.r = g_call[c].r,
         ~g_askew' => /\ g_call[c].at \notin {"count", "contributor", "write"}
                      /\ g_call[c].at \in {"unstore", "uncount"} <=> v.at = "uncount"
                      /\ g_call[c].at \in Changing => v.at \in Changing,
         ~g_unpaid' => g_call[c].at \notin {"settle", "count", "gather", "write", "index"},
         g_call[c].at = "settle" => g_call[c].r \subseteq g_torn',
         Filed'
  PROVE  PageInv'
  <1>2. PageShape /\ Owned /\ Placed /\ Counted /\ Faceted /\ Hearted /\ Earned /\ Filed /\ Site!HiddenStays /\ PageBounds
    BY DEF PageInv
  <1>3. Site!Here' = Site!Here /\ Site!FacetsOf(Site!Here)' = Site!FacetsOf(Site!Here) /\ (Site!Exists' <=> Site!Exists)
    BY DEF Site!Here, Site!FacetsOf, Site!Exists
  <1>4. v.at \notin {"count", "contributor", "write", "unstore", "settle", "stub", "post", "save", "erase", "sweep"}
    OBVIOUS
  <1>5. PageShape'
    BY <1>2, Turned DEF PageShape
  <1>6. Owned'
    BY <1>2, <1>3 DEF Owned
  <1>7. Placed'
    <2>1. \A r \in Resources : g_res[r].at = "none" => g_liked[r] = 0 /\ r \notin g_hidden
      BY <1>2 DEF Placed
    <2>2. \A r \in v.r : g_res[r].at # "none"
      BY <1>2 DEF Placed
    <2>3. \A o \in Calls : v.r \cap g_call[o].r # {} /\ g_call[o].at \in {"stub", "post"} => o = c
      BY <1>2 DEF Placed
    <2> QED
      BY <1>2, <1>3, <1>4, <2>1, <2>2, <2>3, PlacedMoves
  <1>8. Counted'
    BY <1>2, <1>3, <1>4, CountedStill
  <1>9. Faceted'
    BY <1>2, <1>3, <1>4, FacetedStill
  <1>10. Hearted'
    BY <1>2, <1>3, <1>4, HeartedStill
  <1>11. Earned'
    BY <1>2, <1>4, EarnedStill, BookedStill
  <1>13. Site!HiddenStays'
    BY <1>2, <1>3 DEF Site!HiddenStays
  <1>14. PageBounds'
    BY <1>2, <1>4, BoundsStill DEF PageShape, Offer, PageRow
  <1> QED
    BY <1>5, <1>6, <1>7, <1>8, <1>9, <1>10, <1>11, <1>13, <1>14 DEF PageInv

\* The files of the request at c are taken off the store, or left.
LEMMA FilesGo ==
  ASSUME PageInv, NEW c \in Calls, NEW v, Turns(c, v), NEW S, NEW L,
         (g_call[c].at = "unstore" /\ S = g_call[c].r) \/ (g_call[c].at = "sweep" /\ S = g_call[c].set),
         g_res' = g_res, g_torn' = g_torn, g_store' = g_store \ (S \ L), g_left' = g_left \cup L
  PROVE  Filed'
  <1>1. PageShape /\ Placed /\ Filed
    BY DEF PageInv
  <1>2. Site!Here' = Site!Here /\ S \cap Site!Here \subseteq g_torn
    BY <1>1 DEF Placed, Site!Here
  <1>3. Site!Here' \ g_torn' \subseteq g_store'
    BY <1>1, <1>2 DEF Filed
  <1>4. ASSUME NEW r \in g_store' \ (Site!Here' \cup g_left')
        PROVE  \E o \in Calls : \/ g_call'[o].at = "unstore" /\ r \in g_call'[o].r
                                \/ g_call'[o].at = "sweep" /\ r \in g_call'[o].set
    <2>1. PICK o \in Calls : \/ g_call[o].at = "unstore" /\ r \in g_call[o].r
                             \/ g_call[o].at = "sweep" /\ r \in g_call[o].set
      BY <1>1, <1>2, <1>4 DEF Filed
    <2>2. r \notin S
      BY <1>4
    <2>3. o # c
      BY <2>1, <2>2
    <2> QED
      BY <1>1, <2>1, <2>3, Turned
  <1> QED
    BY <1>3, <1>4 DEF Filed

LEMMA SweepSteps ==
  ASSUME PageInv, NEW c \in Calls, Site!SoftDeleteArtifacts(c)
  PROVE  PageInv'
  <1>1. /\ g_call[c].at = "sweep" /\ Turns(c, Site!NoCall)
        /\ UNCHANGED <<g_page, g_contrib, g_res, g_liked, g_owed, g_paid, g_gave, g_hidden, g_raced, g_reqs, g_torn, g_askew,
                       g_unpaid>>
    BY Ending DEF Site!SoftDeleteArtifacts, Site!rows, Site!ledger
  <1>2. /\ PageShape /\ g_call[c].set \subseteq Resources /\ g_faults \in 0..MaxFault /\ g_store \subseteq Resources
        /\ g_left \subseteq Resources /\ g_torn \subseteq Resources /\ g_askew \in BOOLEAN /\ g_unpaid \in BOOLEAN
    BY <1>1, PageFacts DEF Apt, PageShape
  <1>3. \E L \in SUBSET g_call[c].set : g_store' = g_store \ (g_call[c].set \ L) /\ g_left' = g_left \cup L
    <2>1. CASE g_store' = g_store \ g_call[c].set /\ g_left' = g_left
      <3>1. g_store' = g_store \ (g_call[c].set \ {}) /\ g_left' = g_left \cup {}
        BY <2>1
      <3> QED
        BY <3>1
    <2>2. ASSUME NEW r \in g_call[c].set, g_store' = g_store \ (g_call[c].set \ {r}), g_left' = g_left \cup {r}
          PROVE  \E L \in SUBSET g_call[c].set : g_store' = g_store \ (g_call[c].set \ L) /\ g_left' = g_left \cup L
      BY <2>2
    <2> QED
      BY <2>1, <2>2 DEF Site!SoftDeleteArtifacts
  <1>4. PICK L \in SUBSET g_call[c].set : g_store' = g_store \ (g_call[c].set \ L) /\ g_left' = g_left \cup L
    BY <1>3
  <1>5. Filed'
    BY <1>1, <1>4, FilesGo
  <1>6. g_faults' \in 0..MaxFault
    BY <1>2, ServicesAssumption DEF Site!SoftDeleteArtifacts, Site!Fault
  <1>7. g_store' \subseteq Resources /\ g_left' \subseteq Resources
    BY <1>2, <1>4
  <1> QED
    BY <1>1, <1>2, <1>5, <1>6, <1>7, NoDeed, RowsStay DEF Changing

LEMMA UnstoreSteps ==
  ASSUME PageInv, NEW c \in Calls, Site!DeleteArtifact(c)
  PROVE  PageInv'
  <1>1. /\ g_call[c].at = "unstore" /\ Site!Goes(c, "uncount")
        /\ UNCHANGED <<g_page, g_contrib, g_res, g_liked, g_owed, g_paid, g_gave, g_hidden, g_raced, g_reqs, g_torn, g_askew,
                       g_unpaid>>
    BY DEF Site!DeleteArtifact, Site!rows, Site!ledger
  <1>2. /\ PageShape /\ g_call[c] \in Deed /\ Apt(g_call[c]) /\ g_call[c].r \subseteq Resources /\ g_faults \in 0..MaxFault
        /\ g_store \subseteq Resources /\ g_left \subseteq Resources /\ g_torn \subseteq Resources /\ g_askew \in BOOLEAN
        /\ g_unpaid \in BOOLEAN
    BY <1>1, PageFacts DEF Deed, PageShape
  <1>3. PICK v \in Deed : /\ g_call' = [g_call EXCEPT ![c] = v] /\ v.at = "uncount"
                          /\ v.op = g_call[c].op /\ v.by = g_call[c].by /\ v.r = g_call[c].r
    BY <1>1, <1>2, GoesOn DEF Stage
  <1>4. Turns(c, v)
    BY <1>1, <1>2, <1>3 DEF Turns, Apt
  <1>5. \E L \in SUBSET g_call[c].r : g_store' = g_store \ (g_call[c].r \ L) /\ g_left' = g_left \cup L
    <2>1. CASE g_store' = g_store \ g_call[c].r /\ g_left' = g_left
      <3>1. g_store' = g_store \ (g_call[c].r \ {}) /\ g_left' = g_left \cup {}
        BY <2>1
      <3> QED
        BY <3>1
    <2>2. CASE g_store' = g_store /\ g_left' = g_left \cup g_call[c].r
      <3>1. g_store' = g_store \ (g_call[c].r \ g_call[c].r)
        BY <2>2
      <3> QED
        BY <2>2, <3>1
    <2> QED
      BY <2>1, <2>2 DEF Site!DeleteArtifact
  <1>6. PICK L \in SUBSET g_call[c].r : g_store' = g_store \ (g_call[c].r \ L) /\ g_left' = g_left \cup L
    BY <1>5
  <1>7. Filed'
    BY <1>1, <1>4, <1>6, FilesGo
  <1>8. g_faults' \in 0..MaxFault
    BY <1>2, ServicesAssumption DEF Site!DeleteArtifact, Site!Fault
  <1>9. g_store' \subseteq Resources /\ g_left' \subseteq Resources
    BY <1>2, <1>6
  <1> QED
    BY <1>1, <1>2, <1>3, <1>4, <1>7, <1>8, <1>9, RowsStay DEF Changing

LEMMA DyingSteps ==
  ASSUME PageInv, NEW c \in Calls, Site!Die(c)
  PROVE  PageInv'
  <1> DEFINE L == IF g_call[c].at = "unstore" THEN g_call[c].r ELSE IF g_call[c].at = "sweep" THEN g_call[c].set ELSE {}
             T == IF g_call[c].at = "settle" THEN g_call[c].r ELSE {}
  <1>1. /\ g_call[c].at \in {"count", "gather", "write", "index", "row", "contributor", "unstore", "uncount", "sweep", "settle"}
        /\ Turns(c, Site!NoCall) /\ Site!Fault /\ g_unpaid' = TRUE
        /\ g_askew' = (g_askew \/ g_call[c].at \in {"count", "gather", "write", "contributor", "unstore", "uncount"})
        /\ g_left' = g_left \cup L /\ g_torn' = g_torn \cup T
        /\ UNCHANGED <<g_page, g_contrib, g_res, g_liked, g_store, g_owed, g_paid, g_gave, g_hidden, g_raced, g_reqs>>
    BY Ending DEF Site!Die, Site!rows, Site!ledger
  <1>2. /\ PageShape /\ Filed /\ g_call[c] \in Deed /\ Apt(g_call[c]) /\ g_call[c].r \subseteq Resources
        /\ g_faults \in 0..MaxFault /\ g_store \subseteq Resources /\ g_left \subseteq Resources
        /\ g_torn \subseteq Resources /\ g_askew \in BOOLEAN
    BY <1>1, PageFacts DEF Deed, PageShape
  <1>3. L \subseteq Resources /\ T \subseteq Resources
    BY <1>2 DEF Apt
  <1>4. g_faults' \in 0..MaxFault
    BY <1>1, <1>2, ServicesAssumption DEF Site!Fault
  <1>5. g_askew' \in BOOLEAN /\ (g_askew => g_askew')
    BY <1>1, <1>2, Zenon
  <1>6. Site!Here' = Site!Here
    BY <1>1 DEF Site!Here
  <1>7. Filed'
    BY <1>1, <1>2, <1>6, FiledStill
  <1>8. /\ ~g_askew' => g_call[c].at \notin {"count", "gather", "write", "contributor", "unstore", "uncount"}
        /\ g_call[c].at = "settle" => g_call[c].r \subseteq g_torn'
    BY <1>1
  <1>9. g_left' \subseteq Resources /\ g_torn' \subseteq Resources /\ g_torn \subseteq g_torn'
    BY <1>1, <1>2, <1>3
  <1> HIDE DEF L, T
  <1> QED
    BY <1>1, <1>2, <1>4, <1>5, <1>7, <1>8, <1>9, NoDeed, RowsStay DEF Changing

LEMMA HeartsStill ==
  ASSUME PageShape, NEW c \in Calls, NEW v, Turns(c, v), NEW r, NEW event,
         ~(g_call[c].at = "settle" /\ g_call[c].op = event /\ g_call[c].r = {r}),
         ~(v.at = "settle" /\ v.op = event /\ v.r = {r})
  PROVE  N(Hearts(event, r))' = N(Hearts(event, r)) /\ N(Hearts(event, r)) \in Nat
  <1> DEFINE T == Hearts(event, r)
  <1>1. g_call \in [Calls -> Deed] /\ g_call' = [g_call EXCEPT ![c] = v]
    BY DEF PageShape, Turns
  <1>2. g_call[c] \notin T /\ v \notin T
    BY DEF Hearts
  <1>3. N(T)' = N(T) /\ N(T) \in Nat
    <2> HIDE DEF T
    <2> QED
      BY <1>1, <1>2, Moves
  <1> QED
    BY <1>3

LEMMA EraseSteps ==
  ASSUME PageInv, NEW c \in Calls, Site!ErasePage(c)
  PROVE  PageInv'
  <1>1. /\ g_call[c].at = "erase" /\ Site!Goes(c, "sweep")
        /\ g_left' = g_left \cup (Site!Here \ g_call[c].set)
        /\ g_res' = [r \in Resources |-> IF r \in Site!Here THEN [g_res[r] EXCEPT !.at = "gone"] ELSE g_res[r]]
        /\ g_liked' = [r \in Resources |-> 0] /\ g_contrib' = {} /\ g_page' = Site!NoPage /\ g_gave' = {}
        /\ UNCHANGED <<g_store, g_owed, g_paid, g_reqs, g_faults, g_hidden, g_torn, g_askew, g_raced, g_unpaid>>
    BY DEF Site!ErasePage, Site!bounds, Site!ledger
  <1>2. /\ PageShape /\ Placed /\ Counted /\ Hearted /\ Earned /\ Filed /\ PageBounds
        /\ g_call[c] \in Deed /\ Apt(g_call[c]) /\ g_call[c].r = {} /\ g_call[c].set \subseteq Resources
        /\ g_page.resources \in Nat /\ g_page.contributors \in Nat /\ g_reqs \in Nat
    BY <1>1, PageFacts DEF Apt
  <1>3. PICK v \in Deed : /\ g_call' = [g_call EXCEPT ![c] = v] /\ v.at = "sweep"
                          /\ v.op = g_call[c].op /\ v.by = g_call[c].by /\ v.r = g_call[c].r /\ v.set = g_call[c].set
    BY <1>1, <1>2, GoesOn DEF Stage
  <1>4. Turns(c, v)
    BY <1>1, <1>2, <1>3 DEF Turns, Apt
  <1>5. \A r \in Resources : g_res[r] \in Offer
    BY <1>2 DEF PageShape
  <1>6. \A r \in Resources : /\ g_res'[r] \in Offer /\ g_res'[r].likes = g_res[r].likes /\ g_res'[r].at # "here"
                             /\ (g_res'[r].at = "none" <=> g_res[r].at = "none") /\ g_liked'[r] = 0
    <2> TAKE r \in Resources
    <2>1. CASE r \in Site!Here
      <3>1. g_res'[r] = [g_res[r] EXCEPT !.at = "gone"] /\ g_res[r].at = "here"
        BY <1>1, <2>1 DEF Site!Here
      <3> QED
        BY <1>1, <1>5, <3>1 DEF Offer
    <2>2. CASE r \notin Site!Here
      BY <1>1, <1>5, <2>2 DEF Site!Here
    <2> QED
      BY <2>1, <2>2
  <1>7. Site!Here' = {} /\ ~Site!Exists'
    BY <1>1, <1>6 DEF Site!Here, Site!Exists, Site!NoPage
  <1>8. Site!NoPage \in PageRow /\ Site!NoPage.at = "none" /\ Site!NoPage.resources = 0
                        /\ Site!NoPage.contributors = 0
    BY DEF Site!NoPage, Site!NoUser, PageRow
  <1>9. PageShape'
    <2>1. g_res' \in [Resources -> Offer] /\ g_liked' \in [Resources -> Nat] /\ g_left' \subseteq Resources
      BY <1>1, <1>2, <1>6 DEF PageShape, Site!Here
    <2>2. IsFiniteSet(g_contrib') /\ g_contrib' \subseteq Users /\ g_gave' \subseteq Users
      BY <1>1, FS_EmptySet
    <2> QED
      BY <1>1, <1>2, <1>4, <1>8, <2>1, <2>2, Turned DEF PageShape
  <1>10. Owned'
    BY <1>1, <1>7, <1>8 DEF Owned
  <1>11. Placed'
    <2>1. \A r \in Resources : g_res'[r].at = "none" => g_liked'[r] = 0 /\ r \notin g_hidden'
      BY <1>1, <1>2, <1>6 DEF Placed
    <2>2. \A r \in v.set : g_res'[r].at # "none"
      BY <1>1, <1>2, <1>3, <1>6 DEF Placed
    <2>3. /\ \A r \in Resources : g_res[r].at # "none" => g_res'[r].at # "none"
          /\ \A r \in Resources : g_res'[r].at # "none" /\ g_res[r].at = "none" => \A o \in Calls : r \in g_call[o].r => o = c
      BY <1>6
    <2>4. v.r = {} /\ v.at = "sweep" /\ g_torn' = g_torn
      BY <1>1, <1>2, <1>3
    <2> QED
      BY <1>2, <1>4, <1>7, <2>1, <2>2, <2>3, <2>4, PlacedMoves
  <1>12. Counted' /\ Faceted'
    BY <1>7 DEF Counted, Faceted
  <1>13. Hearted'
    BY <1>7 DEF Hearted
  <1>14. Earned'
    BY <1>1, <1>2, <1>3, <1>4, <1>6, EarnedStill, BookedStill
  <1>15. Filed'
    <2> SUFFICES ASSUME NEW r \in g_store' \ g_left'
                 PROVE  \E o \in Calls : \/ g_call'[o].at = "unstore" /\ r \in g_call'[o].r
                                         \/ g_call'[o].at = "sweep" /\ r \in g_call'[o].set
      BY <1>7 DEF Filed
    <2>1. CASE r \in Site!Here
      <3>1. r \in g_call[c].set
        BY <1>1, <2>1
      <3> QED
        BY <1>2, <1>3, <1>4, <3>1, Turned
    <2>2. CASE r \notin Site!Here
      <3>1. PICK o \in Calls : \/ g_call[o].at = "unstore" /\ r \in g_call[o].r
                               \/ g_call[o].at = "sweep" /\ r \in g_call[o].set
        BY <1>1, <1>2, <2>2 DEF Filed
      <3> QED
        BY <1>1, <1>2, <1>4, <3>1, Turned
    <2> QED
      BY <2>1, <2>2
  <1>16. Site!HiddenStays'
    BY <1>7 DEF Site!HiddenStays
  <1>17. PageBounds'
    <2>1. N(At({"stub", "post", "count"}))' = N(At({"stub", "post", "count"})) /\ N(At({"stub", "post", "count"})) \in Nat
      BY <1>1, <1>2, <1>3, <1>4, AtMoves
    <2>2. N(Working)' = N(Working) /\ N(Working) \in Nat
      BY <1>1, <1>2, <1>3, <1>4, WorkMoves
    <2>3. \A r \in Resources : g_res'[r].likes + N(Working)' <= g_reqs /\ g_liked'[r] <= g_reqs
      BY <1>2, <1>6, <2>2 DEF PageBounds
    <2> QED
      BY <1>1, <1>2, <1>3, <1>4, <1>8, <2>1, <2>2, <2>3, BoundsMove
  <1> QED
    BY <1>9, <1>10, <1>11, <1>12, <1>13, <1>14, <1>15, <1>16, <1>17 DEF PageInv

\* How many resources there are, when one comes and when one goes.
LEMMA HereMoves ==
  ASSUME NEW r \in Resources
  PROVE  /\ IsFiniteSet(Site!Here) /\ Cardinality(Site!Here) \in Nat
         /\ r \notin Site!Here /\ Site!Here' = Site!Here \cup {r} => Cardinality(Site!Here') = Cardinality(Site!Here) + 1
         /\ r \in Site!Here /\ Site!Here' = Site!Here \ {r} =>
              Cardinality(Site!Here) = Cardinality(Site!Here') + 1 /\ Cardinality(Site!Here') \in Nat
  <1>1. IsFiniteSet(Site!Here)
    <2>1. Site!Here \subseteq Resources
      BY DEF Site!Here
    <2> QED
      BY <2>1, FeedAssumption, FS_Subset
  <1>2. Cardinality(Site!Here) \in Nat
    BY <1>1, FS_CardinalityType
  <1>3. ASSUME r \in Site!Here, Site!Here' = Site!Here \ {r}
        PROVE  Cardinality(Site!Here) = Cardinality(Site!Here') + 1 /\ Cardinality(Site!Here') \in Nat
    <2>1. IsFiniteSet(Site!Here') /\ Cardinality(Site!Here') = Cardinality(Site!Here) - 1
      BY <1>1, <1>3, FS_RemoveElement
    <2>2. Cardinality(Site!Here') \in Nat
      BY <2>1, FS_CardinalityType
    <2> QED
      BY <1>2, <2>1, <2>2
  <1>4. ASSUME r \notin Site!Here, Site!Here' = Site!Here \cup {r}
        PROVE  Cardinality(Site!Here') = Cardinality(Site!Here) + 1
    BY <1>1, <1>4, FS_AddElement
  <1> QED
    BY <1>1, <1>2, <1>3, <1>4

LEMMA PostSteps ==
  ASSUME PageInv, NEW c \in Calls, NEW f \in Facets, Site!InsertResource(c, f)
  PROVE  PageInv'
  <1>1. /\ g_call[c].at = "post"
        /\ UNCHANGED <<g_page, g_contrib, g_liked, g_owed, g_paid, g_gave, g_hidden, g_torn, g_left, g_askew, g_raced,
                       g_unpaid, g_reqs, g_faults>>
    BY DEF Site!InsertResource, Site!ledger, Site!bounds, Site!history
  <1>2. /\ PageShape /\ Owned /\ Placed /\ Counted /\ Hearted /\ Earned /\ Filed /\ Site!HiddenStays /\ PageBounds
        /\ g_call \in [Calls -> Deed] /\ g_call[c] \in Deed /\ Apt(g_call[c]) /\ g_call[c].op = "publish"
        /\ g_call[c].by \in Users /\ g_page.resources \in Nat /\ g_page.contributors \in Nat /\ g_reqs \in Nat
        /\ g_faults \in 0..MaxFault
    BY <1>1, PageFacts DEF Apt, PageShape
  <1>3. CASE ~Site!Exists
    <2>1. Site!Answered(c) /\ UNCHANGED <<g_res, g_store>>
      BY <1>3 DEF Site!InsertResource
    <2> QED
      BY <1>1, <1>2, <2>1, Ending, NoDeed, PageQuits
  <1>4. CASE Site!Exists
    <2>1. PICK r \in Resources : g_call[c].r = {r}
      BY <1>1, <1>2 DEF Apt
    <2>2. /\ g_res' = [g_res EXCEPT ![r] = Site!Published(f)] /\ g_store' = g_store \cup {r} /\ Site!Goes(c, "count")
      BY <1>4, <2>1, OfOne DEF Site!InsertResource
    <2>3. PICK v \in Deed : /\ g_call' = [g_call EXCEPT ![c] = v] /\ v.at = "count"
                            /\ v.op = g_call[c].op /\ v.by = g_call[c].by /\ v.r = g_call[c].r
      BY <1>2, <2>2, GoesOn DEF Stage
    <2>4. Turns(c, v)
      BY <1>1, <1>2, <2>1, <2>3 DEF Turns, Apt
    <2>5. g_res[r].at = "none" /\ g_liked[r] = 0 /\ r \notin g_hidden /\ \A o \in Calls : r \in g_call[o].r => o = c
      BY <1>1, <1>2, <2>1 DEF Placed
    <2>6. /\ g_res' \in [Resources -> Offer] /\ g_res'[r].at = "here" /\ g_res'[r].likes = 0 /\ g_res'[r].status = 0
          /\ \A x \in Resources : x # r => g_res'[x] = g_res[x]
      BY <1>2, <2>2, UnbornShape DEF PageShape
    <2>7. Site!Here' = Site!Here \cup {r} /\ r \notin Site!Here /\ (Site!Exists' <=> Site!Exists)
      BY <1>1, <2>5, <2>6 DEF Site!Here, Site!Exists
    <2>8. PageShape'
      BY <1>1, <1>2, <2>2, <2>4, <2>6, Turned DEF PageShape
    <2>9. Owned'
      BY <1>1, <1>2, <1>4 DEF Owned, Site!Exists
    <2>10. Placed'
      <3>1. \A x \in Resources : g_res'[x].at = "none" => g_liked'[x] = 0 /\ x \notin g_hidden'
        BY <1>1, <1>2, <2>6 DEF Placed
      <3>2. \A o \in Calls : v.r \cap g_call[o].r # {} /\ g_call[o].at \in {"stub", "post"} => o = c
        BY <2>1, <2>3, <2>5
      <3>3. \A x \in Resources : g_res[x].at # "none" => g_res'[x].at # "none"
        BY <2>6
      <3>4. \A x \in v.r : IF v.at \in {"stub", "post"}
                           THEN g_res'[x].at = "none" /\ \A o \in Calls : x \in g_call[o].r => o = c
                           ELSE g_res'[x].at # "none"
        BY <2>1, <2>3, <2>6
      <3>5. \A x \in Resources : g_res'[x].at # "none" /\ g_res[x].at = "none" => \A o \in Calls : x \in g_call[o].r => o = c
        BY <2>5, <2>6
      <3>6. \A x \in Site!Here' : x \in Site!Here \/ x \in g_torn' \/ g_res[x].at = "none"
        BY <2>5, <2>7
      <3> QED
        BY <1>1, <1>2, <2>3, <2>4, <3>1, <3>2, <3>3, <3>4, <3>5, <3>6, PlacedMoves
    <2>11. Counted'
      <3> SUFFICES ASSUME ~g_askew'
                   PROVE  /\ g_page'.resources + N(At({"count"}))' = Cardinality(Site!Here') + N(At({"unstore", "uncount"}))'
                          /\ g_page'.contributors + N(At({"contributor"}))' = Cardinality(g_contrib')
        BY DEF Counted
      <3>1. /\ N(At({"count"}))' = N(At({"count"})) + 1 /\ N(At({"count"})) \in Nat
            /\ N(At({"unstore", "uncount"}))' = N(At({"unstore", "uncount"})) /\ N(At({"unstore", "uncount"})) \in Nat
            /\ N(At({"contributor"}))' = N(At({"contributor"}))
        BY <1>1, <1>2, <2>3, <2>4, AtMoves
      <3>2. /\ g_page.resources + N(At({"count"})) = Cardinality(Site!Here) + N(At({"unstore", "uncount"}))
            /\ g_page.contributors + N(At({"contributor"})) = Cardinality(g_contrib)
        BY <1>1, <1>2, <1>4 DEF Counted
      <3>3. Cardinality(Site!Here') = Cardinality(Site!Here) + 1 /\ Cardinality(Site!Here) \in Nat
        BY <2>7, HereMoves
      <3> QED
        BY <1>1, <1>2, <3>1, <3>2, <3>3
    <2>12. Faceted'
      BY <1>2, <2>3, <2>4, FacetedBusy DEF Changing
    <2>13. Hearted'
      <3> SUFFICES ASSUME NEW x \in Site!Here' \ g_torn'
                   PROVE  g_res'[x].likes + N(Hearts("like", x))' =
                            (IF g_liked'[x] = 0 THEN 0 ELSE 1) + N(Hearts("unlike", x))'
        BY DEF Hearted
      <3>1. \A event : N(Hearts(event, x))' = N(Hearts(event, x)) /\ N(Hearts(event, x)) \in Nat
        BY <1>1, <1>2, <2>3, <2>4, HeartsStill
      <3>2. CASE x = r
        <4>1. \A event : Doing(Hearts(event, r)) = {}
          BY <1>1, <1>2, <2>5 DEF Doing, Hearts
        <4>2. \A event : N(Hearts(event, r)) = 0
          BY <4>1, FS_EmptySet DEF N
        <4> QED
          BY <1>1, <2>5, <2>6, <3>1, <3>2, <4>2
      <3>3. CASE x # r
        BY <1>1, <1>2, <2>6, <2>7, <3>1, <3>3 DEF Hearted, Site!Here
      <3> QED
        BY <3>2, <3>3
    <2>14. Earned'
      <3>1. ASSUME ~g_unpaid', NEW x \in Resources, g_res'[x].at # "none" PROVE Booked("publish", x)' \/ Publishing(x)'
        <4>1. CASE x = r
          BY <1>2, <2>1, <2>3, <2>4, <4>1, Turned DEF Publishing
        <4>2. CASE x # r
          <5>1. Booked("publish", x) \/ Publishing(x)
            BY <1>1, <1>2, <2>6, <3>1, <4>2 DEF Earned
          <5>2. Booked("publish", x) => Booked("publish", x)'
            BY <1>1 DEF Booked
          <5>3. Publishing(x) => Publishing(x)'
            BY <1>1, <1>2, <2>4, Turned DEF Publishing
          <5> QED
            BY <5>1, <5>2, <5>3
        <4> QED
          BY <4>1, <4>2
      <3> QED
        BY <1>1, <1>2, <2>3, <2>4, <2>6, <3>1, EarnedMoves, BookedStill
    <2>15. Filed'
      <3>1. Site!Here' \ g_torn' \subseteq g_store'
        BY <1>1, <1>2, <2>2, <2>7 DEF Filed
      <3>2. ASSUME NEW x \in g_store' \ (Site!Here' \cup g_left')
            PROVE  \E o \in Calls : \/ g_call'[o].at = "unstore" /\ x \in g_call'[o].r
                                    \/ g_call'[o].at = "sweep" /\ x \in g_call'[o].set
        <4>1. x \in g_store \ (Site!Here \cup g_left)
          BY <1>1, <2>2, <2>7, <3>2
        <4>2. PICK o \in Calls : \/ g_call[o].at = "unstore" /\ x \in g_call[o].r
                                 \/ g_call[o].at = "sweep" /\ x \in g_call[o].set
          BY <1>2, <4>1 DEF Filed
        <4> QED
          BY <1>1, <1>2, <2>4, <4>2, Turned
      <3> QED
        BY <3>1, <3>2 DEF Filed
    <2>16. Site!HiddenStays'
      BY <1>1, <1>2, <2>5, <2>6, <2>7 DEF Site!HiddenStays, Site!Here
    <2>17. PageBounds'
      <3>1. N(At({"stub", "post", "count"}))' = N(At({"stub", "post", "count"})) /\ N(At({"stub", "post", "count"})) \in Nat
        BY <1>1, <1>2, <2>3, <2>4, AtMoves
      <3>2. N(Working)' = N(Working) /\ N(Working) \in Nat
        BY <1>1, <1>2, <2>3, <2>4, WorkMoves
      <3>3. \A x \in Resources : g_res[x].likes \in Nat /\ g_res[x].likes + N(Working) <= g_reqs /\ g_liked[x] <= g_reqs
        BY <1>2, PageFacts DEF PageBounds
      <3>4. \A x \in Resources : g_res'[x].likes + N(Working)' <= g_reqs /\ g_liked'[x] <= g_reqs
        <4> TAKE x \in Resources
        <4>1. g_res'[x].likes \in Nat /\ g_res'[x].likes <= g_res[x].likes
          BY <2>6, <3>3
        <4> QED
          BY <1>1, <1>2, <3>2, <3>3, <4>1
      <3>5. g_page'.resources = g_page.resources /\ g_page'.contributors = g_page.contributors
        BY <1>1
      <3> QED
        BY <1>1, <1>2, <2>3, <2>4, <3>1, <3>2, <3>4, <3>5, BoundsMove
    <2> QED
      BY <2>8, <2>9, <2>10, <2>11, <2>12, <2>13, <2>14, <2>15, <2>16, <2>17 DEF PageInv
  <1> QED
    BY <1>3, <1>4

LEMMA RemoveSteps ==
  ASSUME PageInv, NEW c \in Calls, Site!RemoveResource(c)
  PROVE  PageInv'
  <1>1. /\ g_call[c].at = "delete"
        /\ UNCHANGED <<g_page, g_contrib, g_store, g_owed, g_paid, g_gave, g_hidden, g_torn, g_left, g_askew, g_raced,
                       g_unpaid, g_reqs, g_faults>>
    BY DEF Site!RemoveResource, Site!ledger, Site!bounds, Site!history
  <1>2. /\ PageShape /\ Owned /\ Placed /\ Counted /\ Hearted /\ Earned /\ Filed /\ Site!HiddenStays /\ PageBounds
        /\ g_call \in [Calls -> Deed] /\ g_call[c] \in Deed /\ Apt(g_call[c]) /\ g_call[c].op = "delete"
        /\ g_page.resources \in Nat /\ g_page.contributors \in Nat /\ g_reqs \in Nat /\ g_faults \in 0..MaxFault
    BY <1>1, PageFacts DEF Apt, PageShape
  <1>3. PICK r \in Resources : g_call[c].r = {r}
    BY <1>1, <1>2 DEF Apt
  <1>4. CASE r \notin Site!Here
    <2>1. Site!Answered(c) /\ UNCHANGED <<g_res, g_liked>>
      BY <1>3, <1>4, OfOne DEF Site!RemoveResource
    <2> QED
      BY <1>1, <1>2, <2>1, Ending, NoDeed, PageQuits
  <1>5. CASE r \in Site!Here
    <2>1. /\ g_res' = [g_res EXCEPT ![r].at = "gone"] /\ g_liked' = [g_liked EXCEPT ![r] = 0] /\ Site!Goes(c, "unstore")
      BY <1>3, <1>5, OfOne DEF Site!RemoveResource
    <2>2. PICK v \in Deed : /\ g_call' = [g_call EXCEPT ![c] = v] /\ v.at = "unstore"
                            /\ v.op = g_call[c].op /\ v.by = g_call[c].by /\ v.r = g_call[c].r
      BY <1>2, <2>1, GoesOn DEF Stage
    <2>3. Turns(c, v)
      BY <1>1, <1>2, <1>3, <2>2 DEF Turns, Apt
    <2>4. /\ g_res' \in [Resources -> Offer] /\ g_liked' \in [Resources -> Nat]
          /\ g_res'[r].at = "gone" /\ g_res'[r].likes = g_res[r].likes /\ g_liked'[r] = 0
          /\ \A x \in Resources : x # r => g_res'[x] = g_res[x] /\ g_liked'[x] = g_liked[x]
      <3>1. g_res \in [Resources -> Offer] /\ g_liked \in [Resources -> Nat] /\ g_res[r] \in Offer
        BY <1>2 DEF PageShape
      <3>2. [g_res[r] EXCEPT !.at = "gone"] \in Offer
        BY <3>1 DEF Offer
      <3> QED
        BY <2>1, <3>1, <3>2 DEF Offer
    <2>5. Site!Here' = Site!Here \ {r} /\ (Site!Exists' <=> Site!Exists)
      BY <1>1, <2>4 DEF Site!Here, Site!Exists
    <2>6. g_res[r].at = "here"
      BY <1>5 DEF Site!Here
    <2>7. \A x \in Resources : (g_res'[x].at = "none" <=> g_res[x].at = "none")
      BY <2>4, <2>6
    <2>8. PageShape'
      BY <1>1, <1>2, <2>3, <2>4, Turned DEF PageShape
    <2>9. Owned'
      BY <1>1, <1>2, <1>5 DEF Owned
    <2>10. Placed'
      <3>1. \A x \in Resources : g_res'[x].at = "none" => g_liked'[x] = 0 /\ x \notin g_hidden'
        BY <1>1, <1>2, <2>4 DEF Placed
      <3>2. \A o \in Calls : v.r \cap g_call[o].r # {} /\ g_call[o].at \in {"stub", "post"} => o = c
        BY <1>2, <1>3, <2>2 DEF Placed
      <3>3. \A x \in v.r : g_res'[x].at # "none"
        BY <1>3, <2>2, <2>4
      <3>4. v.r \cap Site!Here' = {} /\ \A x \in Site!Here' : x \in Site!Here
        BY <1>3, <2>2, <2>5
      <3> QED
        BY <1>1, <1>2, <2>2, <2>3, <2>7, <3>1, <3>2, <3>3, <3>4, PlacedMoves
    <2>11. Counted'
      <3> SUFFICES ASSUME ~g_askew', Site!Exists'
                   PROVE  /\ g_page'.resources + N(At({"count"}))' = Cardinality(Site!Here') + N(At({"unstore", "uncount"}))'
                          /\ g_page'.contributors + N(At({"contributor"}))' = Cardinality(g_contrib')
        BY DEF Counted
      <3>1. /\ N(At({"count"}))' = N(At({"count"})) /\ N(At({"count"})) \in Nat
            /\ N(At({"unstore", "uncount"}))' = N(At({"unstore", "uncount"})) + 1 /\ N(At({"unstore", "uncount"})) \in Nat
            /\ N(At({"contributor"}))' = N(At({"contributor"}))
        BY <1>1, <1>2, <2>2, <2>3, AtMoves
      <3>2. /\ g_page.resources + N(At({"count"})) = Cardinality(Site!Here) + N(At({"unstore", "uncount"}))
            /\ g_page.contributors + N(At({"contributor"})) = Cardinality(g_contrib)
        BY <1>1, <1>2, <2>5 DEF Counted
      <3>3. Cardinality(Site!Here) = Cardinality(Site!Here') + 1 /\ Cardinality(Site!Here') \in Nat
        BY <1>5, <2>5, HereMoves
      <3> QED
        BY <1>1, <1>2, <3>1, <3>2, <3>3
    <2>12. Faceted'
      BY <1>2, <2>2, <2>3, FacetedBusy DEF Changing
    <2>13. Hearted'
      BY <1>1, <1>2, <2>2, <2>3, <2>4, <2>5, HeartedStill DEF Site!Here
    <2>14. Earned'
      <3>1. \A x \in Resources : (g_liked'[x] # 0 => g_liked[x] # 0)
        BY <2>4
      <3> QED
        BY <1>1, <1>2, <2>2, <2>3, <2>7, <3>1, EarnedStill, BookedStill
    <2>15. Filed'
      <3>1. Site!Here' \ g_torn' \subseteq g_store'
        BY <1>1, <1>2, <2>5 DEF Filed
      <3>2. ASSUME NEW x \in g_store' \ (Site!Here' \cup g_left')
            PROVE  \E o \in Calls : \/ g_call'[o].at = "unstore" /\ x \in g_call'[o].r
                                    \/ g_call'[o].at = "sweep" /\ x \in g_call'[o].set
        <4>1. CASE x = r
          BY <1>2, <1>3, <2>2, <2>3, <4>1, Turned
        <4>2. CASE x # r
          <5>1. x \in g_store \ (Site!Here \cup g_left)
            BY <1>1, <2>5, <3>2, <4>2
          <5>2. PICK o \in Calls : \/ g_call[o].at = "unstore" /\ x \in g_call[o].r
                                   \/ g_call[o].at = "sweep" /\ x \in g_call[o].set
            BY <1>2, <5>1 DEF Filed
          <5> QED
            BY <1>1, <1>2, <2>3, <5>2, Turned
        <4> QED
          BY <4>1, <4>2
      <3> QED
        BY <3>1, <3>2 DEF Filed
    <2>16. Site!HiddenStays'
      BY <1>1, <1>2, <2>4, <2>5 DEF Site!HiddenStays, Site!Here
    <2>17. PageBounds'
      <3>1. \A x \in Resources : /\ g_res'[x].likes \in Nat /\ g_res'[x].likes <= g_res[x].likes
                                 /\ (g_liked'[x] = g_liked[x] \/ g_liked'[x] = 0)
        <4> TAKE x \in Resources
        <4>1. g_res[x].likes \in Nat /\ g_res'[x].likes = g_res[x].likes
          BY <2>4, PageFacts
        <4> QED
          BY <2>4, <4>1
      <3> QED
        BY <1>1, <1>2, <2>2, <2>3, <3>1, BoundsStill
    <2> QED
      BY <2>8, <2>9, <2>10, <2>11, <2>12, <2>13, <2>14, <2>15, <2>16, <2>17 DEF PageInv
  <1> QED
    BY <1>4, <1>5

LEMMA SaveSteps ==
  ASSUME PageInv, NEW c \in Calls, Site!SaveResource(c)
  PROVE  PageInv'
  <1>1. /\ g_call[c].at = "save"
        /\ UNCHANGED <<g_page, g_contrib, g_liked, g_store, g_owed, g_paid, g_gave, g_hidden, g_left, g_raced, g_unpaid,
                       g_reqs, g_faults>>
    BY DEF Site!SaveResource, Site!ledger, Site!bounds
  <1>2. /\ PageShape /\ Owned /\ Placed /\ Counted /\ Hearted /\ Earned /\ Filed /\ Site!HiddenStays /\ PageBounds
        /\ g_call \in [Calls -> Deed] /\ g_call[c] \in Deed /\ Apt(g_call[c]) /\ g_call[c].op = "edit"
        /\ g_page.resources \in Nat /\ g_page.contributors \in Nat /\ g_reqs \in Nat /\ g_faults \in 0..MaxFault
        /\ g_call[c].row \in Offer /\ g_call[c].row.at = "here"
    BY <1>1, PageFacts DEF Apt, PageShape
  <1>3. PICK r \in Resources : g_call[c].r = {r}
    BY <1>1, <1>2 DEF Apt
  <1>4. PICK f \in Facets : g_call[c].set = {f}
    BY <1>1, <1>2 DEF Apt
  <1>5. f = CHOOSE g \in Facets : g \in g_call[c].set
    BY <1>4
  <1>6. PICK back \in Offer : /\ back = [g_call[c].row EXCEPT !.facet = f] /\ back.at = "here" /\ back.likes = g_call[c].row.likes
    <2> DEFINE w == [g_call[c].row EXCEPT !.facet = f]
    <2>1. w \in Offer /\ w.at = "here" /\ w.likes = g_call[c].row.likes
      BY <1>2 DEF Offer
    <2> QED
      BY <2>1
  <1> DEFINE saved == r \in Site!Here \/ (Site!Exists /\ f = g_call[c].row.facet)
  <1>7. IF ~saved THEN Site!Answered(c) /\ UNCHANGED <<g_res, g_torn, g_askew>>
        ELSE /\ g_res' = [g_res EXCEPT ![r] = back] /\ Site!Goes(c, "gather")
             /\ g_torn' = (IF back = [g_res[r] EXCEPT !.facet = f] THEN g_torn ELSE g_torn \cup {r})
             /\ g_askew' = (g_askew \/ r \notin Site!Here)
    BY <1>3, <1>5, <1>6, OfOne DEF Site!SaveResource
  <1>8. CASE ~saved
    <2>1. Site!Answered(c) /\ UNCHANGED <<g_res, g_torn, g_askew>>
      BY <1>7, <1>8
    <2> QED
      BY <1>1, <1>2, <2>1, Ending, NoDeed, PageQuits
  <1>9. CASE saved
    <2>1. /\ g_res' = [g_res EXCEPT ![r] = back] /\ Site!Goes(c, "gather")
          /\ g_torn' = (IF back = [g_res[r] EXCEPT !.facet = f] THEN g_torn ELSE g_torn \cup {r})
          /\ g_askew' = (g_askew \/ r \notin Site!Here)
      BY <1>7, <1>9
    <2>2. PICK v \in Deed : /\ g_call' = [g_call EXCEPT ![c] = v] /\ v.at = "gather"
                            /\ v.op = g_call[c].op /\ v.by = g_call[c].by /\ v.r = g_call[c].r
      BY <1>2, <2>1, GoesOn DEF Stage
    <2>3. Turns(c, v)
      BY <1>1, <1>2, <1>3, <2>2 DEF Turns, Apt
    <2>4. g_res' \in [Resources -> Offer] /\ g_res'[r] = back /\ \A x \in Resources : x # r => g_res'[x] = g_res[x]
      BY <1>2, <2>1 DEF PageShape
    <2>5. g_res[r].at # "none" /\ g_res[r] \in Offer
      BY <1>1, <1>2, <1>3 DEF Placed, PageShape
    <2>6. Site!Here' = Site!Here \cup {r} /\ (Site!Exists' <=> Site!Exists)
      BY <1>1, <1>6, <2>4 DEF Site!Here, Site!Exists
    <2>7. g_torn \subseteq g_torn' /\ g_torn' \subseteq Resources
      BY <1>2, <2>1 DEF PageShape
    <2>8. g_askew' \in BOOLEAN /\ (g_askew => g_askew') /\ (~g_askew' => r \in Site!Here)
      <3>1. g_askew \in BOOLEAN
        BY <1>2 DEF PageShape
      <3> QED
        BY <2>1, <3>1, Zenon
    <2>9. ASSUME r \notin g_torn'
          PROVE  r \in Site!Here /\ r \notin g_torn /\ back.likes = g_res[r].likes /\ back.status = g_res[r].status
      <3>1. back = [g_res[r] EXCEPT !.facet = f] /\ r \notin g_torn
        BY <2>1, <2>9
      <3>2. back.at = g_res[r].at /\ back.likes = g_res[r].likes /\ back.status = g_res[r].status
        BY <2>5, <3>1 DEF Offer
      <3> QED
        BY <1>6, <3>1, <3>2 DEF Site!Here
    <2>10. Site!Here' \ g_torn' \subseteq Site!Here \ g_torn
      BY <2>6, <2>7, <2>9
    <2>11. \A x \in Resources : (g_res'[x].at = "none" <=> g_res[x].at = "none")
      BY <1>6, <2>4, <2>5
    <2>12. PageShape'
      BY <1>1, <1>2, <2>3, <2>4, <2>7, <2>8, Turned DEF PageShape
    <2>13. Owned'
      <3>1. g_page.at = "none" => r \in Site!Here
        BY <1>9 DEF Site!Exists
      <3>2. g_page.at # "none"
        BY <1>2, <3>1 DEF Owned
      <3> QED
        BY <1>1, <1>2, <3>2 DEF Owned
    <2>14. Placed'
      <3>1. \A x \in Resources : g_res'[x].at = "none" => g_liked'[x] = 0 /\ x \notin g_hidden'
        BY <1>1, <1>2, <2>11 DEF Placed
      <3>2. \A o \in Calls : v.r \cap g_call[o].r # {} /\ g_call[o].at \in {"stub", "post"} => o = c
        BY <1>2, <1>3, <2>2, <2>5 DEF Placed
      <3>3. \A x \in v.r : g_res'[x].at # "none"
        BY <1>3, <1>6, <2>2, <2>4
      <3>4. \A x \in Site!Here' : x \in Site!Here \/ x \in g_torn'
        BY <2>6, <2>9
      <3> QED
        BY <1>2, <2>2, <2>3, <2>7, <2>11, <3>1, <3>2, <3>3, <3>4, PlacedMoves
    <2>15. Counted'
      <3>1. CASE g_askew'
        BY <3>1 DEF Counted
      <3>2. CASE ~g_askew'
        <4>1. Site!Here' = Site!Here
          BY <2>6, <2>8, <3>2
        <4>2. g_page'.resources = g_page.resources /\ g_page'.contributors = g_page.contributors /\ g_contrib' = g_contrib
              /\ (Site!Exists' => Site!Exists)
          BY <1>1, <2>6
        <4>3. (g_call[c].at = "count" <=> v.at = "count") /\ (g_call[c].at \in {"unstore", "uncount"} <=> v.at \in {"unstore", "uncount"})
              /\ (g_call[c].at = "contributor" <=> v.at = "contributor")
          BY <1>1, <2>2
        <4> QED
          BY <1>2, <2>3, <2>8, <4>1, <4>2, <4>3, CountedStill
      <3> QED
        BY <3>1, <3>2
    <2>16. Faceted'
      BY <1>2, <2>2, <2>3, FacetedBusy DEF Changing
    <2>17. Hearted'
      <3>1. \A x \in Site!Here' \ g_torn' : /\ x \in Site!Here \ g_torn /\ g_res'[x].likes = g_res[x].likes
                                            /\ g_liked'[x] = g_liked[x]
        BY <1>1, <2>4, <2>9, <2>10 DEF Site!Here
      <3> QED
        BY <1>1, <1>2, <2>2, <2>3, <3>1, HeartedStill
    <2>18. Earned'
      BY <1>1, <1>2, <2>2, <2>3, <2>11, EarnedStill, BookedStill
    <2>19. Filed'
      <3>1. Site!Here' \ g_torn' \subseteq g_store'
        BY <1>1, <1>2, <2>10 DEF Filed
      <3>2. ASSUME NEW x \in g_store' \ (Site!Here' \cup g_left')
            PROVE  \E o \in Calls : \/ g_call'[o].at = "unstore" /\ x \in g_call'[o].r
                                    \/ g_call'[o].at = "sweep" /\ x \in g_call'[o].set
        <4>1. x \in g_store \ (Site!Here \cup g_left)
          BY <1>1, <2>6, <3>2
        <4>2. PICK o \in Calls : \/ g_call[o].at = "unstore" /\ x \in g_call[o].r
                                 \/ g_call[o].at = "sweep" /\ x \in g_call[o].set
          BY <1>2, <4>1 DEF Filed
        <4> QED
          BY <1>1, <1>2, <2>3, <4>2, Turned
      <3> QED
        BY <3>1, <3>2 DEF Filed
    <2>20. Site!HiddenStays'
      <3> SUFFICES ASSUME NEW x \in Site!Here' \ g_torn'
                   PROVE  g_res'[x].status = 2 <=> x \in g_hidden'
        BY DEF Site!HiddenStays
      <3>1. x \in Site!Here \ g_torn /\ x \in Resources
        BY <2>10 DEF Site!Here
      <3>2. g_res'[x].status = g_res[x].status
        BY <2>4, <2>9, <3>1
      <3> QED
        BY <1>1, <1>2, <3>1, <3>2 DEF Site!HiddenStays
    <2>21. PageBounds'
      <3>1. N(At({"stub", "post", "count"}))' = N(At({"stub", "post", "count"})) /\ N(At({"stub", "post", "count"})) \in Nat
        BY <1>1, <1>2, <2>2, <2>3, AtMoves
      <3>2. N(Working)' = N(Working) /\ N(Working) \in Nat
        BY <1>1, <1>2, <2>2, <2>3, WorkMoves
      <3>3. back.likes + N(Working)' <= g_reqs
        BY <1>1, <1>2, <1>6, <3>2 DEF PageBounds
      <3>4. \A x \in Resources : g_res'[x].likes + N(Working)' <= g_reqs /\ g_liked'[x] <= g_reqs
        <4> TAKE x \in Resources
        <4>1. CASE x = r
          BY <1>1, <1>2, <2>4, <3>3, <4>1 DEF PageBounds
        <4>2. CASE x # r
          BY <1>1, <1>2, <2>4, <3>2, <4>2 DEF PageBounds
        <4> QED
          BY <4>1, <4>2
      <3>5. g_page'.resources = g_page.resources /\ g_page'.contributors = g_page.contributors
        BY <1>1
      <3> QED
        BY <1>1, <1>2, <2>2, <2>3, <3>1, <3>2, <3>4, <3>5, BoundsMove
    <2> QED
      BY <2>12, <2>13, <2>14, <2>15, <2>16, <2>17, <2>18, <2>19, <2>20, <2>21 DEF PageInv
  <1> QED
    BY <1>8, <1>9

LEMMA ToggleSteps ==
  ASSUME PageInv, NEW c \in Calls, Site!ToggleResourceStatus(c)
  PROVE  PageInv'
  <1> DEFINE v == Site!NoCall
  <1>1. /\ g_call[c].at = "toggle" /\ Turns(c, v) /\ v.at = "idle" /\ v.r = {} /\ v.op = "none" /\ v.set = {}
        /\ g_res' = [g_res EXCEPT ![Site!Of(c)].status = IF @ = 2 THEN 2 ELSE 1 - @]
        /\ UNCHANGED <<g_page, g_contrib, g_liked, g_store, g_owed, g_paid, g_gave, g_hidden, g_torn, g_left, g_askew, g_raced,
                       g_unpaid, g_reqs, g_faults>>
    BY Ending, NoDeed DEF Site!ToggleResourceStatus, Site!ledger, Site!bounds, Site!history
  <1> HIDE DEF v
  <1>2. /\ PageShape /\ Owned /\ Placed /\ Counted /\ Faceted /\ Hearted /\ Earned /\ Filed /\ Site!HiddenStays /\ PageBounds
        /\ g_call[c] \in Deed /\ Apt(g_call[c])
    BY <1>1, PageFacts
  <1>3. PICK r \in Resources : g_call[c].r = {r}
    BY <1>1, <1>2 DEF Apt
  <1>4. g_res \in [Resources -> Offer] /\ g_res[r] \in Offer
    BY <1>2 DEF PageShape
  <1>5. PICK s \in 0..2 : s = (IF g_res[r].status = 2 THEN 2 ELSE 1 - g_res[r].status) /\ (s = 2 <=> g_res[r].status = 2)
    <2>1. g_res[r].status \in {0, 1, 2}
      BY <1>4 DEF Offer
    <2> QED
      BY <2>1
  <1>6. g_res' = [g_res EXCEPT ![r].status = s]
    BY <1>1, <1>3, <1>5, OfOne
  <1>7. /\ g_res' \in [Resources -> Offer]
        /\ \A x \in Resources : /\ g_res'[x].at = g_res[x].at /\ g_res'[x].likes = g_res[x].likes
                                /\ g_res'[x].facet = g_res[x].facet /\ (g_res'[x].status = 2 <=> g_res[x].status = 2)
    <2>1. [g_res[r] EXCEPT !.status = s] \in Offer
      BY <1>4 DEF Offer
    <2>2. g_res' = [g_res EXCEPT ![r] = [g_res[r] EXCEPT !.status = s]]
      BY <1>6
    <2>3. g_res' \in [Resources -> Offer]
      BY <1>4, <2>1, <2>2
    <2> QED
      BY <1>4, <1>5, <1>6, <2>3 DEF Offer
  <1>8. Site!Here' = Site!Here /\ Site!FacetsOf(Site!Here)' = Site!FacetsOf(Site!Here) /\ (Site!Exists' <=> Site!Exists)
    BY <1>1, <1>7 DEF Site!Here, Site!FacetsOf, Site!Exists
  <1>9. PageShape'
    BY <1>1, <1>2, <1>7, Turned DEF PageShape
  <1>10. Owned'
    BY <1>1, <1>2, <1>8 DEF Owned
  <1>11. Placed'
    <2>1. \A x \in Resources : g_res'[x].at = "none" => g_liked'[x] = 0 /\ x \notin g_hidden'
      BY <1>1, <1>2, <1>7 DEF Placed
    <2> QED
      BY <1>1, <1>2, <1>7, <1>8, <2>1, PlacedMoves
  <1>12. Counted'
    BY <1>1, <1>2, <1>8, CountedStill
  <1>13. Faceted'
    BY <1>1, <1>2, <1>8, FacetedStill DEF Changing
  <1>14. Hearted'
    BY <1>1, <1>2, <1>7, <1>8, HeartedStill DEF Site!Here
  <1>15. Earned'
    BY <1>1, <1>2, <1>7, EarnedStill, BookedStill
  <1>16. Filed'
    BY <1>1, <1>2, <1>8, FiledStill
  <1>17. Site!HiddenStays'
    BY <1>1, <1>2, <1>7, <1>8 DEF Site!HiddenStays, Site!Here
  <1>18. PageBounds'
    <2>1. \A x \in Resources : g_res'[x].likes \in Nat /\ g_res'[x].likes <= g_res[x].likes
      <3> TAKE x \in Resources
      <3>1. g_res[x].likes \in Nat /\ g_res'[x].likes = g_res[x].likes
        BY <1>7, PageFacts
      <3> QED
        BY <3>1
    <2>2. g_page'.resources \in Nat /\ g_page'.resources <= g_page.resources
          /\ g_page'.contributors \in Nat /\ g_page'.contributors <= g_page.contributors
      BY <1>1, PageFacts
    <2> QED
      BY <1>1, <1>2, <2>1, <2>2, BoundsStill
  <1> QED
    BY <1>9, <1>10, <1>11, <1>12, <1>13, <1>14, <1>15, <1>16, <1>17, <1>18 DEF PageInv

-----------------------------------------------------------------------------
(* Likes. *)

\* How the hearts for a resource move.
LEMMA HeartsMove ==
  ASSUME PageShape, NEW c \in Calls, NEW v, Turns(c, v), NEW r, NEW event
  PROVE  /\ (v.at = "settle" /\ v.op = event /\ v.r = {r}) /\ g_call[c].at # "settle" =>
              N(Hearts(event, r))' = N(Hearts(event, r)) + 1
         /\ (g_call[c].at = "settle" /\ g_call[c].op = event /\ g_call[c].r = {r}) /\ v.at # "settle" =>
              N(Hearts(event, r)) = N(Hearts(event, r))' + 1
         /\ N(Hearts(event, r)) \in Nat /\ N(Hearts(event, r))' \in Nat
  <1> DEFINE T == Hearts(event, r)
  <1>1. g_call \in [Calls -> Deed] /\ g_call' = [g_call EXCEPT ![c] = v] /\ g_call[c] \in Deed /\ v \in Deed
    BY DEF PageShape, Turns
  <1>2. /\ g_call[c] \in T <=> (g_call[c].at = "settle" /\ g_call[c].op = event /\ g_call[c].r = {r})
        /\ v \in T <=> (v.at = "settle" /\ v.op = event /\ v.r = {r})
    BY <1>1 DEF Hearts
  <1>3. /\ g_call[c] \notin T /\ v \in T => N(T)' = N(T) + 1
        /\ g_call[c] \in T /\ v \notin T => N(T) = N(T)' + 1
        /\ N(T) \in Nat /\ N(T)' \in Nat
    <2> HIDE DEF T
    <2> QED
      BY <1>1, Moves
  <1> QED
    BY <1>2, <1>3

\* A request at work is one of the requests made.
LEMMA SomeWork ==
  ASSUME PageInv, NEW c \in Calls, g_call[c].at # "idle", NEW r \in Resources
  PROVE  g_reqs \in Nat /\ g_reqs # 0
  <1>1. g_call[c] \in Working
    BY PageFacts DEF Working
  <1>2. Doing(Working) # {} /\ IsFiniteSet(Doing(Working)) /\ N(Working) \in Nat
    BY <1>1, DoingFinite DEF Doing
  <1>3. N(Working) # 0
    BY <1>2, FS_EmptySet DEF N
  <1>4. g_res[r].likes + N(Working) <= g_reqs /\ g_res[r].likes \in Nat /\ g_reqs \in Nat
    BY PageFacts DEF PageBounds
  <1> QED
    BY <1>2, <1>3, <1>4

LEMMA LikeSteps ==
  ASSUME PageInv, NEW c \in Calls, Site!WriteLike(c)
  PROVE  PageInv'
  <1>1. /\ g_call[c].at = "like"
        /\ UNCHANGED <<g_page, g_contrib, g_res, g_store, g_owed, g_paid, g_gave, g_hidden, g_torn, g_left, g_askew, g_raced,
                       g_unpaid, g_reqs, g_faults>>
    BY DEF Site!WriteLike, Site!ledger, Site!bounds, Site!history
  <1>2. /\ PageShape /\ Owned /\ Placed /\ Counted /\ Faceted /\ Hearted /\ Earned /\ Filed /\ Site!HiddenStays /\ PageBounds
        /\ g_call \in [Calls -> Deed] /\ g_call[c] \in Deed /\ Apt(g_call[c]) /\ g_faults \in 0..MaxFault
    BY <1>1, PageFacts DEF PageShape
  <1>3. PICK r \in Resources : g_call[c].r = {r}
    BY <1>1, <1>2 DEF Apt
  <1> DEFINE changes == r \in Site!Here /\ g_liked[r] = g_call[c].n
  <1>4. CASE ~changes
    <2>1. Site!Answered(c) /\ UNCHANGED g_liked
      BY <1>3, <1>4, OfOne DEF Site!WriteLike
    <2> QED
      BY <1>1, <1>2, <2>1, Ending, NoDeed, PageQuits
  <1>5. CASE changes
    <2>1. PICK event \in {"like", "unlike"} : event = IF g_call[c].n = 0 THEN "like" ELSE "unlike"
      OBVIOUS
    <2>2. PICK m \in Nat : m = (IF g_call[c].n = 0 THEN g_reqs ELSE 0) /\ m <= g_reqs /\ (m = 0 <=> event = "unlike")
      <3>1. g_reqs \in Nat /\ g_reqs # 0
        BY <1>1, SomeWork
      <3> QED
        BY <2>1, <3>1
    <2>3. /\ g_liked' = [g_liked EXCEPT ![r] = m]
          /\ g_call' = [g_call EXCEPT ![c].at = "settle", ![c].op = event]
      BY <1>3, <1>5, <2>1, <2>2, OfOne DEF Site!WriteLike
    <2> DEFINE v == [g_call[c] EXCEPT !.at = "settle", !.op = event]
    <2>4. v \in Deed /\ v.at = "settle" /\ v.op = event /\ v.r = {r}
      BY <1>2, <1>3, <2>1 DEF Deed
    <2>5. g_call' = [g_call EXCEPT ![c] = v]
      BY <1>2, <2>3
    <2> HIDE DEF v
    <2>6. Turns(c, v)
      BY <2>1, <2>4, <2>5 DEF Turns, Apt
    <2>7. /\ g_liked' \in [Resources -> Nat] /\ g_liked'[r] = m /\ \A x \in Resources : x # r => g_liked'[x] = g_liked[x]
      BY <1>2, <2>3 DEF PageShape
    <2>8. r \in Site!Here /\ g_res[r].at = "here" /\ (g_liked[r] = 0 <=> event = "like")
      BY <1>5, <2>1 DEF Site!Here
    <2>9. Site!Here' = Site!Here /\ Site!FacetsOf(Site!Here)' = Site!FacetsOf(Site!Here) /\ (Site!Exists' <=> Site!Exists)
      BY <1>1 DEF Site!Here, Site!FacetsOf, Site!Exists
    <2>10. PageShape'
      BY <1>1, <1>2, <2>6, <2>7, Turned DEF PageShape
    <2>11. Owned'
      BY <1>1, <1>2, <2>9 DEF Owned
    <2>12. Placed'
      <3>1. \A x \in Resources : g_res'[x].at = "none" => g_liked'[x] = 0 /\ x \notin g_hidden'
        BY <1>1, <1>2, <2>7, <2>8 DEF Placed
      <3>2. \A o \in Calls : v.r \cap g_call[o].r # {} /\ g_call[o].at \in {"stub", "post"} => o = c
        BY <1>2, <2>4, <2>8 DEF Placed
      <3>3. \A x \in v.r : g_res'[x].at # "none"
        BY <1>1, <2>4, <2>8
      <3> QED
        BY <1>1, <1>2, <2>4, <2>6, <2>9, <3>1, <3>2, <3>3, PlacedMoves
    <2>13. Counted'
      BY <1>1, <1>2, <2>4, <2>6, <2>9, CountedStill
    <2>14. Faceted'
      BY <1>1, <1>2, <2>4, <2>6, <2>9, FacetedStill DEF Changing
    <2>15. Hearted'
      <3> SUFFICES ASSUME NEW x \in Site!Here \ g_torn
                   PROVE  g_res'[x].likes + N(Hearts("like", x))' =
                            (IF g_liked'[x] = 0 THEN 0 ELSE 1) + N(Hearts("unlike", x))'
        BY <1>1, <2>9 DEF Hearted
      <3>0. x \in Resources /\ g_res[x].likes \in Nat
        BY PageFacts DEF Site!Here
      <3>1. g_res[x].likes + N(Hearts("like", x)) = (IF g_liked[x] = 0 THEN 0 ELSE 1) + N(Hearts("unlike", x))
        BY <1>2 DEF Hearted
      <3>2. CASE x # r
        <4>1. \A e \in {"like", "unlike"} : N(Hearts(e, x))' = N(Hearts(e, x))
          BY <1>1, <1>2, <2>4, <2>6, <3>2, HeartsStill
        <4> QED
          BY <1>1, <2>7, <3>0, <3>1, <3>2, <4>1
      <3>3. CASE x = r /\ event = "like"
        <4>1. N(Hearts("like", x))' = N(Hearts("like", x)) + 1 /\ N(Hearts("like", x)) \in Nat
          BY <1>1, <1>2, <2>4, <2>6, <3>3, HeartsMove
        <4>2. N(Hearts("unlike", x))' = N(Hearts("unlike", x)) /\ N(Hearts("unlike", x)) \in Nat
          BY <1>1, <1>2, <2>4, <2>6, <3>3, HeartsStill
        <4>3. g_liked[x] = 0 /\ g_liked'[x] # 0
          BY <2>2, <2>7, <2>8, <3>3
        <4>4. g_res[x].likes + N(Hearts("like", x)) = N(Hearts("unlike", x))
          BY <3>1, <4>2, <4>3
        <4>5. g_res'[x].likes + N(Hearts("like", x))' = 1 + N(Hearts("unlike", x))'
          BY <1>1, <3>0, <4>1, <4>2, <4>4
        <4> QED
          BY <4>3, <4>5
      <3>4. CASE x = r /\ event = "unlike"
        <4>1. N(Hearts("unlike", x))' = N(Hearts("unlike", x)) + 1 /\ N(Hearts("unlike", x)) \in Nat
          BY <1>1, <1>2, <2>4, <2>6, <3>4, HeartsMove
        <4>2. N(Hearts("like", x))' = N(Hearts("like", x)) /\ N(Hearts("like", x)) \in Nat
          BY <1>1, <1>2, <2>4, <2>6, <3>4, HeartsStill
        <4>3. g_liked[x] # 0 /\ g_liked'[x] = 0
          BY <2>2, <2>7, <2>8, <3>4
        <4>4. g_res[x].likes + N(Hearts("like", x)) = 1 + N(Hearts("unlike", x))
          BY <3>1, <4>3
        <4>5. g_res'[x].likes + N(Hearts("like", x))' = N(Hearts("unlike", x))'
          BY <1>1, <3>0, <4>1, <4>2, <4>4
        <4>6. N(Hearts("unlike", x))' \in Nat
          BY <4>1
        <4> QED
          BY <4>3, <4>5, <4>6
      <3> QED
        BY <2>1, <3>2, <3>3, <3>4
    <2>16. Earned'
      <3> SUFFICES ASSUME ~g_unpaid', NEW x \in Resources
                   PROVE  /\ g_liked'[x] # 0 \/ Known("unlike", x)' => Known("like", x)'
                          /\ Booked("delete", x)' => g_res'[x].at # "none"
                          /\ g_res'[x].at # "none" => Booked("publish", x)' \/ Publishing(x)'
        BY DEF Earned
      <3>1. /\ g_liked[x] # 0 \/ Known("unlike", x) => Known("like", x)
            /\ Booked("delete", x) => g_res[x].at # "none"
            /\ g_res[x].at # "none" => Booked("publish", x) \/ Publishing(x)
        BY <1>1, <1>2 DEF Earned
      <3>2. \A e \in {"like", "unlike", "publish", "delete"} : Booked(e, x)' <=> Booked(e, x)
        BY <1>1, BookedStill
      <3>3. \A o \in Calls : g_call'[o] = IF o = c THEN v ELSE g_call[o]
        BY <1>2, <2>6, Turned
      <3>4. Publishing(x) => Publishing(x)'
        BY <1>1, <3>3 DEF Publishing
      <3>5. \A e \in {"like", "unlike"} : Known(e, x) => Known(e, x)'
        <4> TAKE e \in {"like", "unlike"}
        <4>1. g_call[c] \notin Hearts(e, x)
          BY <1>1 DEF Hearts
        <4> QED
          BY <3>2, <3>3, <4>1 DEF Known
      <3>6. \A e \in {"like", "unlike"} : Known(e, x)' => Known(e, x) \/ (e = event /\ x = r)
        <4> TAKE e \in {"like", "unlike"}
        <4>1. v \in Hearts(e, x) => e = event /\ x = r
          BY <2>4 DEF Hearts
        <4> QED
          BY <3>2, <3>3, <4>1 DEF Known
      <3>7. event = "like" => Known("like", r)'
        <4>1. event = "like" => v \in Hearts("like", r)
          BY <2>4 DEF Hearts
        <4> QED
          BY <3>3, <4>1 DEF Known
      <3>8. g_liked'[x] # 0 => g_liked[x] # 0 \/ (event = "like" /\ x = r)
        BY <2>1, <2>2, <2>7
      <3>9. event = "unlike" /\ x = r => g_liked[x] # 0
        BY <2>8
      <3> QED
        BY <1>1, <3>1, <3>2, <3>4, <3>5, <3>6, <3>7, <3>8, <3>9
    <2>17. Filed'
      BY <1>1, <1>2, <2>6, <2>9, FiledStill
    <2>18. Site!HiddenStays'
      BY <1>1, <1>2, <2>9 DEF Site!HiddenStays
    <2>19. PageBounds'
      <3>1. N(At({"stub", "post", "count"}))' = N(At({"stub", "post", "count"})) /\ N(At({"stub", "post", "count"})) \in Nat
        BY <1>1, <1>2, <2>4, <2>6, AtMoves
      <3>2. N(Working)' = N(Working) /\ N(Working) \in Nat
        BY <1>1, <1>2, <2>4, <2>6, WorkMoves
      <3>3. \A x \in Resources : g_res'[x].likes + N(Working)' <= g_reqs /\ g_liked'[x] <= g_reqs
        BY <1>1, <1>2, <2>2, <2>7, <3>2 DEF PageBounds
      <3>4. g_page' = g_page /\ g_page.resources \in Nat /\ g_page.contributors \in Nat
        BY <1>1, PageFacts
      <3>5. /\ g_page'.resources + N(At({"stub", "post", "count"}))' <= g_page.resources + N(At({"stub", "post", "count"}))
            /\ g_page'.contributors + N(Working)' <= g_page.contributors + N(Working)
        BY <3>1, <3>2, <3>4
      <3> QED
        BY <1>1, <2>4, <2>6, <3>3, <3>4, <3>5, BoundsMove
    <2> QED
      BY <2>10, <2>11, <2>12, <2>13, <2>14, <2>15, <2>16, <2>17, <2>18, <2>19 DEF PageInv
  <1> QED
    BY <1>4, <1>5

LEMMA SettleSteps ==
  ASSUME PageInv, NEW c \in Calls, Site!SettleResourceLike(c)
  PROVE  PageInv'
  <1> DEFINE v == Site!NoCall
  <1>1. /\ g_call[c].at = "settle" /\ Turns(c, v) /\ v.at = "idle" /\ v.r = {} /\ v.op = "none" /\ v.set = {}
        /\ UNCHANGED <<g_page, g_contrib, g_liked, g_store, g_paid, g_gave, g_hidden, g_left, g_askew, g_raced, g_unpaid,
                       g_reqs, g_faults>>
    BY Ending, NoDeed DEF Site!SettleResourceLike, Site!bounds
  <1> HIDE DEF v
  <1>2. /\ PageShape /\ Owned /\ Placed /\ Counted /\ Faceted /\ Hearted /\ Earned /\ Filed /\ Site!HiddenStays /\ PageBounds
        /\ g_call \in [Calls -> Deed] /\ g_call[c] \in Deed /\ Apt(g_call[c])
    BY <1>1, PageFacts
  <1>3. PICK r \in Resources : g_call[c].r = {r}
    BY <1>1, <1>2 DEF Apt
  <1>4. PICK event \in {"like", "unlike"} : event = g_call[c].op
    BY <1>1, <1>2 DEF Apt
  <1>5. g_res \in [Resources -> Offer] /\ g_res[r] \in Offer /\ g_res[r].likes \in Nat
    BY <1>2 DEF PageShape, Offer
  <1>6. PICK m \in Nat : /\ m = IF event = "like" THEN g_res[r].likes + 1 ELSE IF g_res[r].likes = 0 THEN 0 ELSE g_res[r].likes - 1
                         /\ m <= g_res[r].likes + 1
    BY <1>5
  <1>7. /\ g_owed' = g_owed \cup {<<event, {r}>>}
        /\ g_res' = IF r \notin Site!Here THEN g_res ELSE [g_res EXCEPT ![r].likes = m]
        /\ g_torn' = IF event = "like" \/ g_res[r].likes > 0 THEN g_torn ELSE g_torn \cup {r}
    BY <1>3, <1>4, <1>6, OfOne DEF Site!SettleResourceLike, Site!Owes
  <1>8. /\ g_res' \in [Resources -> Offer] /\ (r \in Site!Here => g_res'[r].likes = m)
        /\ \A x \in Resources : /\ g_res'[x].at = g_res[x].at /\ g_res'[x].status = g_res[x].status
                                /\ g_res'[x].facet = g_res[x].facet /\ (x # r \/ r \notin Site!Here => g_res'[x] = g_res[x])
    <2>1. CASE r \notin Site!Here
      BY <1>5, <1>7, <2>1
    <2>2. CASE r \in Site!Here
      <3>1. PICK w \in Offer : /\ w = [g_res[r] EXCEPT !.likes = m] /\ w.likes = m /\ w.at = g_res[r].at
                               /\ w.status = g_res[r].status /\ w.facet = g_res[r].facet
        <4> DEFINE z == [g_res[r] EXCEPT !.likes = m]
        <4>1. z \in Offer /\ z.likes = m /\ z.at = g_res[r].at /\ z.status = g_res[r].status /\ z.facet = g_res[r].facet
          BY <1>5 DEF Offer
        <4> QED
          BY <4>1
      <3>2. g_res' = [g_res EXCEPT ![r] = w]
        BY <1>7, <2>2, <3>1
      <3> QED
        BY <1>5, <2>2, <3>1, <3>2
    <2> QED
      BY <2>1, <2>2
  <1>9. Site!Here' = Site!Here /\ Site!FacetsOf(Site!Here)' = Site!FacetsOf(Site!Here) /\ (Site!Exists' <=> Site!Exists)
    BY <1>1, <1>8 DEF Site!Here, Site!FacetsOf, Site!Exists
  <1>10. g_torn \subseteq g_torn' /\ g_torn' \subseteq Resources
    BY <1>2, <1>7 DEF PageShape
  <1>11. PageShape'
    BY <1>1, <1>2, <1>8, <1>10, Turned DEF PageShape
  <1>12. Owned'
    BY <1>1, <1>2, <1>9 DEF Owned
  <1>13. Placed'
    <2>1. \A x \in Resources : g_res'[x].at = "none" => g_liked'[x] = 0 /\ x \notin g_hidden'
      BY <1>1, <1>2, <1>8 DEF Placed
    <2> QED
      BY <1>1, <1>2, <1>8, <1>9, <1>10, <2>1, PlacedMoves
  <1>14. Counted'
    BY <1>1, <1>2, <1>9, CountedStill
  <1>15. Faceted'
    BY <1>1, <1>2, <1>9, FacetedStill DEF Changing
  <1>16. Hearted'
    <2> SUFFICES ASSUME NEW x \in Site!Here \ g_torn'
                 PROVE  g_res'[x].likes + N(Hearts("like", x))' =
                          (IF g_liked'[x] = 0 THEN 0 ELSE 1) + N(Hearts("unlike", x))'
      BY <1>9 DEF Hearted
    <2>0. x \in Resources /\ x \in Site!Here \ g_torn /\ g_res[x].likes \in Nat
      BY <1>10, PageFacts DEF Site!Here
    <2>1. g_res[x].likes + N(Hearts("like", x)) = (IF g_liked[x] = 0 THEN 0 ELSE 1) + N(Hearts("unlike", x))
      BY <1>2, <2>0 DEF Hearted
    <2>2. PICK k \in 0..1 : k = (IF g_liked[x] = 0 THEN 0 ELSE 1) /\ k = (IF g_liked'[x] = 0 THEN 0 ELSE 1)
      BY <1>1
    <2>3. CASE x # r
      <3>1. \A e \in {"like", "unlike"} : N(Hearts(e, x))' = N(Hearts(e, x))
        BY <1>1, <1>2, <1>3, <2>3, HeartsStill
      <3> QED
        BY <1>1, <1>8, <2>0, <2>1, <2>3, <3>1
    <2>4. CASE x = r /\ event = "like"
      <3>0. g_call[c].at = "settle" /\ g_call[c].op = "like" /\ g_call[c].op # "unlike" /\ g_call[c].r = {x}
            /\ v.at # "settle" /\ Turns(c, v) /\ PageShape
        BY <1>1, <1>2, <1>3, <1>4, <2>4
      <3>1. N(Hearts("like", x)) = N(Hearts("like", x))' + 1 /\ N(Hearts("like", x))' \in Nat
        BY <3>0, HeartsMove
      <3>2. N(Hearts("unlike", x))' = N(Hearts("unlike", x)) /\ N(Hearts("unlike", x)) \in Nat
        BY <3>0, HeartsStill
      <3>3. g_res'[x].likes = g_res[x].likes + 1
        BY <1>6, <1>8, <2>0, <2>4
      <3> QED
        BY <2>0, <2>1, <2>2, <3>1, <3>2, <3>3
    <2>5. CASE x = r /\ event = "unlike"
      <3>0. g_call[c].at = "settle" /\ g_call[c].op = "unlike" /\ g_call[c].op # "like" /\ g_call[c].r = {x}
            /\ v.at # "settle" /\ Turns(c, v) /\ PageShape
        BY <1>1, <1>2, <1>3, <1>4, <2>5
      <3>1. N(Hearts("unlike", x)) = N(Hearts("unlike", x))' + 1 /\ N(Hearts("unlike", x))' \in Nat
        BY <3>0, HeartsMove
      <3>2. N(Hearts("like", x))' = N(Hearts("like", x)) /\ N(Hearts("like", x)) \in Nat
        BY <3>0, HeartsStill
      <3>3. g_res[x].likes > 0
        BY <1>7, <2>5
      <3>4. g_res'[x].likes + 1 = g_res[x].likes /\ g_res'[x].likes \in Nat
        BY <1>6, <1>8, <2>0, <2>5, <3>3
      <3>5. g_res[x].likes + N(Hearts("like", x)) = k + N(Hearts("unlike", x))
        BY <2>1, <2>2
      <3>6. g_res'[x].likes + N(Hearts("like", x))' = k + N(Hearts("unlike", x))'
        BY <2>2, <3>1, <3>2, <3>4, <3>5
      <3> QED
        BY <2>2, <3>6
    <2> QED
      BY <2>3, <2>4, <2>5
  <1>17. Earned'
    <2> SUFFICES ASSUME ~g_unpaid', NEW x \in Resources
                 PROVE  /\ g_liked'[x] # 0 \/ Known("unlike", x)' => Known("like", x)'
                        /\ Booked("delete", x)' => g_res'[x].at # "none"
                        /\ g_res'[x].at # "none" => Booked("publish", x)' \/ Publishing(x)'
      BY DEF Earned
    <2>1. /\ g_liked[x] # 0 \/ Known("unlike", x) => Known("like", x)
          /\ Booked("delete", x) => g_res[x].at # "none"
          /\ g_res[x].at # "none" => Booked("publish", x) \/ Publishing(x)
      BY <1>1, <1>2 DEF Earned
    <2>2. /\ \A e \in {"publish", "delete"} : Booked(e, x)' <=> Booked(e, x)
          /\ \A e \in {"like", "unlike"} : Booked(e, x)' <=> Booked(e, x) \/ (e = event /\ x = r)
      BY <1>1, <1>7 DEF Booked
    <2>3. \A o \in Calls : g_call'[o] = IF o = c THEN v ELSE g_call[o]
      BY <1>1, <1>2, Turned
    <2>4. Publishing(x) => Publishing(x)'
      BY <1>1, <2>3 DEF Publishing
    <2>5. \A e \in {"like", "unlike"} : Known(e, x)' <=> Known(e, x)
      <3> TAKE e \in {"like", "unlike"}
      <3>1. g_call[c] \in Hearts(e, x) <=> (e = event /\ x = r)
        BY <1>1, <1>2, <1>3, <1>4 DEF Hearts
      <3>2. v \notin Hearts(e, x)
        BY <1>1 DEF Hearts
      <3> QED
        BY <2>2, <2>3, <3>1, <3>2 DEF Known
    <2> QED
      BY <1>1, <1>8, <2>1, <2>2, <2>4, <2>5
  <1>18. Filed'
    BY <1>1, <1>2, <1>9, <1>10, FiledStill
  <1>19. Site!HiddenStays'
    BY <1>1, <1>2, <1>8, <1>9, <1>10 DEF Site!HiddenStays, Site!Here
  <1>20. PageBounds'
    <2>1. N(At({"stub", "post", "count"}))' = N(At({"stub", "post", "count"})) /\ N(At({"stub", "post", "count"})) \in Nat
      BY <1>1, <1>2, AtMoves
    <2>2. N(Working) = N(Working)' + 1 /\ N(Working)' \in Nat
      BY <1>1, <1>2, WorkMoves
    <2>3. \A x \in Resources : g_res'[x].likes + N(Working)' <= g_reqs /\ g_liked'[x] <= g_reqs
      <3> TAKE x \in Resources
      <3>1. g_res[x].likes \in Nat /\ g_res[x].likes + N(Working) <= g_reqs /\ g_liked[x] <= g_reqs /\ g_reqs \in Nat
        BY <1>2, PageFacts DEF PageBounds
      <3>2. g_res'[x].likes \in Nat /\ g_res'[x].likes <= g_res[x].likes + 1
        BY <1>6, <1>8, <3>1
      <3> QED
        BY <1>1, <2>2, <3>1, <3>2
    <2>4. g_page' = g_page /\ g_page.resources \in Nat /\ g_page.contributors \in Nat
      BY <1>1, PageFacts
    <2>5. /\ g_page'.resources + N(At({"stub", "post", "count"}))' <= g_page.resources + N(At({"stub", "post", "count"}))
          /\ g_page'.contributors + N(Working)' <= g_page.contributors + N(Working)
      BY <2>1, <2>2, <2>4
    <2> QED
      BY <1>1, <2>3, <2>4, <2>5, BoundsMove
  <1> QED
    BY <1>11, <1>12, <1>13, <1>14, <1>15, <1>16, <1>17, <1>18, <1>19, <1>20 DEF PageInv

-----------------------------------------------------------------------------
(* Moderation, awards, and the whole. *)

LEMMA ModerateSteps ==
  ASSUME PageInv, NEW r \in Resources, NEW hide \in BOOLEAN, Site!Moderate(r, hide)
  PROVE  PageInv'
  <1> DEFINE s == IF hide THEN 2 ELSE 0
  <1>1. /\ r \in Site!Here /\ g_reqs < MaxReq /\ g_reqs' = g_reqs + 1 /\ g_res' = [g_res EXCEPT ![r].status = s]
        /\ g_hidden' = (IF hide THEN g_hidden \cup {r} ELSE g_hidden \ {r})
        /\ UNCHANGED <<g_page, g_contrib, g_liked, g_store, g_owed, g_paid, g_call, g_gave, g_torn, g_left, g_askew, g_raced,
                       g_unpaid, g_faults>>
    BY DEF Site!Moderate, Site!ledger
  <1>2. PageShape /\ Owned /\ Placed /\ Counted /\ Faceted /\ Hearted /\ Earned /\ Filed /\ Site!HiddenStays /\ PageBounds
    BY DEF PageInv
  <1>3. s \in 0..2 /\ (s = 2 <=> hide = TRUE)
    OBVIOUS
  <1>4. g_res \in [Resources -> Offer] /\ g_res[r] \in Offer /\ g_res[r].at = "here"
    BY <1>1, <1>2 DEF PageShape, Site!Here
  <1> HIDE DEF s
  <1>5. /\ g_res' \in [Resources -> Offer] /\ g_res'[r].status = s
        /\ \A x \in Resources : /\ g_res'[x].at = g_res[x].at /\ g_res'[x].likes = g_res[x].likes
                                /\ g_res'[x].facet = g_res[x].facet /\ (x # r => g_res'[x] = g_res[x])
    <2>1. [g_res[r] EXCEPT !.status = s] \in Offer
      BY <1>3, <1>4 DEF Offer
    <2>2. g_res' = [g_res EXCEPT ![r] = [g_res[r] EXCEPT !.status = s]]
      BY <1>1
    <2>3. g_res' \in [Resources -> Offer]
      BY <1>4, <2>1, <2>2
    <2> QED
      BY <1>1, <1>4, <2>3 DEF Offer
  <1>6. Site!Here' = Site!Here /\ Site!FacetsOf(Site!Here)' = Site!FacetsOf(Site!Here) /\ (Site!Exists' <=> Site!Exists)
    BY <1>1, <1>5 DEF Site!Here, Site!FacetsOf, Site!Exists
  <1>7. \A T : N(T)' = N(T) /\ N(T) \in Nat
    BY <1>1, DoingFinite DEF N, Doing
  <1>8. g_reqs \in Nat /\ g_reqs' \in 0..MaxReq
    BY <1>1, <1>2, ServicesAssumption DEF PageShape
  <1>9. PageShape'
    BY <1>1, <1>2, <1>5, <1>8 DEF PageShape
  <1>10. Owned'
    BY <1>1, <1>2, <1>6 DEF Owned
  <1>11. Placed'
    <2>1. \A x \in Resources : g_res'[x].at = "none" => g_liked'[x] = 0 /\ x \notin g_hidden'
      BY <1>1, <1>2, <1>4, <1>5 DEF Placed
    <2>2. \A o \in Calls : g_call[o].r \subseteq Resources /\ (g_call[o].at \in {"erase", "sweep"} => g_call[o].set \subseteq Resources)
      BY <1>2 DEF PageShape, Deed, Apt
    <2> QED
      BY <1>1, <1>2, <1>5, <1>6, <2>1, <2>2 DEF Placed
  <1>12. Counted'
    BY <1>1, <1>2, <1>6, <1>7 DEF Counted
  <1>13. Faceted'
    BY <1>1, <1>2, <1>6 DEF Faceted
  <1>14. Hearted'
    <2> SUFFICES ASSUME NEW x \in Site!Here \ g_torn
                 PROVE  g_res'[x].likes + N(Hearts("like", x))' =
                          (IF g_liked'[x] = 0 THEN 0 ELSE 1) + N(Hearts("unlike", x))'
      BY <1>1, <1>6 DEF Hearted
    <2>1. x \in Resources
      BY DEF Site!Here
    <2>2. g_res'[x].likes = g_res[x].likes /\ g_liked' = g_liked
      BY <1>1, <1>5, <2>1
    <2>3. N(Hearts("like", x))' = N(Hearts("like", x)) /\ N(Hearts("unlike", x))' = N(Hearts("unlike", x))
      BY <1>1 DEF N, Doing, Hearts
    <2> QED
      BY <1>2, <2>2, <2>3 DEF Hearted
  <1>15. Earned'
    BY <1>1, <1>2, <1>5 DEF Earned, Known, Publishing, Booked
  <1>16. Filed'
    BY <1>1, <1>2, <1>6 DEF Filed
  <1>17. Site!HiddenStays'
    <2> SUFFICES ASSUME NEW x \in Site!Here \ g_torn PROVE g_res'[x].status = 2 <=> x \in g_hidden'
      BY <1>1, <1>6 DEF Site!HiddenStays
    <2>1. x \in Resources /\ (g_res[x].status = 2 <=> x \in g_hidden)
      BY <1>2 DEF Site!HiddenStays, Site!Here
    <2>2. CASE x = r
      BY <1>1, <1>3, <1>5, <2>2
    <2>3. CASE x # r
      BY <1>1, <1>5, <2>1, <2>3
    <2> QED
      BY <2>2, <2>3
  <1>18. PageBounds'
    <2>1. /\ N(Working)' = N(Working) /\ N(Working) \in Nat
          /\ N(At({"stub", "post", "count"}))' = N(At({"stub", "post", "count"})) /\ N(At({"stub", "post", "count"})) \in Nat
      BY <1>7
    <2>2. /\ g_page.resources \in Nat /\ g_page.contributors \in Nat
          /\ \A x \in Resources : g_res[x].likes \in Nat /\ g_liked[x] \in Nat
      BY <1>2 DEF PageShape, Offer, PageRow
    <2>3. g_page'.resources + N(At({"stub", "post", "count"}))' <= g_reqs' + 1 /\ g_page'.contributors + N(Working)' <= g_reqs' + 1
      BY <1>1, <1>2, <1>8, <2>1, <2>2 DEF PageBounds
    <2>4. \A x \in Resources : g_res'[x].likes + N(Working)' <= g_reqs' /\ g_liked'[x] <= g_reqs'
      BY <1>1, <1>2, <1>5, <1>8, <2>1, <2>2 DEF PageBounds
    <2>5. \A o \in Calls : g_call[o].at = "save" => g_call[o].row.likes \in Nat
      BY <1>2 DEF PageShape, Apt, Offer
    <2>6. \A o \in Calls : g_call'[o].at = "save" => g_call'[o].row.likes + N(Working)' <= g_reqs'
      BY <1>1, <1>2, <1>8, <2>1, <2>5 DEF PageBounds
    <2> QED
      BY <2>3, <2>4, <2>6 DEF PageBounds
  <1> QED
    BY <1>9, <1>10, <1>11, <1>12, <1>13, <1>14, <1>15, <1>16, <1>17, <1>18 DEF PageInv

\* What depends on the requests and the rows does not ask for the ledger.
LEMMA LedgerMoves ==
  ASSUME PageInv,
         UNCHANGED <<g_page, g_contrib, g_res, g_liked, g_store, g_call, g_reqs, g_gave, g_hidden, g_torn, g_left, g_askew,
                     g_raced>>,
         g_faults' \in 0..MaxFault, g_unpaid' \in BOOLEAN, Earned'
  PROVE  PageInv'
  <1>1. PageShape /\ Owned /\ Placed /\ Counted /\ Faceted /\ Hearted /\ Filed /\ Site!HiddenStays /\ PageBounds
    BY DEF PageInv
  <1>2. Site!Here' = Site!Here /\ Site!FacetsOf(Site!Here)' = Site!FacetsOf(Site!Here) /\ (Site!Exists' <=> Site!Exists)
    BY DEF Site!Here, Site!FacetsOf, Site!Exists
  <1>3. \A T : N(T)' = N(T)
    BY DEF N, Doing
  <1>4. PageShape'
    BY <1>1 DEF PageShape
  <1>5. Owned' /\ Placed' /\ Faceted' /\ Filed'
    <2>1. Owned'
      BY <1>1, <1>2 DEF Owned
    <2>2. Placed'
      BY <1>1, <1>2 DEF Placed
    <2>3. Faceted'
      BY <1>1, <1>2 DEF Faceted
    <2>4. Filed'
      BY <1>1, <1>2 DEF Filed
    <2> QED
      BY <2>1, <2>2, <2>3, <2>4
  <1>6. Counted'
    BY <1>1, <1>2, <1>3 DEF Counted
  <1>7. Hearted'
    <2>1. \A event, r : N(Hearts(event, r))' = N(Hearts(event, r))
      BY DEF N, Doing, Hearts
    <2> QED
      BY <1>1, <1>2, <2>1 DEF Hearted
  <1>8. Site!HiddenStays'
    BY <1>1, <1>2 DEF Site!HiddenStays
  <1>9. PageBounds'
    <2>1. N(Working)' = N(Working) /\ N(At({"stub", "post", "count"}))' = N(At({"stub", "post", "count"}))
      BY <1>3
    <2> QED
      BY <1>1, <2>1 DEF PageBounds
  <1> QED
    BY <1>4, <1>5, <1>6, <1>7, <1>8, <1>9 DEF PageInv

LEMMA AwardSteps ==
  ASSUME PageInv, NEW k \in g_owed, Site!Award(k)
  PROVE  PageInv'
  <1>1. /\ g_owed' = g_owed \ {k} /\ (g_paid' = g_paid \cup {k} \/ (g_paid' = g_paid /\ g_unpaid' = TRUE))
        /\ UNCHANGED <<g_page, g_contrib, g_res, g_liked, g_store, g_call, g_reqs, g_gave, g_hidden, g_torn, g_left, g_askew,
                       g_raced>>
        /\ (g_unpaid' = g_unpaid \/ g_unpaid' = TRUE) /\ (g_paid' = g_paid \cup {k} => g_owed' \cup g_paid' = g_owed \cup g_paid)
    BY DEF Site!Award, Site!rows
  <1>2. g_faults' \in 0..MaxFault
    BY ServicesAssumption DEF Site!Award, Site!Fault, PageInv, PageShape
  <1>3. g_unpaid \in BOOLEAN /\ Earned
    BY DEF PageInv, PageShape
  <1>4. g_unpaid' \in BOOLEAN
    BY <1>1, <1>3
  <1>5. Earned'
    <2>1. CASE g_unpaid' = TRUE
      BY <2>1 DEF Earned
    <2>2. CASE g_unpaid' = g_unpaid /\ g_paid' = g_paid \cup {k}
      <3>1. \A event, r : Booked(event, r)' <=> Booked(event, r)
        BY <1>1, <2>2 DEF Booked
      <3>2. \A event, r : Known(event, r)' <=> Known(event, r)
        BY <1>1, <3>1 DEF Known, Hearts
      <3>3. \A r : Publishing(r)' <=> Publishing(r)
        BY <1>1 DEF Publishing
      <3> QED
        BY <1>1, <1>3, <2>2, <3>1, <3>2, <3>3 DEF Earned
    <2> QED
      BY <1>1, <2>1, <2>2
  <1> QED
    BY <1>1, <1>2, <1>4, <1>5, LedgerMoves

LEMMA InitSite == Site!Init => PageInv
  <1> SUFFICES ASSUME Site!Init PROVE PageInv
    OBVIOUS
  <1>1. PICK R \in SUBSET Resources :
          /\ Cardinality(R) <= 1
          /\ g_page = IF R = {} THEN Site!NoPage
                      ELSE [at |-> "own", by |-> Site!Creator, resources |-> 1, contributors |-> 1,
                            facets |-> {Site!Unborn.facet}]
          /\ g_contrib = (IF R = {} THEN {} ELSE {Site!Creator})
          /\ g_res = [r \in Resources |-> IF r \in R THEN Site!Published(Site!Unborn.facet) ELSE Site!Unborn]
          /\ g_store = R /\ g_gave = g_contrib
          /\ g_paid = (IF R = {} THEN {} ELSE {<<"create", {}>>, <<"publish", R>>})
    <2>1. \A R : Site!Cardinality(R) = Cardinality(R)
      BY DEF Cardinality, Site!Cardinality
    <2> QED
      BY <2>1 DEF Site!Init
  <1>2. /\ g_liked = [r \in Resources |-> 0] /\ g_owed = {} /\ g_call = [c \in Calls |-> Site!NoCall] /\ g_reqs = 0
        /\ g_faults = 0 /\ g_hidden = {} /\ g_torn = {} /\ g_left = {}
        /\ g_askew = FALSE /\ g_raced = FALSE /\ g_unpaid = FALSE
    BY DEF Site!Init
  <1>3. Site!Creator \in Users
    BY ServicesAssumption DEF Site!Creator
  <1>4. /\ Site!Unborn \in Offer /\ Site!Unborn.at = "none" /\ Site!Unborn.likes = 0 /\ Site!Unborn.facet \in Facets
        /\ Site!Published(Site!Unborn.facet) \in Offer /\ Site!Published(Site!Unborn.facet).at = "here"
        /\ Site!Published(Site!Unborn.facet).likes = 0 /\ Site!Published(Site!Unborn.facet).status = 0
        /\ Site!Published(Site!Unborn.facet).facet = Site!Unborn.facet
    <2>1. Site!Unborn.facet \in Facets
      BY UnbornShape DEF Offer
    <2> QED
      BY <2>1, UnbornShape
  <1>5. /\ g_res \in [Resources -> Offer] /\ Site!Here = R
        /\ \A r \in Resources : g_res[r].likes = 0 /\ (r \in R => g_res[r].status = 0 /\ g_res[r].facet = Site!Unborn.facet)
                                /\ (r \notin R => g_res[r].at = "none") /\ (r \in R => g_res[r].at = "here")
    <2>1. \A r \in Resources : g_res[r] = IF r \in R THEN Site!Published(Site!Unborn.facet) ELSE Site!Unborn
      BY <1>1
    <2>2. g_res \in [Resources -> Offer]
      BY <1>1, <1>4
    <2>3. \A r \in Resources : g_res[r].likes = 0 /\ (r \in R => g_res[r].status = 0 /\ g_res[r].facet = Site!Unborn.facet)
                               /\ (r \notin R => g_res[r].at = "none") /\ (r \in R => g_res[r].at = "here")
      BY <1>4, <2>1
    <2>4. Site!Here = R
      BY <2>3 DEF Site!Here
    <2> QED
      BY <2>2, <2>3, <2>4
  <1>6. (R = {} \/ \E r \in Resources : R = {r}) /\ IsFiniteSet(R)
    <2>1. IsFiniteSet(R) /\ Cardinality(R) \in Nat
      BY FeedAssumption, FS_Subset, FS_CardinalityType
    <2>2. Cardinality(R) = 0 \/ Cardinality(R) = 1
      BY <1>1, <2>1
    <2>3. CASE Cardinality(R) = 0
      BY <2>1, <2>3, FS_EmptySet
    <2>4. CASE Cardinality(R) = 1
      BY <2>1, <2>4, FS_Singleton
    <2> QED
      BY <2>2, <2>3, <2>4
  <1>7. \A c \in Calls : /\ g_call[c] = Site!NoCall /\ g_call[c].at = "idle" /\ g_call[c].op = "none" /\ g_call[c].r = {}
                         /\ g_call[c].set = {} /\ Apt(g_call[c])
    BY <1>2, NoDeed
  <1>8. g_call \in [Calls -> Deed]
    BY <1>2, NoDeed
  <1>9. PageShape
    <2>1. g_page \in PageRow
      BY <1>1, <1>3, <1>4 DEF Site!NoPage, Site!NoUser, PageRow
    <2>2. g_contrib \subseteq Users /\ IsFiniteSet(g_contrib) /\ g_gave \subseteq Users
      BY <1>1, <1>3, FS_EmptySet, FS_Singleton
    <2>3. g_reqs \in 0..MaxReq /\ g_faults \in 0..MaxFault
      BY <1>2, ServicesAssumption
    <2>4. g_liked \in [Resources -> Nat]
      BY <1>2
    <2> QED
      BY <1>1, <1>2, <1>5, <1>7, <1>8, <2>1, <2>2, <2>3, <2>4 DEF PageShape
  <1>10. Owned
    BY <1>1, <1>5 DEF Owned, Site!NoPage
  <1>11. Placed
    BY <1>2, <1>7 DEF Placed
  <1>12. N(Working) = 0 /\ \A S : "idle" \notin S => N(At(S)) = 0
    <2>1. N(Working) = 0
      <3>1. Doing(Working) = {}
        BY <1>7 DEF Doing, Working
      <3> QED
        BY <3>1, FS_EmptySet DEF N
    <2>2. ASSUME NEW S, "idle" \notin S PROVE N(At(S)) = 0
      BY <1>7, <1>9, <2>2, NoneAt
    <2> QED
      BY <2>1, <2>2
  <1>13. N(At({"count"})) = 0 /\ N(At({"unstore", "uncount"})) = 0 /\ N(At({"contributor"})) = 0
         /\ N(At({"stub", "post", "count"})) = 0
    BY <1>12
  <1>14. Counted
    <2> SUFFICES ASSUME Site!Exists
                 PROVE  /\ g_page.resources + N(At({"count"})) = Cardinality(Site!Here) + N(At({"unstore", "uncount"}))
                        /\ g_page.contributors + N(At({"contributor"})) = Cardinality(g_contrib)
      BY DEF Counted
    <2>1. R # {}
      BY <1>1 DEF Site!Exists, Site!NoPage
    <2>2. Cardinality(R) = 1 /\ Cardinality(g_contrib) = 1
      BY <1>1, <1>6, <2>1, FS_Singleton
    <2> QED
      BY <1>1, <1>5, <1>13, <2>1, <2>2
  <1>15. Faceted
    <2> SUFFICES ASSUME Site!Exists PROVE g_page.facets = Site!FacetsOf(Site!Here)
      BY <1>7 DEF Faceted
    <2>1. R # {}
      BY <1>1 DEF Site!Exists, Site!NoPage
    <2> QED
      BY <1>1, <1>5, <2>1 DEF Site!FacetsOf
  <1>16. Hearted
    <2>1. \A event, r : Doing(Hearts(event, r)) = {}
      BY <1>7 DEF Doing, Hearts
    <2>2. \A event, r : N(Hearts(event, r)) = 0
      BY <2>1, FS_EmptySet DEF N
    <2> QED
      BY <1>2, <1>5, <2>2 DEF Hearted, Site!Here
  <1>17. Earned
    <2> SUFFICES ASSUME NEW r \in Resources
                 PROVE  /\ g_liked[r] # 0 \/ Known("unlike", r) => Known("like", r)
                        /\ Booked("delete", r) => g_res[r].at # "none"
                        /\ g_res[r].at # "none" => Booked("publish", r) \/ Publishing(r)
      BY DEF Earned
    <2>1. ~Booked("unlike", r) /\ ~Booked("delete", r)
      BY <1>1, <1>2 DEF Booked
    <2>2. ~Known("unlike", r)
      BY <1>7, <2>1 DEF Known, Hearts
    <2>3. r \in R => R = {r}
      BY <1>6
    <2>4. r \in R => Booked("publish", r)
      BY <1>1, <2>3 DEF Booked
    <2> QED
      BY <1>2, <1>5, <2>1, <2>2, <2>4
  <1>18. Filed
    BY <1>1, <1>5 DEF Filed
  <1>19. Site!HiddenStays
    BY <1>2, <1>5 DEF Site!HiddenStays, Site!Here
  <1>20. PageBounds
    <2>1. g_page.resources \in 0..1 /\ g_page.contributors \in 0..1
      BY <1>1 DEF Site!NoPage
    <2> QED
      BY <1>2, <1>5, <1>7, <1>12, <1>13, <2>1 DEF PageBounds
  <1> QED
    BY <1>9, <1>10, <1>11, <1>14, <1>15, <1>16, <1>17, <1>18, <1>19, <1>20 DEF PageInv

LEMMA NextSite ==
  ASSUME PageInv, Site!Next
  PROVE  PageInv'
  <1>1. ASSUME NEW c \in Calls, Site!InsertPage(c) \/ Site!AdoptStub(c) \/ Site!ListArtifacts(c) \/ Site!ErasePage(c)
                                \/ Site!SoftDeleteArtifacts(c) \/ Site!InsertStub(c) \/ Site!Count(c) \/ Site!Gather(c)
        PROVE  PageInv'
    BY <1>1, PageInserts, StubAdopted, ListSteps, EraseSteps, SweepSteps, StubInserted, CountSteps, GatherSteps
  <1>2. ASSUME NEW c \in Calls, Site!WriteFacets(c) \/ Site!MarkIndexed(c) \/ Site!EnsureContributor(c)
                                \/ Site!CountContributor(c) \/ Site!SaveResource(c) \/ Site!RemoveResource(c)
                                \/ Site!DeleteArtifact(c) \/ Site!Uncount(c)
        PROVE  PageInv'
    BY <1>2, WriteSteps, IndexSteps, RowSteps, ContributorSteps, SaveSteps, RemoveSteps, UnstoreSteps, UncountSteps
  <1>3. ASSUME NEW c \in Calls, Site!WriteLike(c) \/ Site!SettleResourceLike(c) \/ Site!ToggleResourceStatus(c) \/ Site!Die(c)
                                \/ \E f \in Facets : Site!InsertResource(c, f)
        PROVE  PageInv'
    BY <1>3, LikeSteps, SettleSteps, ToggleSteps, DyingSteps, PostSteps
  <1> QED
    BY <1>1, <1>2, <1>3, PageAsks, ModerateSteps, AwardSteps DEF Site!Next

LEMMA OthersLeavePage ==
  ASSUME [NextOfOne]_allVars
  PROVE  Site!Next \/ UNCHANGED siteVars
  BY DEF NextOfOne, allVars, FeedOnly, ChatOnly, WallOnly

LEMMA StillPage ==
  ASSUME PageInv, UNCHANGED siteVars
  PROVE  PageInv'
  <1>1. UNCHANGED <<g_page, g_contrib, g_res, g_liked, g_store, g_owed, g_paid, g_call, g_reqs, g_faults, g_gave, g_hidden,
                    g_torn, g_left, g_askew, g_raced, g_unpaid>>
    BY DEF siteVars
  <1>2. PageShape /\ Earned
    BY DEF PageInv
  <1>3. g_faults' \in 0..MaxFault /\ g_unpaid' \in BOOLEAN
    BY <1>1, <1>2 DEF PageShape
  <1>4. Earned'
    <2>1. \A event, r : Known(event, r)' <=> Known(event, r)
      BY <1>1 DEF Known, Booked, Hearts
    <2>2. \A event, r : Booked(event, r)' <=> Booked(event, r)
      BY <1>1 DEF Booked
    <2>3. \A r : Publishing(r)' <=> Publishing(r)
      BY <1>1 DEF Publishing
    <2> QED
      BY <1>1, <1>2, <2>1, <2>2, <2>3 DEF Earned
  <1> QED
    BY <1>1, <1>3, <1>4, LedgerMoves

\* With nobody at work the invariant comes to the property.
LEMMA PageSettles ==
  ASSUME PageInv
  PROVE  Site!TypeOK /\ Site!PageKept
  <1>1. PageShape /\ Owned /\ Placed /\ Counted /\ Faceted /\ Hearted /\ Earned /\ Filed /\ Site!HiddenStays /\ PageBounds
    BY DEF PageInv
  <1>2. Site!TypeOK
    <2>1. /\ N(Working) \in Nat /\ N(At({"stub", "post", "count"})) \in Nat /\ g_reqs \in Nat /\ g_reqs <= MaxReq
          /\ g_page.resources \in Nat /\ g_page.contributors \in Nat /\ MaxReq \in Nat
      BY <1>1, DoingFinite, ServicesAssumption DEF PageShape, PageRow
    <2>2. g_page.resources \in 0..MaxReq + 1 /\ g_page.contributors \in 0..MaxReq + 1
      BY <1>1, <2>1 DEF PageBounds
    <2>3. \A r \in Resources : g_res[r].likes \in 0..MaxReq /\ g_liked[r] \in 0..MaxReq
      <3> TAKE r \in Resources
      <3>1. g_res[r].likes \in Nat /\ g_liked[r] \in Nat
        BY <1>1 DEF PageShape, Offer
      <3>2. g_res[r].likes + N(Working) <= g_reqs /\ g_liked[r] <= g_reqs
        BY <1>1 DEF PageBounds
      <3> QED
        BY <2>1, <3>1, <3>2
    <2>4. \A r \in Resources : /\ g_res[r].at \in {"none", "here", "gone"} /\ g_res[r].status \in 0..2
                               /\ g_res[r].facet \in Facets
      BY <1>1 DEF PageShape, Offer
    <2> QED
      BY <1>1, <2>2, <2>3, <2>4 DEF Site!TypeOK, PageShape, Site!NoUser, PageRow
  <1>3. ASSUME Site!Idle
        PROVE  \A c \in Calls : g_call[c].at = "idle" /\ g_call[c].op = "none" /\ g_call[c].r = {} /\ g_call[c].set = {}
    BY <1>3, NoDeed DEF Site!Idle
  <1>4. Site!CountersSettle
    <2> SUFFICES ASSUME Site!Idle, Site!Exists, ~g_askew
                 PROVE  /\ g_page.resources = Cardinality(Site!Here) /\ g_page.contributors = Cardinality(g_contrib)
                        /\ g_raced \/ g_page.facets = Site!FacetsOf(Site!Here)
      <3>1. \A S : Site!Cardinality(S) = Cardinality(S)
        BY DEF Cardinality, Site!Cardinality
      <3> QED
        BY <3>1 DEF Site!CountersSettle
    <2>1. /\ \A c \in Calls : g_call[c].at \notin {"count"} /\ g_call[c].at \notin {"unstore", "uncount"}
                              /\ g_call[c].at \notin {"contributor"}
      BY <1>3
    <2>2. N(At({"count"})) = 0 /\ N(At({"unstore", "uncount"})) = 0 /\ N(At({"contributor"})) = 0
      BY <1>1, <2>1, NoneAt
    <2>3. Cardinality(Site!Here) \in Nat /\ g_page.resources \in Nat /\ g_page.contributors \in Nat
      <3>1. IsFiniteSet(Site!Here)
        <4>1. Site!Here \subseteq Resources
          BY DEF Site!Here
        <4> QED
          BY <4>1, FeedAssumption, FS_Subset
      <3> QED
        BY <1>1, <3>1, FS_CardinalityType DEF PageShape, PageRow
    <2>4. g_page.resources = Cardinality(Site!Here) /\ g_page.contributors = Cardinality(g_contrib)
      BY <1>1, <2>2, <2>3 DEF Counted
    <2>5. g_raced \/ g_page.facets = Site!FacetsOf(Site!Here)
      BY <1>1, <1>3 DEF Faceted, Changing
    <2> QED
      BY <2>4, <2>5
  <1>5. Site!LikesSettle
    <2> SUFFICES ASSUME Site!Idle
                 PROVE  /\ \A r \in Site!Here \ g_torn : g_res[r].likes = IF g_liked[r] = 0 THEN 0 ELSE 1
                        /\ g_unpaid \/ \A r \in Resources : /\ <<"unlike", {r}>> \in g_paid => <<"like", {r}>> \in g_paid
                                                            /\ <<"delete", {r}>> \in g_paid => <<"publish", {r}>> \in g_paid
      BY DEF Site!LikesSettle
    <2>1. \A event, r : Doing(Hearts(event, r)) = {}
      BY <1>3 DEF Doing, Hearts
    <2>2. \A event, r : N(Hearts(event, r)) = 0
      BY <2>1, FS_EmptySet DEF N
    <2>3. \A r \in Site!Here \ g_torn : g_res[r].likes = IF g_liked[r] = 0 THEN 0 ELSE 1
      <3> TAKE r \in Site!Here \ g_torn
      <3>1. g_res[r].likes \in Nat
        BY <1>1 DEF PageShape, Offer, Site!Here
      <3> QED
        BY <1>1, <2>2, <3>1 DEF Hearted
    <2>4. g_owed = {} /\ \A event, r : Booked(event, r) <=> <<event, {r}>> \in g_paid
      BY DEF Site!Idle, Booked
    <2>5. \A event, r : Known(event, r) <=> Booked(event, r)
      BY <1>3 DEF Known, Hearts
    <2>6. \A r : ~Publishing(r)
      BY <1>3 DEF Publishing
    <2>7. g_unpaid \/ \A r \in Resources : /\ <<"unlike", {r}>> \in g_paid => <<"like", {r}>> \in g_paid
                                           /\ <<"delete", {r}>> \in g_paid => <<"publish", {r}>> \in g_paid
      BY <1>1, <2>4, <2>5, <2>6 DEF Earned
    <2> QED
      BY <2>3, <2>7
  <1>6. Site!FilesFollow
    BY <1>1, <1>3 DEF Site!FilesFollow, Filed
  <1>7. Site!OneOwner
    BY <1>1 DEF Site!OneOwner, Owned
  <1> QED
    BY <1>1, <1>2, <1>4, <1>5, <1>6, <1>7 DEF Site!PageKept

\* PageKept: when the requests of a page are over its counters come to its
\* rows, a like is counted once and paid before it is taken back, files follow
\* their resources, hides stay and the page has one owner, unless a named cause
\* struck; however many requests, users, resources and facets there are.
THEOREM PageIsKept == SpecOfOne => []PageKept
  <1>1. InitOfOne => PageInv
    BY InitSite DEF InitOfOne
  <1>2. PageInv /\ [NextOfOne]_allVars => PageInv'
    BY NextSite, OthersLeavePage, StillPage
  <1>3. PageInv => PageKept
    BY PageSettles DEF PageKept
  <1> QED
    BY <1>1, <1>2, <1>3, PTL DEF SpecOfOne
===============================================================================
