----------------------------- MODULE CatalogMerge -----------------------------
(***************************************************************************)
(* Catalog merges and undone merges, followed by the pages of this site:   *)
(* internal/infrastructure/cron/catalog_merge_sync.go,                     *)
(* internal/patch/merge and the retry of internal/admin/repository.        *)
(*                                                                         *)
(* patch.id is the catalog work id.  A merged work's page is renumbered    *)
(* onto the survivor's number or folded into the page that is there; the   *)
(* merge leaves a record, and an undone merge puts the rows back by it.    *)
(* Catalog lists a work's row again whenever it changes, at the tail of    *)
(* its feed; a drain handles a page of the feed row by row, each in its    *)
(* own transaction, with the pages and redirects it read for the page.     *)
(*                                                                         *)
(* Abstractions.  A page row is its summed counters (views) and the        *)
(* external id it holds uniquely (ext).  Resources stand for the children  *)
(* that always move, join rows for the ones unique per page and peer.  The *)
(* counts rebuilt from the children (Recount) and the publication flag are *)
(* left out; so are purged users, the legacy scope of the redirects and    *)
(* work numbers that are not positive.  The presentations queued for both  *)
(* numbers are in AnchorPresentation.                                      *)
(* History variables: born, gone, handled, rounds, and late of a record.   *)
(***************************************************************************)
EXTENDS Naturals, FiniteSets, Sequences, FiniteSetsExt, SequencesExt

CONSTANTS
  Works,       \* catalog work ids, positive
  FirstPages,  \* the works with a page at the start
  Resources,   \* patch_resource rows (bound)
  Joins,       \* patch_link, contribute and favorite rows (bound)
  PeerOf,      \* [Joins -> peer]: the name or the user of a join row
  PageSize,    \* mergeSyncPageSize
  MaxCatalog,  \* bound: merges and undos in catalog
  MaxFail,     \* bound: undos that fail, and ticks that die
  MaxReader,   \* bound: pages created, rows published and deleted after the start
  FirstAt,     \* [row -> work]: the rows on a page at the start
  FirstViews   \* [work -> number]: what the pages had counted at the start

None == 0
Rounds == 3   \* drains after which nothing is left to replay; the first may have been under way
Rows == Resources \cup Joins

VARIABLES
  into,      \* external: what catalog merged a work into, itself when it is live
  at,        \* external: when the work's feed row last changed, 0 without one
  db,        \* patch, its children, and patch_redirect (scope merge)
  records,   \* patch_merge_record and its rows, by id
  cursor,    \* cron_state.last_cursor
  batch,     \* the feed page being applied
  fails,     \* undos and ticks that failed so far
  changes,   \* what catalog did so far
  acts,      \* what readers did so far
  born, gone, handled, rounds

catalogVars == <<into, at, changes>>
readerVars == <<acts, born, gone>>
syncVars == <<cursor, batch, fails, handled>>
vars == <<catalogVars, readerVars, syncVars, db, records, rounds>>

NoPage  == [views |-> 0, ext |-> None, here |-> FALSE]
NoBatch == [items |-> <<>>, pages |-> {}, ledger |-> [w \in Works |-> None],
            next |-> None, on |-> FALSE]

-----------------------------------------------------------------------------
(* Catalog, as this site sees it. *)

Climb(w) ==
  LET up[n \in 0..Cardinality(Works)] == IF n = 0 THEN w ELSE into[up[n - 1]]
  IN  up
Current(w) == Climb(w)[Cardinality(Works)]
Under(a) == {w \in Works : \E n \in DOMAIN Climb(w) : Climb(w)[n] = a}

\* Rows changed together share merged_at and are ordered by id.
Restamp(changed) ==
  at' = [w \in Works |->
           IF w \in changed
           THEN Max(Range(at)) + Cardinality({x \in changed : x <= w}) ELSE at[w]]

Bounded == changes < MaxCatalog /\ changes' = changes + 1 /\ rounds' = 0
Turn(a) == \A w \in Under(a) : at[w] = handled[w]

CatalogMerge(a, b) ==
  /\ Bounded /\ Turn(a) /\ a # b /\ into[a] = a /\ into[b] = b /\ at[a] = 0
  /\ into' = [into EXCEPT ![a] = b]
  /\ Restamp(Under(a))
  /\ UNCHANGED <<readerVars, syncVars, db, records>>

CatalogUndo(a) ==
  /\ Bounded /\ Turn(a) /\ into[a] # a
  /\ into' = [into EXCEPT ![a] = a]
  /\ Restamp(Under(a))
  /\ UNCHANGED <<readerVars, syncVars, db, records>>

-----------------------------------------------------------------------------
(* The database. *)

Here(d, w)     == d.page[w].here
Children(d, w) == {k \in Rows : d.at[k] = w}
Held(d, w, k)  == \E x \in Joins \ {k} : d.at[x] = w /\ PeerOf[x] = PeerOf[k]
Twin(d, w, k)  == k \in Joins /\ Held(d, w, k)
ExtTaken(d, e) == e # None /\ \E w \in Works : Here(d, w) /\ d.page[w].ext = e
\* A taken id is replaced by the placeholder wiki-<id>.
ExtOrHolder(d, e) == IF ExtTaken(d, e) THEN None ELSE e

Action(oldIsPage, newIsPage) ==
  CASE oldIsPage /\ newIsPage -> "fold"
    [] oldIsPage /\ ~newIsPage -> "renumber"
    [] ~oldIsPage /\ newIsPage -> "ledger"
    [] OTHER -> "skip"

\* Begin: the record and the snapshots of what the merge is about to touch.
Begun(d, action, old, new) ==
  [old |-> old, new |-> new, action |-> action, state |-> "open",
   noted |-> FALSE, late |-> FALSE,
   before |-> [w \in {old, new} |-> d.page[w]], after |-> NoPage,
   moved |-> Children(d, old), dropped |-> {},
   repointed |-> {w \in Works : d.redirect[w] = old}]

\* Fold: every resource moves, a join row unless the survivor has its twin; the
\* loser goes, and the survivor takes its external id if it has none.
Folded(d, old, new) ==
  LET lost == {k \in Children(d, old) : Twin(d, new, k)}
      p == d.page[new]
      l == d.page[old]
  IN  [d EXCEPT
        !.at = [k \in Rows |-> IF k \in lost THEN None
                               ELSE IF d.at[k] = old THEN new ELSE d.at[k]],
        !.page[old] = NoPage,
        !.page[new] = IF ~p.here THEN p
                      ELSE [p EXCEPT !.views = @ + l.views,
                                     !.ext = IF @ = None THEN l.ext ELSE @]]

\* UPDATE patch SET id: the children follow by ON UPDATE CASCADE.
Renumbered(d, old, new) ==
  IF ~Here(d, old) THEN d
  ELSE [d EXCEPT
         !.page[new] = d.page[old], !.page[old] = NoPage,
         !.at = [k \in Rows |-> IF d.at[k] = old THEN new ELSE d.at[k]]]

Moved(d, action, old, new) ==
  CASE action = "renumber" -> Renumbered(d, old, new)
    [] action = "fold" -> Folded(d, old, new)
    [] OTHER -> d

\* Mutant of Finished: the rows the fold dropped are not recorded.
FinishedBlind(d, r) == [r EXCEPT !.after = d.page[r.new], !.late = ~Here(d, r.new)]

\* Finish: the survivor as the merge left it, and the rows a fold dropped.
Finished(d, r) ==
  [r EXCEPT !.after = d.page[r.new], !.late = ~Here(d, r.new),
            !.dropped = {k \in r.moved : d.at[k] = None}]

\* Mutant of Flattened: only the merged id's own row is written.
FlattenedNot(d, old, new) == [d EXCEPT !.redirect[old] = new]

Flattened(d, old, new) ==
  [d EXCEPT !.redirect =
     [w \in Works |-> IF w = old \/ d.redirect[w] = old THEN new ELSE d.redirect[w]]]

-----------------------------------------------------------------------------
(* Undo. *)

\* loadAllowed: the survivor, and every page it was merged into since, by the
\* redirects and by the records whose undo failed.
Allowed(d, recs, new) ==
  LET next(S) == ({d.redirect[w] : w \in S} \ {None})
                 \cup {recs[i].new : i \in {j \in DOMAIN recs :
                          recs[j].old \in S /\ recs[j].state = "failed"}}
      reach[n \in 0..Cardinality(Works)] ==
        IF n = 0 THEN {new} ELSE reach[n - 1] \cup next(reach[n - 1])
  IN  reach[Cardinality(Works)]

\* takeBackRenumberedPage and createSurvivorPage.
TakenBack(d, r) ==
  LET post == Children(d, r.new) \ r.moved
      back == [d EXCEPT !.page[r.old] = d.page[r.new], !.page[r.new] = NoPage]
      stub == [views |-> 0, ext |-> ExtOrHolder(back, r.new), here |-> TRUE]
  IN  [back EXCEPT
        !.page[r.new] = IF post = {} THEN NoPage ELSE stub,
        !.at = [k \in Rows |-> IF d.at[k] = r.new /\ k \notin post THEN r.old ELSE d.at[k]]]

\* Mutant of Relieved: the survivor keeps what the fold added.
RelievedNot(d, r) == d

\* restoreSurvivor: the retired page's counters come off, and a column nothing
\* has changed since goes back.
Relieved(d, r) ==
  LET p == d.page[r.new]
      v == r.before[r.old].views
  IN  [d EXCEPT !.page[r.new] =
         [p EXCEPT !.views = IF p.views > v THEN p.views - v ELSE 0,
                   !.ext   = IF p.ext = r.after.ext THEN r.before[r.new].ext ELSE p.ext]]

Reinserted(d, r) ==
  [d EXCEPT !.page[r.old] = [r.before[r.old] EXCEPT !.ext = ExtOrHolder(d, @)]]

\* restorePages: the pages, and whether a person has to look at them: a page
\* without its snapshot stays away, a survivor without its own stays as it is.
PagesRestored(d, r) ==
  LET fold == r.action = "fold"
      relieve == Here(d, r.new) /\ r.before[r.new].here /\ r.after.here
      s == IF fold /\ relieve THEN Relieved(d, r) ELSE d
  IN  IF Here(d, r.old) THEN [db |-> d, noted |-> TRUE]
      ELSE IF ~fold /\ Here(d, r.new) THEN [db |-> TakenBack(d, r), noted |-> FALSE]
      ELSE IF ~r.before[r.old].here THEN [db |-> d, noted |-> TRUE]
      ELSE [db |-> Reinserted(s, r),
            noted |-> (fold /\ ~relieve) \/ ExtTaken(s, r.before[r.old].ext)]

\* restoreChildren: a recorded row goes back from an allowed page unless the old
\* one has its twin; a dropped one is inserted again, a deleted one is not.
Returns(d, r, allowed, k) ==
  /\ k \in r.moved /\ d.at[k] # r.old /\ ~Twin(d, r.old, k)
  /\ IF d.at[k] = None THEN k \in r.dropped ELSE d.at[k] \in allowed
Stays(d, r, allowed, k) ==
  /\ k \in r.moved /\ d.at[k] # r.old /\ ~Returns(d, r, allowed, k)
  /\ d.at[k] = None => k \in r.dropped
ChildrenRestored(d, r, allowed) ==
  [d EXCEPT !.at = [k \in Rows |-> IF Returns(d, r, allowed, k) THEN r.old ELSE d.at[k]]]

\* restoreRedirects: by scope and old id, wherever the row points now.
RedirectsRestored(d, r) ==
  [d EXCEPT !.redirect = [w \in Works |->
     IF w \in r.repointed /\ d.redirect[w] # None THEN r.old ELSE d.redirect[w]]]

Undone(d, recs, r) ==
  IF r.action = "ledger" THEN [db |-> RedirectsRestored(d, r), noted |-> FALSE]
  ELSE LET p == PagesRestored(d, r)
           a == Allowed(d, recs, r.new)
           c == IF Here(p.db, r.old) THEN ChildrenRestored(p.db, r, a) ELSE p.db
       IN  [db |-> RedirectsRestored(c, r),
            noted |-> p.noted \/ \E k \in Rows : Stays(p.db, r, a, k)]

-----------------------------------------------------------------------------
(* The drain. *)

FeedAfter(c) ==
  LET S == {w \in Works : at[w] > c}
  IN  {f \in [1..Cardinality(S) -> S] : \A i, j \in DOMAIN f : i < j => at[f[i]] < at[f[j]]}
Item(w) == [old |-> w, new |-> Current(w), revoked |-> into[w] = w, stamp |-> at[w]]

\* A page of the feed, and the pages and redirects of its ids.  The feed row of
\* a revoked merge names the work itself.
Fetch ==
  \E feed \in FeedAfter(cursor) :
    LET n == IF Len(feed) > PageSize THEN PageSize ELSE Len(feed)
        items == [i \in 1..n |-> Item(feed[i])]
        ids == UNION {{items[i].old, items[i].new} : i \in 1..n}
    IN  /\ ~batch.on /\ n > 0
        /\ batch' = [items |-> items, on |-> TRUE,
                     pages |-> {w \in ids : Here(db, w)},
                     ledger |-> [w \in Works |-> IF w \in ids THEN db.redirect[w] ELSE None],
                     next |-> IF n = PageSize THEN items[n].stamp ELSE None]
        /\ UNCHANGED <<catalogVars, readerVars, db, records, cursor, fails, handled, rounds>>

Done(pages, ledger) ==
  LET i == Head(batch.items) IN
  /\ batch' = [batch EXCEPT !.items = Tail(@), !.pages = pages, !.ledger = ledger]
  /\ handled' = [handled EXCEPT ![i.old] = i.stamp]
  /\ UNCHANGED <<catalogVars, readerVars, cursor, rounds>>

Busy == batch.on /\ batch.items # <<>>
ActionNow ==
  LET i == Head(batch.items) IN Action(i.old \in batch.pages, i.new \in batch.pages)
Settled(i) == ActionNow = "ledger" /\ batch.ledger[i.old] = i.new

\* A row about works without a page, or one the ledger already has.
Pass ==
  /\ Busy
  /\ LET i == Head(batch.items) IN
     /\ ~i.revoked /\ (ActionNow = "skip" \/ Settled(i))
     /\ Done(batch.pages, batch.ledger)
  /\ UNCHANGED <<db, records, fails>>

\* The page set is older than the transaction: a page created on the survivor's
\* number fails a renumber on the key, and a survivor taken back by a retry
\* fails the fold on the foreign key of the first child.
Refused(i) ==
  \/ ActionNow = "renumber" /\ Here(db, i.old) /\ Here(db, i.new)
  \/ ActionNow = "fold" /\ ~Here(db, i.new) /\ Children(db, i.old) # {}

\* applyRedirect.
Follow ==
  /\ Busy
  /\ LET i == Head(batch.items)
         r == Begun(db, ActionNow, i.old, i.new)
         d == Moved(db, ActionNow, i.old, i.new)
     IN  /\ ~i.revoked /\ ActionNow # "skip" /\ ~Settled(i)
         /\ ~Refused(i)
         /\ db' = Flattened(d, i.old, i.new)
         /\ records' = Append(records, Finished(d, r))
         /\ Done(IF ActionNow = "ledger" THEN batch.pages
                 ELSE (batch.pages \cup {i.new}) \ {i.old}, batch.ledger)
  /\ UNCHANGED fails

\* The tick ends with the error.
FollowFails ==
  /\ Busy
  /\ LET i == Head(batch.items) IN ~i.revoked /\ Refused(i)
  /\ batch' = NoBatch
  /\ UNCHANGED <<catalogVars, readerVars, db, records, cursor, fails, handled, rounds>>

\* An undo by one record: done, or rolled back to its savepoint and marked.
UndoOne(s, n, bad) ==
  LET u == Undone(s.db, s.recs, s.recs[n])
  IN  IF n \in bad THEN [s EXCEPT !.recs[n].state = "failed"]
      ELSE [db |-> u.db, recs |-> [s.recs EXCEPT ![n].state = "undone", ![n].noted = u.noted,
                                              ![n].late = ~Here(s.db, s.recs[n].new)]]

\* Mutant of OpenOf: only the newest record of the id.
OpenNewest(old) ==
  LET S == {n \in DOMAIN records : records[n].old = old /\ records[n].state # "undone"}
  IN  IF S = {} THEN {} ELSE {Max(S)}

OpenOf(old) == {n \in DOMAIN records : records[n].old = old /\ records[n].state # "undone"}

\* The records S undone, the newest first.
UndoneFrom(s, S, bad) ==
  LET newest == Len(s.recs)
      past[i \in 0..newest] ==
        IF i = 0 THEN s
        ELSE LET n == newest + 1 - i
             IN  IF n \in S THEN UndoOne(past[i - 1], n, bad) ELSE past[i - 1]
  IN  past[newest]

\* Mutant of Revoked: the records are undone and the redirect stays.
RevokedKeeps(old, bad) == UndoneFrom([db |-> db, recs |-> records], OpenOf(old), bad)

Revoked(old, bad) ==
  UndoneFrom([db |-> [db EXCEPT !.redirect[old] = None], recs |-> records], OpenOf(old), bad)

\* revokeRedirect, with the records whose undo fails.
Revoke(bad) ==
  /\ Busy
  /\ LET i == Head(batch.items)
         known == batch.ledger[i.old] # None
         s == IF known THEN Revoked(i.old, bad) ELSE [db |-> db, recs |-> records]
         survivor == batch.ledger[i.old]
     IN  /\ i.revoked
         /\ bad \subseteq (IF known THEN OpenOf(i.old) ELSE {})
         /\ fails + Cardinality(bad) <= MaxFail
         /\ fails' = fails + Cardinality(bad)
         /\ db' = s.db /\ records' = s.recs
         /\ Done(IF ~known THEN batch.pages
                 ELSE (batch.pages \ {i.old, survivor})
                      \cup {w \in {i.old, survivor} : Here(s.db, w)},
                 [batch.ledger EXCEPT ![i.old] = None])

\* The watermark moves only past a full page.
EndPage ==
  /\ batch.on /\ batch.items = <<>>
  /\ cursor' = IF batch.next = None THEN cursor ELSE batch.next
  /\ batch' = NoBatch
  /\ rounds' = IF rounds = Rounds THEN rounds ELSE rounds + 1
  /\ UNCHANGED <<catalogVars, readerVars, db, records, fails, handled>>

\* The tick dies: the process restarts, or a fetch or a transaction fails.
Crash ==
  /\ batch.on /\ fails < MaxFail
  /\ fails' = fails + 1
  /\ batch' = NoBatch
  /\ UNCHANGED <<catalogVars, readerVars, db, records, cursor, handled, rounds>>

\* RetryMergeUndo: an administrator runs a failed undo again.
Retry(n) ==
  /\ records[n].state = "failed"
  /\ LET s == UndoOne([db |-> db, recs |-> records], n, {})
     IN  db' = s.db /\ records' = s.recs
  /\ rounds' = 0
  /\ UNCHANGED <<catalogVars, readerVars, syncVars>>

-----------------------------------------------------------------------------
(* Readers. *)

Act == acts < MaxReader /\ acts' = acts + 1 /\ rounds' = 0

\* A page is created for a work catalog names live.
CreatePage(w) ==
  /\ Act
  /\ into[w] = w /\ ~Here(db, w)
  /\ db' = [db EXCEPT !.page[w] = [views |-> 0, ext |-> ExtOrHolder(db, w), here |-> TRUE]]
  /\ UNCHANGED <<catalogVars, syncVars, records, born, gone>>

Publish(k, w) ==
  /\ Act
  /\ born[k] = None /\ Here(db, w) /\ ~Twin(db, w, k)
  /\ db' = [db EXCEPT !.at[k] = w]
  /\ born' = [born EXCEPT ![k] = w]
  /\ UNCHANGED <<catalogVars, syncVars, records, gone>>

Delete(k) ==
  /\ Act
  /\ db.at[k] # None
  /\ db' = [db EXCEPT !.at[k] = None]
  /\ gone' = gone \cup {k}
  /\ UNCHANGED <<catalogVars, syncVars, records, born>>

-----------------------------------------------------------------------------
Init ==
  /\ into = [w \in Works |-> w]
  /\ at = [w \in Works |-> 0]
  /\ db = [page |-> [w \in Works |-> IF w \in FirstPages
                       THEN [views |-> FirstViews[w], ext |-> w, here |-> TRUE] ELSE NoPage],
           at |-> FirstAt, redirect |-> [w \in Works |-> None]]
  /\ records = <<>> /\ cursor = 0 /\ batch = NoBatch /\ fails = 0 /\ acts = 0 /\ changes = 0
  /\ born = FirstAt /\ gone = {}
  /\ handled = [w \in Works |-> 0] /\ rounds = 0

Drain ==
  \/ Fetch \/ Pass \/ Follow \/ FollowFails \/ EndPage
  \/ \E bad \in SUBSET (DOMAIN records) : Revoke(bad)

Next ==
  \/ \E a, b \in Works : CatalogMerge(a, b)
  \/ \E a \in Works : CatalogUndo(a)
  \/ Drain \/ Crash
  \/ \E n \in DOMAIN records : Retry(n)
  \/ \E w \in Works : CreatePage(w)
  \/ \E k \in Rows, w \in Works : Publish(k, w)
  \/ \E k \in Rows : Delete(k)

Spec == Init /\ [][Next]_vars

-----------------------------------------------------------------------------
PageType == [views : Nat, ext : Works \cup {None}, here : BOOLEAN]

TypeOK ==
  /\ into \in [Works -> Works] /\ at \in [Works -> Nat] /\ cursor \in Nat
  /\ db.page \in [Works -> PageType]
  /\ db.at \in [Rows -> Works \cup {None}]
  /\ db.redirect \in [Works -> Works \cup {None}]
  /\ \A n \in DOMAIN records :
       /\ records[n].action \in {"fold", "renumber", "ledger"}
       /\ records[n].state \in {"open", "failed", "undone"}
       /\ records[n].moved \subseteq Rows /\ records[n].dropped \subseteq records[n].moved
  /\ batch.on \in BOOLEAN /\ fails \in 0..MaxFail /\ acts \in 0..MaxReader
  /\ changes \in 0..MaxCatalog

\* The site has drained the feed twice since anything last changed: the tail the
\* watermark leaves is replayed by every drain.
Synced == ~batch.on /\ rounds = Rounds

\* No undo is left failed, and none reported what a person has to look at.
Clean == \A n \in DOMAIN records : records[n].state # "failed" /\ ~records[n].noted

\* At any moment, whatever chains of merges and undos are applied, fail, die or are
\* retried: a row on no page was deleted by its owner, or left to the twin that
\* stood on the survivor's page; and the rows keep the constraints of the database,
\* a page that is there and one row per page and peer, so that no undo fails on them.
Dropped(k) == {n \in DOMAIN records : k \in records[n].dropped}
RowsKept ==
  \A k \in Rows :
    /\ born[k] # None /\ db.at[k] = None => k \in gone \/ Dropped(k) # {}
    /\ db.at[k] # None => Here(db, db.at[k]) /\ ~Twin(db, db.at[k], k)

\* However merges and undos of chains interleave, once the site has followed
\* them every row is on the page of the work it was published for, or of the work
\* that one is merged into.  (A join row dropped as a twin further down a chain is
\* in that merge's record and comes back to that merge's page.)
DroppedFar(k) == \E n \in Dropped(k) : records[n].old # born[k]
RowsHome ==
  Synced /\ Clean =>
    \A k \in Rows : db.at[k] # None => db.at[k] = Current(born[k]) \/ DroppedFar(k)

\* Between any two transactions, unsynced and with undos failed, no redirect
\* leads to a number that is itself redirected and has no page; and once the site
\* has followed, a merged-away number leads to the work it is merged into.
RedirectsSound ==
  \A w \in Works : LET x == db.redirect[w] IN
    x # None => /\ Here(db, x) \/ db.redirect[x] = None
                /\ Synced /\ Clean => x = Current(w)

\* What a page counted is counted once, whatever was folded and put back: among
\* folds, as long as none was applied or undone with its survivor's page gone.
\* (A page taken back from a renumber takes along what was folded into it since.)
ViewsConserved ==
  Synced /\ Clean /\ (\A n \in DOMAIN records :
                                     records[n].action # "renumber" /\ ~records[n].late) =>
    MapThenSumSet(LAMBDA w : db.page[w].views, Works) = MapThenSumSet(LAMBDA w : FirstViews[w], FirstPages)

\* Once the site has followed, what was undone is back: the rows, and what pages counted.
UndosRestore == RowsHome /\ ViewsConserved
=============================================================================
