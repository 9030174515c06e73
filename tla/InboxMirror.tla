------------------------------ MODULE InboxMirror ------------------------------
(***************************************************************************)
(* The inbox's copy of community's notifications:                          *)
(* internal/community/inbox/inbox.go, and MarkAsRead of internal/message.  *)
(*                                                                         *)
(* Community folds what happens into notifications; every update of a fold *)
(* moves it to the end of the feed with a new seq and makes it unread, a   *)
(* read does not.  A sync reads the feed from the watermark page by page   *)
(* and writes each page with the watermark in one transaction; a second    *)
(* process may run a sync of its own.  Readers mark rows read here, and    *)
(* the ids are forwarded to community afterwards.                          *)
(*                                                                         *)
(* Abstractions.  One recipient, one thread; a fold's post number is its   *)
(* seq.  Every fold may be retracted, as those of followed users may.      *)
(* Folds on walls that resolve to no page are dropped like those of an     *)
(* unknown recipient.  Rows mirrored before migration 044 are left out.    *)
(* History variables: seen, missed, raced.                                 *)
(***************************************************************************)
EXTENDS Naturals, FiniteSets, Sequences, FiniteSetsExt, SequencesExt

CONSTANTS
  Folds,     \* community notifications
  Syncs,     \* runs of Sync that may overlap
  PageSize,  \* feedPageSize
  MaxSeq     \* bound: updates of folds

VARIABLES
  fold,      \* external: [seq, items, read] of a notification, seq 0 before the first
  known,     \* the recipient has a row in "user"
  row,       \* user_message by community_notification_id, seq 0 without one
  cursor,    \* cron_state.last_id
  sync,      \* what a Sync has fetched, and the seq it reads on from
  forward,   \* ids read here and not yet sent to community
  upTo,      \* the post number community answered to a thread read, 0 without one
  seen, missed, raced

vars == <<fold, known, row, cursor, sync, forward, upTo, seen, missed, raced>>

NoRow == [seq |-> 0, read |-> FALSE]
NoSync == [at |-> "idle", after |-> 0, page |-> <<>>]
Newest == Max({fold[n].seq : n \in Folds})

-----------------------------------------------------------------------------
(* Community. *)

Update(n, items) ==
  /\ Newest < MaxSeq /\ (items = 0 => fold[n].items > 0)
  /\ fold' = [fold EXCEPT ![n] = [seq |-> Newest + 1, items |-> items, read |-> FALSE]]
  /\ UNCHANGED <<known, row, cursor, sync, forward, upTo, seen, missed, raced>>

InOrder(S) == CHOOSE s \in [1..Cardinality(S) -> S] : \A i, j \in DOMAIN s : i < j => s[i] < s[j]

\* The folds behind a seq, oldest first, as they are now.
FeedAfter(after) ==
  LET seqs == InOrder({fold[n].seq : n \in Folds} \ 0..after)
      Of(q) == CHOOSE n \in Folds : fold[n].seq = q
  IN  [i \in 1..Min({Len(seqs), PageSize}) |-> [id |-> Of(seqs[i]), fold |-> fold[Of(seqs[i])]]]

-----------------------------------------------------------------------------
(* Sync. *)

SignIn ==
  /\ ~known /\ known' = TRUE
  /\ UNCHANGED <<fold, row, cursor, sync, forward, upTo, seen, missed, raced>>

Start(s) ==
  /\ sync[s].at = "idle"
  /\ sync' = [sync EXCEPT ![s] = [NoSync EXCEPT !.at = "reading", !.after = cursor]]
  /\ UNCHANGED <<fold, known, row, cursor, forward, upTo, seen, missed, raced>>

FetchPage(s) ==
  LET page == FeedAfter(sync[s].after) IN
  /\ sync[s].at = "reading"
  /\ sync' = [sync EXCEPT ![s] =
                IF page = <<>> THEN NoSync ELSE [@ EXCEPT !.at = "fetched", !.page = page]]
  /\ UNCHANGED <<fold, known, row, cursor, forward, upTo, seen, missed, raced>>

\* Mutant of Upserted: the last page to arrive is written.
UpsertedAlways(r, f) == [seq |-> f.seq, read |-> f.read]

\* upsertMessage: an equal seq keeps the local read, an older one is skipped.
Upserted(r, f) ==
  CASE f.seq > r.seq -> [seq |-> f.seq, read |-> f.read]
    [] f.seq = r.seq -> [r EXCEPT !.read = @ \/ f.read]
    [] OTHER -> r

\* deleteMessage.
Retracted(r, f) == IF r.seq < f.seq THEN NoRow ELSE r

\* plan: what a fold of the page does to its row.
Written(r, f) ==
  CASE f.items = 0 -> Retracted(r, f)
    [] f.items > 0 /\ known -> Upserted(r, f)
    [] OTHER -> r

\* applyPage.  A full page is followed by the next.
ApplyPage(s) ==
  LET page == sync[s].page
      on == {page[i].id : i \in DOMAIN page}
      f == [n \in on |-> (CHOOSE x \in Range(page) : x.id = n).fold]
      next == Last(page).fold.seq
  IN
  /\ sync[s].at = "fetched"
  /\ row' = [n \in Folds |-> IF n \in on THEN Written(row[n], f[n]) ELSE row[n]]
  /\ cursor' = Max({cursor, next})
  /\ sync' = [sync EXCEPT ![s] = IF Len(page) < PageSize THEN NoSync
                                 ELSE [at |-> "reading", after |-> next, page |-> <<>>]]
  /\ missed' = [n \in Folds |-> IF n \in on /\ ~known THEN Max({missed[n], f[n].seq}) ELSE missed[n]]
  /\ raced' = raced \cup {n \in on : f[n].items = 0 /\ \E o \in Syncs \ {s} :
                                       \E i \in DOMAIN sync[o].page :
                                         sync[o].page[i].id = n /\ sync[o].page[i].fold.seq < f[n].seq}
  /\ UNCHANGED <<fold, known, forward, upTo, seen>>

\* A call or a transaction fails, the process dies, or feedMaxPages are done.
Stop(s) ==
  /\ sync[s].at # "idle"
  /\ sync' = [sync EXCEPT ![s] = NoSync]
  /\ UNCHANGED <<fold, known, row, cursor, forward, upTo, seen, missed, raced>>

-----------------------------------------------------------------------------
(* The reader. *)

Unread == {n \in Folds : row[n].seq > 0 /\ ~row[n].read}
ReadHere(S) ==
  /\ row' = [n \in Folds |-> IF n \in S THEN [row[n] EXCEPT !.read = TRUE] ELSE row[n]]
  /\ seen' = [n \in Folds |-> IF n \in S THEN row[n].seq ELSE seen[n]]

MarkAsRead ==
  /\ Unread # {}
  /\ ReadHere(Unread) /\ forward' = forward \cup Unread
  /\ UNCHANGED <<fold, known, cursor, sync, upTo, missed, raced>>

\* ForwardRead: community marks the ids read whatever they fold by then.  A
\* chunk that fails is not sent again.
ForwardRead(n, lost) ==
  /\ n \in forward
  /\ forward' = forward \ {n}
  /\ fold' = IF lost THEN fold ELSE [fold EXCEPT ![n].read = TRUE]
  /\ UNCHANGED <<known, row, cursor, sync, upTo, seen, missed, raced>>

\* A wall is opened: community says how far it is read, then the rows follow.
OpenWall ==
  /\ upTo = 0 /\ Newest > 0
  /\ upTo' = Newest
  /\ UNCHANGED <<fold, known, row, cursor, sync, forward, seen, missed, raced>>

MarkThreadRead ==
  /\ upTo > 0
  /\ ReadHere({n \in Unread : row[n].seq <= upTo}) /\ upTo' = 0
  /\ UNCHANGED <<fold, known, cursor, sync, forward, missed, raced>>

-----------------------------------------------------------------------------
Init ==
  /\ fold = [n \in Folds |-> [seq |-> 0, items |-> 0, read |-> FALSE]]
  /\ known \in BOOLEAN /\ row = [n \in Folds |-> NoRow]
  /\ cursor = 0 /\ sync = [s \in Syncs |-> NoSync] /\ forward = {} /\ upTo = 0
  /\ seen = [n \in Folds |-> 0] /\ missed = [n \in Folds |-> 0] /\ raced = {}

Next ==
  \/ SignIn \/ MarkAsRead \/ OpenWall \/ MarkThreadRead
  \/ \E n \in Folds, items \in {0, 1} : Update(n, items)
  \/ \E n \in Folds, lost \in BOOLEAN : ForwardRead(n, lost)
  \/ \E s \in Syncs : Start(s) \/ FetchPage(s) \/ ApplyPage(s) \/ Stop(s)

Spec == Init /\ [][Next]_vars

-----------------------------------------------------------------------------
TypeOK ==
  /\ fold \in [Folds -> [seq : 0..MaxSeq, items : {0, 1}, read : BOOLEAN]]
  /\ row \in [Folds -> [seq : 0..MaxSeq, read : BOOLEAN]] /\ known \in BOOLEAN
  /\ cursor \in 0..MaxSeq /\ upTo \in 0..MaxSeq
  /\ forward \subseteq Folds /\ raced \subseteq Folds
  /\ seen \in [Folds -> 0..MaxSeq] /\ missed \in [Folds -> 0..MaxSeq]
  /\ \A s \in Syncs : sync[s].at \in {"idle", "reading", "fetched"}

\* However two syncs' pages, retractions and reads interleave: once the watermark
\* is at the end, a message shows its fold's newest version, is read if that
\* version was read here, and is gone if the fold was emptied.  (A retraction
\* overtaken by an older page another sync still held is not undone by it.)
InboxSettled ==
  cursor = Newest /\ (\A s \in Syncs : sync[s].at = "idle") =>
    \A n \in Folds :
      /\ fold[n].items > 0 /\ missed[n] # fold[n].seq =>
           row[n].seq = fold[n].seq /\ (seen[n] = fold[n].seq => row[n].read)
      /\ fold[n].items = 0 /\ n \notin raced => row[n] = NoRow
=============================================================================
