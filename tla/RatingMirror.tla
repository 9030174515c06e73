------------------------------ MODULE RatingMirror ------------------------------
(***************************************************************************)
(* Ratings: NextMoe's, with a copy here: internal/rating/service.go,       *)
(* store.go and mirror.go, over /v2/ratings/changes.                       *)
(*                                                                         *)
(* The mirror drains the changes from a watermark that moves only past a   *)
(* full page; the calls of readers write through what NextMoe answered     *)
(* them, each in its own transaction and in any order.                     *)
(*                                                                         *)
(* Abstractions.  One user and one work: a rating is its id and its        *)
(* content is the change that wrote it.  Merges of works that move ratings *)
(* and reports the trust gate refuses are left out.                        *)
(* History variable: behind.                                               *)
(***************************************************************************)
EXTENDS Naturals, FiniteSets, Sequences, FiniteSetsExt, SequencesExt

CONSTANTS
  Ids,        \* rating ids, given out in order
  Calls,      \* requests that may run at once
  PageSize,   \* RatingChangesLimit
  MaxChange,  \* bound: changes in NextMoe
  MaxFail     \* bound: drains that fail

VARIABLES
  rating,  \* external: the last change of each rating, and whether it removed it
  row,     \* galgame_rating: the change each row copies, 0 without one
  cursor,  \* cron_state.last_cursor
  sync,    \* the page of the feed being applied
  call,    \* what a request is about to do to the copy
  failed,  \* drains that failed so far
  behind

vars == <<rating, row, cursor, sync, call, failed, behind>>

NoSync == [on |-> FALSE, items |-> <<>>, next |-> 0]
NoCall == [do |-> "none", id |-> 0, at |-> 0]
Newest == Max({rating[i].at : i \in Ids})
Live == {i \in Ids : rating[i].at > 0 /\ ~rating[i].gone}
Wanted(i) == IF i \in Live THEN rating[i].at ELSE 0

-----------------------------------------------------------------------------
(* NextMoe keeps one live rating of the user on the work. *)

Fresh == Min({i \in Ids : rating[i].at = 0})
PutId == IF Live # {} THEN CHOOSE i \in Live : TRUE ELSE Fresh
CanPut == Newest < MaxChange /\ (Live # {} \/ \E i \in Ids : rating[i].at = 0)
Changed(i, gone) ==
  /\ rating' = [rating EXCEPT ![i] = [at |-> Newest + 1, gone |-> gone]]
  /\ behind' = behind \ {i}

\* On another site.
PutElsewhere ==
  /\ CanPut /\ Changed(PutId, FALSE)
  /\ UNCHANGED <<row, cursor, sync, call, failed>>

-----------------------------------------------------------------------------
(* The copy. *)

Mirror(i, at) == [j \in Ids |-> IF j = i THEN at ELSE 0]
Drop(i) == [row EXCEPT ![i] = 0]
DropUserWork == [i \in Ids |-> 0]

\* The drain will not read the rating's last change again.
Passed(i) ==
  \/ rating[i].at <= cursor
  \/ sync.next # 0 /\ rating[i].at <= sync.next /\ \A n \in DOMAIN sync.items : sync.items[n].id # i

\* A copy a late write of a request spoiled behind the watermark.
Left(suspects) == {i \in suspects : row'[i] # Wanted(i) /\ Passed(i)}

-----------------------------------------------------------------------------
(* Requests. *)

Begin(c, do, i, at) ==
  /\ call[c] = NoCall /\ call' = [call EXCEPT ![c] = [do |-> do, id |-> i, at |-> at]]
  /\ UNCHANGED <<row, cursor, sync, failed>>

Record(c) ==
  \E i \in Live : Begin(c, "mirror", i, rating[i].at) /\ UNCHANGED <<rating, behind>>

\* PutRecord with a rating.
PutRecord(c) ==
  /\ CanPut /\ Changed(PutId, FALSE)
  /\ Begin(c, "mirror", PutId, Newest + 1)

\* PutRecord without one.
PutNoRating(c) ==
  /\ Begin(c, "dropUserWork", 0, 0)
  /\ IF Live = {} \/ Newest = MaxChange THEN Live = {} /\ UNCHANGED <<rating, behind>>
     ELSE \E i \in Live : Changed(i, TRUE)

Get(c, i) == row[i] # 0 /\ Begin(c, "delete", i, 0) /\ UNCHANGED <<rating, behind>>

\* Delete: the author's rating of the work, or by id for a moderator.
Delete(c, own) ==
  LET gone == IF own THEN Live ELSE Live \cap {call[c].id} IN
  /\ call[c].do = "delete"
  /\ call' = [call EXCEPT ![c].do = "drop"]
  /\ IF gone = {} THEN UNCHANGED <<rating, behind>>
     ELSE Newest < MaxChange /\ \E i \in gone : Changed(i, TRUE)
  /\ UNCHANGED <<row, cursor, sync, failed>>

\* writeThrough, DropUserWork, Drop.
WriteThrough(c) ==
  /\ call[c].do \in {"mirror", "dropUserWork", "drop"}
  /\ row' = CASE call[c].do = "mirror" -> Mirror(call[c].id, call[c].at)
              [] call[c].do = "dropUserWork" -> DropUserWork
              [] OTHER -> Drop(call[c].id)
  /\ behind' = Left(Ids)
  /\ call' = [call EXCEPT ![c] = NoCall]
  /\ UNCHANGED <<rating, cursor, sync, failed>>

\* The write fails and is logged, or the request ends before it.
GiveUp(c) ==
  /\ call[c] # NoCall
  /\ call' = [call EXCEPT ![c] = NoCall]
  /\ UNCHANGED <<rating, row, cursor, sync, failed, behind>>

-----------------------------------------------------------------------------
(* The drain: SkipIfStillRunning keeps it alone. *)

Fetch ==
  LET feed == SetToSortSeq({i \in Ids : rating[i].at > cursor},
                           LAMBDA i, j : rating[i].at < rating[j].at)
      n == Min({Len(feed), PageSize})
  IN
  /\ ~sync.on
  /\ sync' = [on |-> TRUE, items |-> [k \in 1..n |-> [id |-> feed[k], at |-> rating[feed[k]].at,
                                                      gone |-> rating[feed[k]].gone]],
              next |-> IF n = PageSize THEN rating[feed[n]].at ELSE 0]
  /\ UNCHANGED <<rating, row, cursor, call, failed, behind>>

\* Mutant of Applied: a rating that is gone is passed over.
AppliedLive(item) == IF item.gone THEN row ELSE Mirror(item.id, item.at)

Applied(item) == IF item.gone THEN Drop(item.id) ELSE Mirror(item.id, item.at)

Apply ==
  /\ sync.on /\ sync.items # <<>>
  /\ row' = Applied(Head(sync.items))
  /\ sync' = [sync EXCEPT !.items = Tail(@)]
  /\ behind' = Left(behind)
  /\ UNCHANGED <<rating, cursor, call, failed>>

\* Only a full page carries a cursor.
EndPage ==
  /\ sync.on /\ sync.items = <<>>
  /\ cursor' = IF sync.next = 0 THEN cursor ELSE sync.next
  /\ sync' = NoSync
  /\ UNCHANGED <<rating, row, call, failed, behind>>

Fail ==
  /\ sync.on /\ failed < MaxFail
  /\ sync' = NoSync /\ failed' = failed + 1
  /\ UNCHANGED <<rating, row, cursor, call, behind>>

-----------------------------------------------------------------------------
Init ==
  /\ rating = [i \in Ids |-> [at |-> 0, gone |-> FALSE]] /\ row = [i \in Ids |-> 0]
  /\ cursor = 0 /\ sync = NoSync /\ call = [c \in Calls |-> NoCall]
  /\ failed = 0 /\ behind = {}

Step == Fetch \/ Apply \/ EndPage
Next ==
  \/ PutElsewhere \/ Step \/ Fail
  \/ \E c \in Calls :
       \/ Record(c) \/ PutRecord(c) \/ PutNoRating(c) \/ WriteThrough(c) \/ GiveUp(c)
       \/ \E i \in Ids : Get(c, i)
       \/ \E own \in BOOLEAN : Delete(c, own)

Fairness == WF_vars(Step)
Spec == Init /\ [][Next]_vars /\ Fairness

-----------------------------------------------------------------------------
TypeOK ==
  /\ rating \in [Ids -> [at : 0..MaxChange, gone : BOOLEAN]]
  /\ row \in [Ids -> 0..MaxChange] /\ cursor \in 0..MaxChange
  /\ sync.on \in BOOLEAN /\ sync.next \in 0..MaxChange
  /\ call \in [Calls -> [do : {"none", "mirror", "dropUserWork", "delete", "drop"},
                         id : Ids \cup {0}, at : 0..MaxChange]]
  /\ failed \in 0..MaxFail /\ behind \subseteq Ids

\* Where every behaviour settles: whatever write-throughs fail, come late or overtake the drain, the copy ends
\* equal to NextMoe's rating; but for one a late write-through spoiled when the
\* watermark had already passed its last change.
MirrorsRatings == \A i \in Ids \ behind : row[i] = Wanted(i)
=============================================================================
