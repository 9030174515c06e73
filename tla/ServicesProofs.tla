----------------------------- MODULE ServicesProofs -----------------------------
(***************************************************************************)
(* The components that serve readers (MCServices), for any number of       *)
(* transactions, requests, posts, messages and pages: the change feed, the *)
(* wall and the chat room each keep what they promise.  Each part has the  *)
(* invariant of one component, and what the others do leaves it alone.     *)
(***************************************************************************)
EXTENDS MCServices, Sequences, FiniteSetTheorems, SequenceTheorems, FunctionTheorems,
        WellFoundedInduction, TLAPS

-----------------------------------------------------------------------------
(***************************************************************************)
(* The feed (ChangeFeed): it steps past no change, and whoever follows it  *)
(* knows what the site offers.                                             *)
(*                                                                         *)
(* Why: the cursor only takes the place of a change whose transaction is   *)
(* older than every open one, and a transaction that begins later has a    *)
(* greater id.  So the cursor is behind every open transaction (Behind),   *)
(* and what one of them commits comes after the cursor.  The second part   *)
(* says why each commit tells what it changes.                             *)
(***************************************************************************)

\* What a transaction wrote has its id.
OwnChanges == \A t \in Txs : \A e \in tx[t].wrote : e.xid = tx[t].xid

\* The cursor is behind every transaction that is open, or may begin.
Behind ==
  /\ cursor.xid < nextXid
  /\ \A t \in Open : cursor.xid < tx[t].xid

FeedInv == TypeOK /\ OwnChanges /\ Behind /\ FeedGapless

\* The first state has an empty log.
LEMMA InitFeed == Init => FeedInv
<1> SUFFICES ASSUME Init PROVE FeedInv
  OBVIOUS
<1>1. Absent \in Row /\ row \in [Resources -> Row]
  BY DEF Init, Absent, Row
<1>2. Closed \in Transaction
  BY <1>1 DEF Closed, Transaction
<1>3. TypeOK
  BY <1>1, <1>2 DEF Init, TypeOK
<1>4. \A t \in Txs : tx[t].xid = 0 /\ tx[t].wrote = {}
  BY DEF Init, Closed
<1>5. OwnChanges /\ Behind /\ FeedGapless
  BY <1>4 DEF Init, OwnChanges, Behind, FeedGapless, Open
<1> QED BY <1>3, <1>5 DEF FeedInv

\* A write adds a change of its transaction to what that has written, or nothing.
LEMMA WritesAdds ==
  ASSUME TypeOK, NEW t \in Txs, NEW r \in Resources, NEW new \in Row, Writes(t, r, new)
  PROVE  /\ tx' \in [Txs -> Transaction]
         /\ \A u \in Txs : tx'[u].xid = tx[u].xid
         /\ \A u \in Txs : \A e \in tx'[u].wrote : e \in tx[u].wrote \/ e.xid = tx[u].xid
<1> DEFINE old == Seen(t, r)
           change == [xid |-> tx[t].xid, seq |-> nextSeq, res |-> r, shown |-> new.status = "public"]
           wrote == IF Told(old, new) THEN tx[t].wrote \cup {change} ELSE tx[t].wrote
           mine == [tx[t] EXCEPT !.rows = @ \cup {r}, !.row[r] = new, !.wrote = wrote]
<1>1. tx[t] \in Transaction /\ nextSeq \in Nat
  BY DEF TypeOK
<1>2. change \in Change /\ change.xid = tx[t].xid
  BY <1>1 DEF Transaction, Change
<1>3. wrote \subseteq Change
  BY <1>1, <1>2 DEF Transaction
<1>4. mine \in Transaction /\ mine.xid = tx[t].xid /\ mine.wrote = wrote
  BY <1>1, <1>3 DEF Transaction
<1>5. tx' = [tx EXCEPT ![t] = mine]
  BY DEF Writes
<1>6. tx' \in [Txs -> Transaction]
  BY <1>4, <1>5 DEF TypeOK
<1>7. \A u \in Txs : tx'[u] = IF u = t THEN mine ELSE tx[u]
  BY <1>5 DEF TypeOK
<1> HIDE DEF mine, change
<1>8. \A e \in wrote : e \in tx[t].wrote \/ e.xid = tx[t].xid
  BY <1>2
<1> QED BY <1>4, <1>6, <1>7, <1>8

\* A step of one transaction before it ends keeps the invariant.
LEMMA OpenStep ==
  ASSUME FeedInv, TypeOK', UNCHANGED <<log, nextXid, cursor, served>>,
         \A u \in Txs : tx'[u].xid = tx[u].xid,
         \A u \in Txs : \A e \in tx'[u].wrote : e \in tx[u].wrote \/ e.xid = tx[u].xid
  PROVE  FeedInv'
<1>1. OwnChanges'
  BY DEF FeedInv, OwnChanges
<1>2. Behind'
  BY DEF FeedInv, Behind, Open
<1>3. FeedGapless'
  BY DEF FeedInv, FeedGapless, Before
<1> QED BY <1>1, <1>2, <1>3 DEF FeedInv

\* Insert, Update and Delete keep the invariant.
LEMMA WritesFeed ==
  ASSUME FeedInv, NEW t \in Txs, NEW r \in Resources, NEW new \in Row, Writes(t, r, new)
  PROVE  FeedInv'
<1>1. /\ tx' \in [Txs -> Transaction]
      /\ \A u \in Txs : tx'[u].xid = tx[u].xid
      /\ \A u \in Txs : \A e \in tx'[u].wrote : e \in tx[u].wrote \/ e.xid = tx[u].xid
  BY WritesAdds DEF FeedInv
<1>2. nextSeq' \in Nat /\ overlapped' \subseteq Resources /\ muddled' \subseteq Resources
  BY DEF FeedInv, TypeOK, Writes
<1>3. UNCHANGED <<row, gone, log, nextXid, cursor, todo, copy, served>>
  BY DEF Writes, follower
<1>4. TypeOK'
  BY <1>1, <1>2, <1>3 DEF FeedInv, TypeOK
<1> QED BY <1>1, <1>3, <1>4, OpenStep

\* A transaction that begins is ahead of the cursor.
LEMMA BeginFeed ==
  ASSUME FeedInv, NEW t \in Txs, Begin(t)
  PROVE  FeedInv'
<1> DEFINE mine == [tx[t] EXCEPT !.xid = nextXid]
<1>1. tx[t] \in Transaction /\ nextXid \in Nat
  BY DEF FeedInv, TypeOK
<1>2. mine \in Transaction /\ mine.xid = nextXid /\ mine.wrote = {}
  BY <1>1 DEF Begin, Closed, Transaction
<1>3. tx' = [tx EXCEPT ![t] = mine]
  BY DEF Begin
<1>4. tx' \in [Txs -> Transaction] /\ \A u \in Txs : tx'[u] = IF u = t THEN mine ELSE tx[u]
  BY <1>2, <1>3 DEF FeedInv, TypeOK
<1> HIDE DEF mine
<1>5. nextXid' = nextXid + 1 /\ UNCHANGED <<row, gone, log, nextSeq, follower, overlapped, muddled>>
  BY DEF Begin
<1>6. TypeOK'
  BY <1>1, <1>4, <1>5 DEF FeedInv, TypeOK, follower
<1>7. OwnChanges'
  BY <1>2, <1>4 DEF FeedInv, OwnChanges
<1>8. Behind'
  <2>1. cursor.xid \in Nat /\ cursor' = cursor
    BY <1>5 DEF FeedInv, TypeOK, follower
  <2>2. cursor.xid < nextXid'
    BY <1>1, <1>5, <2>1 DEF FeedInv, Behind
  <2>3. ASSUME NEW u \in Txs, tx'[u].xid # 0 PROVE cursor.xid < tx'[u].xid
    BY <1>2, <1>4, <2>3 DEF FeedInv, Behind, Open
  <2> QED BY <2>1, <2>2, <2>3 DEF Behind, Open
<1>9. FeedGapless'
  BY <1>5 DEF FeedInv, FeedGapless, Before, follower
<1> QED BY <1>6, <1>7, <1>8, <1>9 DEF FeedInv

\* A stamp adds changes of its transaction.
LEMMA StampFeed ==
  ASSUME FeedInv, NEW t \in Txs, NEW page \in Pages, Stamp(t, page)
  PROVE  FeedInv'
<1> DEFINE set == page \notin gone
           there == {r \in Resources : Seen(t, r).status = "public" /\ Seen(t, r).page = page}
           n == Cardinality(there)
           seqs == nextSeq..(nextSeq + n - 1)
           Added(seq) == {[xid |-> tx[t].xid, seq |-> seq[r], res |-> r, shown |-> ~set] : r \in there}
           Mine(seq) == [tx[t] EXCEPT !.stamped = @ \cup {page}, !.wrote = @ \cup Added(seq)]
<1>1. tx[t] \in Transaction /\ nextSeq \in Nat
  BY DEF FeedInv, TypeOK
<1>2. n \in Nat
  BY FeedAssumption, FS_Subset, FS_CardinalityType
<1>3. PICK seq \in Bijection(there, seqs) : tx' = [tx EXCEPT ![t] = Mine(seq)]
  BY DEF Stamp
<1>4. seq \in [there -> seqs]
  BY DEF Bijection, Injection
<1>5. \A r \in there : seq[r] \in Nat
  BY <1>1, <1>2, <1>4
<1>6. Added(seq) \subseteq Change /\ \A e \in Added(seq) : e.xid = tx[t].xid
  <2> SUFFICES ASSUME NEW r \in there
               PROVE  [xid |-> tx[t].xid, seq |-> seq[r], res |-> r, shown |-> ~set] \in Change
    OBVIOUS
  <2>1. tx[t].xid \in Nat /\ seq[r] \in Nat /\ r \in Resources /\ (~set) \in BOOLEAN
    BY <1>1, <1>5 DEF Transaction
  <2> HIDE DEF set, there
  <2> QED BY <2>1 DEF Change
<1> HIDE DEF Added
<1>7. Mine(seq) \in Transaction /\ Mine(seq).xid = tx[t].xid /\ Mine(seq).wrote = tx[t].wrote \cup Added(seq)
  BY <1>1, <1>6 DEF Transaction
<1> HIDE DEF Mine
<1>8. tx' \in [Txs -> Transaction] /\ \A u \in Txs : tx'[u] = IF u = t THEN Mine(seq) ELSE tx[u]
  BY <1>3, <1>7 DEF FeedInv, TypeOK
<1>9. \A u \in Txs : tx'[u].xid = tx[u].xid
  BY <1>7, <1>8
<1>10. \A u \in Txs : \A e \in tx'[u].wrote : e \in tx[u].wrote \/ e.xid = tx[u].xid
  BY <1>6, <1>7, <1>8
<1>11. /\ nextSeq' = nextSeq + n /\ overlapped' \subseteq Resources /\ muddled' \subseteq Resources
       /\ UNCHANGED <<row, gone, log, nextXid, cursor, todo, copy, served>>
  BY DEF FeedInv, TypeOK, Stamp, follower
<1>12. TypeOK'
  BY <1>1, <1>2, <1>8, <1>11 DEF FeedInv, TypeOK
<1> QED BY <1>9, <1>10, <1>11, <1>12, OpenStep

\* A transaction ends: what it wrote is ahead of the cursor.
LEMMA CommitFeed ==
  ASSUME FeedInv, NEW t \in Txs, Commit(t)
  PROVE  FeedInv'
<1>1. t \in Open /\ tx' = [tx EXCEPT ![t] = Closed] /\ log' = log \cup tx[t].wrote
  BY DEF Commit
<1>2. tx[t] \in Transaction /\ cursor \in [xid : Nat, seq : Nat] /\ cursor.xid < tx[t].xid
  BY <1>1 DEF FeedInv, TypeOK, Behind
<1>3. \A u \in Txs : tx'[u] = IF u = t THEN Closed ELSE tx[u]
  BY <1>1 DEF FeedInv, TypeOK
<1>4. Closed.xid = 0 /\ Closed.wrote = {} /\ Closed \in Transaction
  BY DEF Closed, Transaction, Absent, Row
<1>5. UNCHANGED <<nextXid, nextSeq, cursor, todo, copy, served, overlapped, muddled>>
  BY DEF Commit, follower
<1>6. row' \in [Resources -> Row]
  <2> SUFFICES ASSUME NEW r \in Resources PROVE Seen(t, r) \in Row
    BY DEF Commit
  <2> QED BY <1>2 DEF Seen, FeedInv, TypeOK, Transaction
<1>7. gone' \subseteq Pages
  BY <1>2 DEF Commit, FeedInv, TypeOK, Transaction
<1>8. tx' \in [Txs -> Transaction]
  BY <1>1, <1>4 DEF FeedInv, TypeOK
<1>9. log' \subseteq Change
  BY <1>1, <1>2 DEF FeedInv, TypeOK, Transaction
<1>10. TypeOK'
  BY <1>5, <1>6, <1>7, <1>8, <1>9 DEF FeedInv, TypeOK
<1>11. OwnChanges'
  BY <1>3, <1>4 DEF FeedInv, OwnChanges
<1>12. Behind'
  BY <1>3, <1>4, <1>5 DEF FeedInv, Behind, Open
<1>13. \A e \in tx[t].wrote : Before(cursor, e)
  BY <1>2 DEF FeedInv, OwnChanges, Before
<1>14. FeedGapless'
  BY <1>1, <1>5, <1>13 DEF FeedInv, FeedGapless, Before
<1> QED BY <1>10, <1>11, <1>12, <1>14 DEF FeedInv

\* A transaction that is rolled back leaves the log as it was.
LEMMA RollbackFeed ==
  ASSUME FeedInv, NEW t \in Txs, Rollback(t)
  PROVE  FeedInv'
<1>1. Closed.xid = 0 /\ Closed.wrote = {} /\ Closed \in Transaction
  BY DEF Closed, Transaction, Absent, Row
<1>2. tx' = [tx EXCEPT ![t] = Closed]
  BY DEF Rollback
<1>3. \A u \in Txs : tx'[u] = IF u = t THEN Closed ELSE tx[u]
  BY <1>2 DEF FeedInv, TypeOK
<1>4. UNCHANGED <<row, gone, log, nextXid, nextSeq, follower, overlapped, muddled>>
  BY DEF Rollback
<1>5. TypeOK'
  BY <1>1, <1>2, <1>4 DEF FeedInv, TypeOK, follower
<1>6. OwnChanges'
  BY <1>1, <1>3 DEF FeedInv, OwnChanges
<1>7. Behind'
  BY <1>1, <1>3, <1>4 DEF FeedInv, Behind, Open, follower
<1>8. FeedGapless'
  BY <1>4 DEF FeedInv, FeedGapless, Before, follower
<1> QED BY <1>5, <1>6, <1>7, <1>8 DEF FeedInv

\* A page of the feed is what comes first after the cursor.
LEMMA ListFeed ==
  ASSUME FeedInv, ListChanges
  PROVE  FeedInv'
<1>1. PICK last \in Ready :
        LET page == {e \in Ready : ~Before(last, e)} IN
        /\ cursor' = [xid |-> last.xid, seq |-> last.seq]
        /\ todo' = todo \cup {e.res : e \in page}
        /\ served' = served \cup page
        /\ UNCHANGED <<database, copy, overlapped, muddled>>
  BY DEF ListChanges
<1> DEFINE page == {e \in Ready : ~Before(last, e)}
<1>2. UNCHANGED <<row, gone, tx, log, nextXid, nextSeq>>
  BY <1>1 DEF database
<1>3. log \subseteq Change /\ Ready \subseteq log /\ last \in Change /\ cursor \in [xid : Nat, seq : Nat]
  BY DEF FeedInv, TypeOK, Ready
<1>4. last.xid \in Nat /\ last.seq \in Nat /\ Ended(last.xid) /\ Before(cursor, last)
  BY <1>3 DEF Ready, Change
<1>5. cursor'.xid = last.xid /\ cursor'.seq = last.seq /\ cursor' \in [xid : Nat, seq : Nat]
  BY <1>1, <1>4
<1>6. page \subseteq Change /\ {e.res : e \in page} \subseteq Resources
  BY <1>3 DEF Change
<1>7. TypeOK'
  BY <1>1, <1>2, <1>5, <1>6 DEF FeedInv, TypeOK
<1>8. OwnChanges'
  BY <1>2 DEF FeedInv, OwnChanges
<1>9. Behind'
  BY <1>2, <1>4, <1>5 DEF Behind, Ended, Open
<1>10. FeedGapless'
  <2> SUFFICES ASSUME NEW e \in log
               PROVE  ~Before(cursor', e) <=> e \in served \cup page
    BY <1>1, <1>2, <1>3 DEF FeedGapless, FeedInv
  <2>1. e.xid \in Nat /\ e.seq \in Nat
    BY <1>3 DEF Change
  <2>2. Before(cursor', e) <=> Before(last, e)
    BY <1>5 DEF Before
  <2>3. e \in served <=> ~Before(cursor, e)
    BY DEF FeedInv, FeedGapless
  <2>4. ~Before(cursor, e) => ~Before(last, e)
    BY <1>3, <1>4, <2>1 DEF Before
  <2>5. Before(cursor, e) /\ ~Before(last, e) => e \in Ready
    <3> SUFFICES ASSUME Before(cursor, e), ~Before(last, e) PROVE Ended(e.xid)
      BY DEF Ready
    <3>1. e.xid <= last.xid
      BY <1>4, <2>1 DEF Before
    <3>2. nextXid \in Nat /\ \A t \in Txs : tx[t].xid \in Nat
      BY DEF FeedInv, TypeOK, Transaction
    <3> QED BY <1>4, <2>1, <3>1, <3>2 DEF Ended, Open
  <2> QED BY <2>2, <2>3, <2>4, <2>5
<1> QED BY <1>7, <1>8, <1>9, <1>10 DEF FeedInv

\* Every step keeps the invariant.
LEMMA NextFeed == FeedInv /\ [Next]_vars => FeedInv'
<1> SUFFICES ASSUME FeedInv, [Next]_vars PROVE FeedInv'
  OBVIOUS
<1>1. ASSUME NEW t \in Txs, NEW r \in Resources, Delete(t, r) PROVE FeedInv'
  <2>1. Absent \in Row
    BY DEF Absent, Row
  <2> QED BY <1>1, <2>1, WritesFeed DEF Delete
<1>2. ASSUME NEW t \in Txs, NEW r \in Resources, NEW p \in Pages, NEW s \in {"public", "off"},
             Insert(t, r, p, s) \/ Update(t, r, p, s)
      PROVE  FeedInv'
  <2>1. [status |-> s, page |-> p, content |-> nextSeq] \in Row
    BY DEF Row, FeedInv, TypeOK
  <2> QED BY <1>2, <2>1, WritesFeed DEF Insert, Update
<1>3. ASSUME NEW r \in Resources, GetResource(r) PROVE FeedInv'
  <2>1. UNCHANGED <<row, gone, tx, log, nextXid, nextSeq, cursor, served, overlapped, muddled>>
    BY <1>3 DEF GetResource, database
  <2>2. View(r) \in Row
    BY DEF View, Absent, Row, FeedInv, TypeOK
  <2>3. todo' \subseteq Resources /\ copy' \in [Resources -> Row]
    BY <1>3, <2>2 DEF GetResource, FeedInv, TypeOK
  <2>4. TypeOK'
    BY <2>1, <2>3 DEF FeedInv, TypeOK
  <2>5. (OwnChanges /\ Behind /\ FeedGapless)'
    BY <2>1 DEF FeedInv, OwnChanges, Behind, Open, FeedGapless, Before
  <2> QED BY <2>4, <2>5 DEF FeedInv
<1>4. CASE UNCHANGED vars
  <2>1. UNCHANGED <<row, gone, tx, log, nextXid, nextSeq, cursor, todo, copy, served, overlapped, muddled>>
    BY <1>4 DEF vars, database, follower
  <2>2. TypeOK'
    BY <2>1 DEF FeedInv, TypeOK
  <2>3. (OwnChanges /\ Behind /\ FeedGapless)'
    BY <2>1 DEF FeedInv, OwnChanges, Behind, Open, FeedGapless, Before
  <2> QED BY <2>2, <2>3 DEF FeedInv
<1> QED BY <1>1, <1>2, <1>3, <1>4, BeginFeed, CommitFeed, RollbackFeed, StampFeed, ListFeed DEF Next

\* The variables keep their types (every write of internal/face and of the
\* triggers of migrations 048 and 053).
THEOREM FeedTypeCorrect == Spec => []TypeOK
<1>1. FeedInv => TypeOK
  BY DEF FeedInv
<1> QED BY <1>1, InitFeed, NextFeed, PTL DEF Spec

\* The feed is gapless (ListChanges of internal/face/repository): what is
\* committed up to the cursor has been served, whatever commits late.
THEOREM NothingSkipped == Spec => []FeedGapless
<1>1. FeedInv => FeedGapless
  BY DEF FeedInv
<1> QED BY <1>1, InitFeed, NextFeed, PTL DEF Spec

-----------------------------------------------------------------------------
(* The follower.  What a transaction writes or stamps it tells, so what its *)
(* commit changes is ahead of the cursor (Behindhand); and of a resource    *)
(* that is not muddled one transaction at a time writes, so the order of    *)
(* the numbers is the order of the commits (LastOfTx, LastWord).            *)

Mentions(t, r) == \E e \in tx[t].wrote : e.res = r
Touches(t, r) == LockedBy(t, r) \/ Mentions(t, r)

\* What the commit of t would make of the deleted pages, and of a resource.
GoneAfter(t) == (gone \ tx[t].stamped) \cup (tx[t].stamped \ gone)
PublicAfter(t, r) == Seen(t, r).status = "public" /\ Seen(t, r).page \notin GoneAfter(t)

\* A transaction without an id has done nothing.
IdleIsClosed == \A t \in Txs : tx[t].xid = 0 => tx[t] = Closed

\* Ids and numbers that are not drawn yet are greater than those that are.
Drawn ==
  /\ nextXid # 0 /\ \A t \in Txs : tx[t].xid < nextXid
  /\ \A e \in log : e.xid < nextXid /\ e.seq < nextSeq
  /\ \A t \in Txs : \A e \in tx[t].wrote : e.seq < nextSeq

\* Two transactions hold no row and no page both.
Exclusive ==
  \A t \in Txs : \A o \in Txs \ {t} :
    tx[t].rows \cap tx[o].rows = {} /\ tx[t].stamped \cap tx[o].stamped = {}

\* A write of what is or becomes public is told.
WritesTell ==
  \A t \in Txs : \A r \in tx[t].rows :
    row[r].status = "public" \/ tx[t].row[r].status = "public" => Mentions(t, r)

\* So is a stamp, of each public resource of the page.
StampsTell ==
  \A t \in Txs : \A r \in Resources \ overlapped :
    ~LockedBy(t, r) /\ row[r].status = "public" /\ row[r].page \in tx[t].stamped => Mentions(t, r)

\* What is written is on no page that another transaction stamps.
WritesClear ==
  \A t \in Txs : \A o \in Txs \ {t} : \A r \in tx[t].rows \ overlapped :
    tx[t].row[r].page \notin tx[o].stamped

\* Where the copy differs, the resource is to be read or a change is ahead.
Behindhand ==
  \A r \in Resources \ overlapped :
    \/ copy[r] = View(r) \/ r \in todo
    \/ \E e \in log : e.res = r /\ Before(cursor, e)

\* One transaction at a time has to do with a resource that is not muddled.
OneAtATime ==
  \A r \in Resources \ muddled : \A t \in Txs : \A o \in Txs \ {t} :
    ~(Touches(t, r) /\ Touches(o, r))

\* A change that a stamp wrote is about a resource that stays on the page.
StampsStand ==
  \A r \in Resources \ muddled : \A t \in Txs :
    Mentions(t, r) /\ ~LockedBy(t, r) => row[r].page \in tx[t].stamped

\* The last change a transaction wrote tells what its commit will make public,
\* and comes after all that are committed.
LastOfTx ==
  \A t \in Txs : \A e \in tx[t].wrote : e.res \notin muddled =>
    /\ (\A f \in tx[t].wrote : f.res = e.res => f.seq <= e.seq) => (e.shown <=> PublicAfter(t, e.res))
    /\ \A f \in log : f.res = e.res => f.seq < e.seq

FollowInv ==
  /\ FeedInv /\ IdleIsClosed /\ Drawn /\ Exclusive /\ overlapped \subseteq muddled
  /\ WritesTell /\ StampsTell /\ WritesClear /\ Behindhand
  /\ OneAtATime /\ StampsStand /\ LastOfTx /\ LastWord

\* The first state: nothing is written.
LEMMA InitFollow == Init => FollowInv
<1> SUFFICES ASSUME Init PROVE FollowInv
  OBVIOUS
<1>1. \A t \in Txs : tx[t] = Closed
  BY DEF Init
<1>2. Closed.xid = 0 /\ Closed.wrote = {} /\ Closed.rows = {} /\ Closed.stamped = {}
  BY DEF Closed
<1>3. log = {} /\ nextXid = 1 /\ overlapped = {} /\ muddled = {} /\ copy = row
      /\ \A r \in Resources : row[r] = Absent
  BY DEF Init
<1>4. Absent.status # "public"
  BY DEF Absent
<1>5. IdleIsClosed /\ Drawn /\ Exclusive /\ overlapped \subseteq muddled
  BY <1>1, <1>2, <1>3 DEF IdleIsClosed, Drawn, Exclusive
<1>6. WritesTell /\ StampsTell /\ WritesClear
  BY <1>1, <1>2 DEF WritesTell, StampsTell, WritesClear
<1>7. Behindhand /\ LastWord
  BY <1>3, <1>4 DEF Behindhand, LastWord, View, Public
<1>8. OneAtATime /\ StampsStand /\ LastOfTx
  BY <1>1, <1>2 DEF OneAtATime, StampsStand, LastOfTx, Touches, LockedBy, Mentions
<1> QED BY InitFeed, <1>5, <1>6, <1>7, <1>8 DEF FollowInv

\* What a write leaves of the transactions.
LEMMA WritesTo ==
  ASSUME TypeOK, NEW t \in Txs, NEW r \in Resources, NEW new \in Row, Writes(t, r, new)
  PROVE  /\ \A u \in Txs \ {t} : tx'[u] = tx[u]
         /\ tx'[t].xid = tx[t].xid /\ tx'[t].stamped = tx[t].stamped
         /\ tx'[t].rows = tx[t].rows \cup {r}
         /\ tx'[t].row[r] = new
         /\ \A q \in Resources \ {r} : tx'[t].row[q] = tx[t].row[q]
         /\ tx'[t].wrote = IF Told(Seen(t, r), new)
              THEN tx[t].wrote \cup {[xid |-> tx[t].xid, seq |-> nextSeq, res |-> r,
                                      shown |-> new.status = "public"]}
              ELSE tx[t].wrote
<1> DEFINE change == [xid |-> tx[t].xid, seq |-> nextSeq, res |-> r, shown |-> new.status = "public"]
           wrote == IF Told(Seen(t, r), new) THEN tx[t].wrote \cup {change} ELSE tx[t].wrote
           mine == [tx[t] EXCEPT !.rows = @ \cup {r}, !.row[r] = new, !.wrote = wrote]
<1>1. tx[t] \in Transaction
  BY DEF TypeOK
<1>2. tx' = [tx EXCEPT ![t] = mine]
  BY DEF Writes
<1>3. \A u \in Txs : tx'[u] = IF u = t THEN mine ELSE tx[u]
  BY <1>2 DEF TypeOK
<1> HIDE DEF change, wrote
<1>4. /\ mine.xid = tx[t].xid /\ mine.stamped = tx[t].stamped
      /\ mine.rows = tx[t].rows \cup {r} /\ mine.wrote = wrote
      /\ mine.row = [tx[t].row EXCEPT ![r] = new]
  BY <1>1 DEF Transaction
<1>5. tx[t].row \in [Resources -> Row]
  BY <1>1 DEF Transaction
<1>6. mine.row[r] = new /\ \A q \in Resources \ {r} : mine.row[q] = tx[t].row[q]
  BY <1>4, <1>5
<1> HIDE DEF mine
<1> QED BY <1>3, <1>4, <1>6 DEF wrote, change

\* Insert, Update and Delete keep it: who holds the row, or stamps its old or
\* its new page, keeps the write out or marks the resource.
LEMMA WritesFollow ==
  ASSUME FollowInv, NEW t \in Txs, NEW r \in Resources, NEW new \in Row, Writes(t, r, new)
  PROVE  FollowInv'
<1> DEFINE old == Seen(t, r)
           told == Told(old, new)
           change == [xid |-> tx[t].xid, seq |-> nextSeq, res |-> r, shown |-> new.status = "public"]
<1>1. TypeOK /\ FeedInv' /\ TypeOK'
  BY WritesFeed DEF FollowInv, FeedInv
<1>2. /\ \A u \in Txs \ {t} : tx'[u] = tx[u]
      /\ tx'[t].xid = tx[t].xid /\ tx'[t].stamped = tx[t].stamped
      /\ tx'[t].rows = tx[t].rows \cup {r}
      /\ tx'[t].row[r] = new
      /\ \A q \in Resources \ {r} : tx'[t].row[q] = tx[t].row[q]
      /\ tx'[t].wrote = IF told THEN tx[t].wrote \cup {change} ELSE tx[t].wrote
  BY <1>1, WritesTo
<1>3. \A u \in Txs : tx'[u].xid = tx[u].xid /\ tx'[u].stamped = tx[u].stamped
  BY <1>2
<1>4. /\ change.xid = tx[t].xid /\ change.seq = nextSeq /\ change.res = r
      /\ (change.shown <=> new.status = "public")
  OBVIOUS
<1> HIDE DEF change
<1>5. UNCHANGED <<row, gone, log, nextXid, cursor, todo, copy, served>> /\ nextSeq' = nextSeq + 1
  BY DEF Writes, follower
<1>6. tx[t].xid # 0 /\ \A o \in Txs \ {t} : r \notin tx[o].rows
  BY DEF Writes, Open, LockedBy
<1>7. overlapped \subseteq overlapped' /\ muddled \subseteq muddled' /\ overlapped' \subseteq muddled'
  BY DEF Writes, FollowInv
<1>8. \A o \in Txs : tx[o].xid = 0 => tx[o].stamped = {} /\ tx[o].rows = {} /\ tx[o].wrote = {}
  BY DEF FollowInv, IdleIsClosed, Closed
<1>9. r \notin overlapped' => \A o \in Txs \ {t} : old.page \notin tx[o].stamped /\ new.page \notin tx[o].stamped
  BY <1>8 DEF Writes, Open
<1>10. r \notin muddled' => new.page \notin gone /\ tx[t].stamped = {}
  BY DEF Writes
<1>11. \A q \in Resources : Mentions(t, q)' <=> Mentions(t, q) \/ (q = r /\ told)
  BY <1>2, <1>4 DEF Mentions
<1>12. \A u \in Txs \ {t}, q \in Resources : Mentions(u, q)' <=> Mentions(u, q)
  BY <1>2 DEF Mentions
<1>13. \A q \in Resources : LockedBy(t, q)' <=> LockedBy(t, q) \/ q = r
  BY <1>2 DEF LockedBy
<1>14. \A u \in Txs \ {t}, q \in Resources : LockedBy(u, q)' <=> LockedBy(u, q)
  BY <1>2 DEF LockedBy
<1>15. \A u \in Txs, q \in Resources : u # t \/ q # r => Seen(u, q)' = Seen(u, q)
  BY <1>2, <1>5 DEF Seen, LockedBy
<1>16. \A u \in Txs : GoneAfter(u)' = GoneAfter(u)
  BY <1>3, <1>5 DEF GoneAfter
<1>17. Seen(t, r)' = new
  BY <1>2 DEF Seen, LockedBy
<1>18. nextSeq \in Nat /\ log \subseteq Change /\ \A u \in Txs : tx[u].wrote \subseteq Change
  BY <1>1 DEF TypeOK, Transaction
<1>19. \A e \in Change : e.seq \in Nat /\ e.res \in Resources
  BY DEF Change
<1>20. IdleIsClosed'
  BY <1>2, <1>6 DEF FollowInv, IdleIsClosed
<1>21. Drawn'
  <2>1. \A e \in log : e.seq < nextSeq'
    BY <1>5, <1>18, <1>19 DEF FollowInv, Drawn
  <2>2. ASSUME NEW u \in Txs, NEW e \in tx'[u].wrote PROVE e.seq < nextSeq'
    BY <1>2, <1>4, <1>5, <1>18, <1>19 DEF FollowInv, Drawn
  <2> QED BY <1>3, <1>5, <2>1, <2>2 DEF FollowInv, Drawn
<1>22. Exclusive'
  <2>1. \A o \in Txs \ {t} : tx'[t].rows \cap tx'[o].rows = {}
    BY <1>2, <1>6 DEF FollowInv, Exclusive
  <2> QED BY <1>2, <1>3, <2>1 DEF FollowInv, Exclusive
<1>23. WritesTell'
  <2> SUFFICES ASSUME NEW u \in Txs, NEW q \in tx'[u].rows,
                      row[q].status = "public" \/ tx'[u].row[q].status = "public"
               PROVE  Mentions(u, q)'
    BY <1>5 DEF WritesTell
  <2>1. tx[u].rows \subseteq Resources /\ q \in Resources
    BY <1>1 DEF TypeOK, Transaction
  <2>2. CASE u # t
    BY <1>2, <1>12, <2>1, <2>2 DEF FollowInv, WritesTell
  <2>3. CASE u = t /\ q # r
    BY <1>2, <1>11, <2>1, <2>3 DEF FollowInv, WritesTell
  <2>4. CASE u = t /\ q = r
    <3>1. CASE new.status = "public" \/ old.status = "public"
      BY <1>11, <2>1, <2>4, <3>1 DEF Told
    <3>2. CASE new.status # "public" /\ old.status # "public"
      BY <1>2, <1>11, <2>1, <2>4, <3>2 DEF FollowInv, WritesTell, Seen, LockedBy
    <3> QED BY <3>1, <3>2
  <2> QED BY <2>2, <2>3, <2>4
<1>24. StampsTell'
  BY <1>3, <1>5, <1>7, <1>11, <1>12, <1>13, <1>14 DEF FollowInv, StampsTell
<1>25. WritesClear'
  <2> SUFFICES ASSUME NEW u \in Txs, NEW o \in Txs \ {u}, NEW q \in tx'[u].rows \ overlapped'
               PROVE  tx'[u].row[q].page \notin tx'[o].stamped
    BY DEF WritesClear
  <2>1. tx[u].rows \subseteq Resources /\ q \in Resources
    BY <1>1 DEF TypeOK, Transaction
  <2>2. CASE u = t /\ q = r
    BY <1>2, <1>3, <1>9, <2>2
  <2>3. CASE u # t \/ q # r
    BY <1>2, <1>3, <1>7, <2>1, <2>3 DEF FollowInv, WritesClear
  <2> QED BY <2>2, <2>3
<1>26. Behindhand'
  BY <1>5, <1>7 DEF FollowInv, Behindhand, View, Public, Before
<1>27. ASSUME r \notin muddled' PROVE \A o \in Txs \ {t} : ~Touches(o, r)
  <2> SUFFICES ASSUME NEW o \in Txs \ {t}, Mentions(o, r) PROVE FALSE
    BY <1>6 DEF Touches, LockedBy
  <2>1. r \notin muddled /\ r \notin overlapped'
    BY <1>7, <1>27
  <2>2. ~LockedBy(o, r) /\ row[r].page \in tx[o].stamped
    BY <1>6, <2>1 DEF FollowInv, StampsStand, LockedBy
  <2>3. ~LockedBy(t, r)
    BY <2>1 DEF FollowInv, OneAtATime, Touches
  <2> QED BY <1>9, <2>1, <2>2, <2>3 DEF Seen
<1>28. OneAtATime'
  <2> SUFFICES ASSUME NEW q \in Resources \ muddled', NEW u \in Txs, NEW o \in Txs \ {u},
                      Touches(u, q)', Touches(o, q)'
               PROVE  FALSE
    BY DEF OneAtATime
  <2>1. CASE q = r
    BY <1>12, <1>14, <1>27, <2>1 DEF Touches
  <2>2. CASE q # r
    BY <1>7, <1>11, <1>12, <1>13, <1>14, <2>2 DEF FollowInv, OneAtATime, Touches
  <2> QED BY <2>1, <2>2
<1>29. StampsStand'
  BY <1>3, <1>5, <1>7, <1>11, <1>12, <1>13, <1>14 DEF FollowInv, StampsStand
<1>30. LastOfTx'
  <2> SUFFICES ASSUME NEW u \in Txs, NEW e \in tx'[u].wrote, e.res \notin muddled'
               PROVE  /\ (\A f \in tx'[u].wrote : f.res = e.res => f.seq <= e.seq)
                           => (e.shown <=> PublicAfter(u, e.res)')
                      /\ \A f \in log : f.res = e.res => f.seq < e.seq
    BY <1>5 DEF LastOfTx
  <2>1. e.res \notin muddled /\ tx[u].wrote \subseteq tx'[u].wrote
    BY <1>2, <1>7
  <2>2. CASE e \in tx[u].wrote /\ (u # t \/ e.res # r)
    <3>1. e.res \in Resources
      BY <1>18, <1>19, <2>2
    <3>2. PublicAfter(u, e.res)' <=> PublicAfter(u, e.res)
      BY <1>15, <1>16, <2>2, <3>1 DEF PublicAfter
    <3>3. (\A f \in tx'[u].wrote : f.res = e.res => f.seq <= e.seq)
            => \A f \in tx[u].wrote : f.res = e.res => f.seq <= e.seq
      BY <2>1
    <3> QED BY <2>1, <2>2, <3>2, <3>3 DEF FollowInv, LastOfTx
  <2>3. CASE u = t /\ e = change
    <3>1. PublicAfter(t, r)' <=> new.status = "public"
      BY <1>4, <1>5, <1>3, <1>10, <1>17, <2>3 DEF PublicAfter, GoneAfter
    <3>2. \A f \in log : f.res = e.res => f.seq < e.seq
      BY <1>4, <2>3 DEF FollowInv, Drawn
    <3> QED BY <1>4, <2>3, <3>1, <3>2
  <2>4. CASE u = t /\ e \in tx[t].wrote /\ e.res = r
    <3>1. \A f \in log : f.res = e.res => f.seq < e.seq
      BY <2>1, <2>4 DEF FollowInv, LastOfTx
    <3>2. CASE told
      <4>1. change \in tx'[t].wrote /\ e.seq < change.seq
        BY <1>2, <1>4, <2>4, <3>2 DEF FollowInv, Drawn
      <4>2. e.seq \in Nat
        BY <1>18, <1>19, <2>4
      <4>3. ~(change.seq <= e.seq)
        BY <1>4, <1>18, <4>1, <4>2
      <4> QED BY <1>4, <2>4, <3>1, <4>1, <4>3
    <3>3. CASE ~told
      <4>1. tx'[t].wrote = tx[t].wrote /\ old.status # "public" /\ new.status # "public"
        BY <1>2, <3>3 DEF Told
      <4>2. ~PublicAfter(t, r) /\ ~PublicAfter(t, r)'
        BY <1>17, <4>1 DEF PublicAfter
      <4> QED BY <2>1, <2>4, <3>1, <4>1, <4>2 DEF FollowInv, LastOfTx
    <3> QED BY <3>2, <3>3
  <2> QED BY <1>2, <2>2, <2>3, <2>4
<1>31. LastWord'
  BY <1>5, <1>7 DEF FollowInv, LastWord, Public
<1> QED BY <1>1, <1>7, <1>20, <1>21, <1>22, <1>23, <1>24, <1>25, <1>26, <1>28, <1>29, <1>30, <1>31 DEF FollowInv

\* What a stamp leaves of the transactions.
LEMMA StampTo ==
  ASSUME TypeOK, NEW t \in Txs, NEW page \in Pages, Stamp(t, page)
  PROVE  LET there == {r \in Resources : Seen(t, r).status = "public" /\ Seen(t, r).page = page} IN
         /\ \A u \in Txs \ {t} : tx'[u] = tx[u]
         /\ tx'[t].xid = tx[t].xid /\ tx'[t].rows = tx[t].rows /\ tx'[t].row = tx[t].row
         /\ tx'[t].stamped = tx[t].stamped \cup {page}
         /\ \E seq \in [there -> Nat] :
              /\ \A r \in there : nextSeq <= seq[r] /\ seq[r] < nextSeq'
              /\ tx'[t].wrote = tx[t].wrote \cup
                   {[xid |-> tx[t].xid, seq |-> seq[r], res |-> r, shown |-> page \in gone] : r \in there}
<1> DEFINE there == {r \in Resources : Seen(t, r).status = "public" /\ Seen(t, r).page = page}
           n == Cardinality(there)
           seqs == nextSeq..(nextSeq + n - 1)
           Added(seq) == {[xid |-> tx[t].xid, seq |-> seq[r], res |-> r, shown |-> ~(page \notin gone)] : r \in there}
           Mine(seq) == [tx[t] EXCEPT !.stamped = @ \cup {page}, !.wrote = @ \cup Added(seq)]
<1>1. tx[t] \in Transaction /\ nextSeq \in Nat
  BY DEF TypeOK
<1>2. n \in Nat
  BY FeedAssumption, FS_Subset, FS_CardinalityType
<1>3. PICK seq \in Bijection(there, seqs) : tx' = [tx EXCEPT ![t] = Mine(seq)]
  BY DEF Stamp
<1>4. seq \in [there -> seqs]
  BY DEF Bijection, Injection
<1>5. nextSeq' = nextSeq + n
  BY DEF Stamp
<1> HIDE DEF n
<1>6. seqs \subseteq Nat /\ \A i \in seqs : nextSeq <= i /\ i < nextSeq'
  <2> SUFFICES ASSUME NEW i \in nextSeq..(nextSeq + n - 1)
               PROVE  i \in Nat /\ nextSeq <= i /\ i < nextSeq + n
    BY <1>5
  <2> QED BY <1>1, <1>2
<1> HIDE DEF seqs
<1>7. seq \in [there -> Nat] /\ \A r \in there : nextSeq <= seq[r] /\ seq[r] < nextSeq'
  BY <1>4, <1>6
<1>8. Added(seq) = {[xid |-> tx[t].xid, seq |-> seq[r], res |-> r, shown |-> page \in gone] : r \in there}
  OBVIOUS
<1>9. \A u \in Txs : tx'[u] = IF u = t THEN Mine(seq) ELSE tx[u]
  BY <1>3 DEF TypeOK
<1> HIDE DEF Added, there
<1>10. /\ Mine(seq).xid = tx[t].xid /\ Mine(seq).rows = tx[t].rows /\ Mine(seq).row = tx[t].row
       /\ Mine(seq).stamped = tx[t].stamped \cup {page} /\ Mine(seq).wrote = tx[t].wrote \cup Added(seq)
  BY <1>1 DEF Transaction
<1> HIDE DEF Mine
<1>11. tx'[t].wrote = tx[t].wrote \cup
         {[xid |-> tx[t].xid, seq |-> seq[r], res |-> r, shown |-> page \in gone] : r \in there}
  BY <1>8, <1>9, <1>10
<1> QED BY <1>7, <1>9, <1>10, <1>11 DEF there

\* A stamp keeps it: it tells each public resource it sees on the page, and
\* marks those that another transaction holds.
LEMMA StampFollow ==
  ASSUME FollowInv, NEW t \in Txs, NEW page \in Pages, Stamp(t, page)
  PROVE  FollowInv'
<1> DEFINE there == {r \in Resources : Seen(t, r).status = "public" /\ Seen(t, r).page = page}
<1>1. TypeOK /\ FeedInv'
  BY StampFeed DEF FollowInv, FeedInv
<1>2. /\ \A u \in Txs \ {t} : tx'[u] = tx[u]
      /\ tx'[t].xid = tx[t].xid /\ tx'[t].rows = tx[t].rows /\ tx'[t].row = tx[t].row
      /\ tx'[t].stamped = tx[t].stamped \cup {page}
      /\ \E seq \in [there -> Nat] :
           /\ \A r \in there : nextSeq <= seq[r] /\ seq[r] < nextSeq'
           /\ tx'[t].wrote = tx[t].wrote \cup
                {[xid |-> tx[t].xid, seq |-> seq[r], res |-> r, shown |-> page \in gone] : r \in there}
  BY <1>1, StampTo
<1>3. PICK seq \in [there -> Nat] :
        /\ \A r \in there : nextSeq <= seq[r] /\ seq[r] < nextSeq'
        /\ tx'[t].wrote = tx[t].wrote \cup
             {[xid |-> tx[t].xid, seq |-> seq[r], res |-> r, shown |-> page \in gone] : r \in there}
  BY <1>2
<1> DEFINE New(r) == [xid |-> tx[t].xid, seq |-> seq[r], res |-> r, shown |-> page \in gone]
<1>4. tx'[t].wrote = tx[t].wrote \cup {New(r) : r \in there}
  BY <1>3
<1>5. \A r \in there : New(r).seq = seq[r] /\ New(r).res = r /\ (New(r).shown <=> page \in gone)
  OBVIOUS
<1> HIDE DEF New
<1>6. \A r \in Resources : r \in there <=> Seen(t, r).status = "public" /\ Seen(t, r).page = page
  OBVIOUS
<1>7. there \subseteq Resources
  OBVIOUS
<1> HIDE DEF there
<1>8. UNCHANGED <<row, gone, log, nextXid, cursor, todo, copy, served>>
  BY DEF Stamp, follower
<1>9. nextSeq \in Nat /\ nextSeq' \in Nat /\ log \subseteq Change /\ \A u \in Txs : tx[u].wrote \subseteq Change
  BY <1>1 DEF FeedInv, TypeOK, Transaction
<1>10. \A e \in Change : e.seq \in Nat /\ e.res \in Resources
  BY DEF Change
<1>11. nextSeq <= nextSeq'
  <2>1. CASE there = {}
    <3>1. Cardinality(there) = 0
      BY <2>1, FS_EmptySet
    <3>2. nextSeq' = nextSeq + Cardinality(there)
      BY DEF Stamp, there
    <3> QED BY <1>9, <3>1, <3>2
  <2>2. CASE there # {}
    <3>1. PICK r \in there : TRUE
      BY <2>2
    <3>2. seq[r] \in Nat
      BY <3>1
    <3> QED BY <1>3, <1>9, <3>1, <3>2
  <2> QED BY <2>1, <2>2
<1>12. \A o \in Txs : page \notin tx[o].stamped
  BY DEF Stamp
<1>13. tx[t].xid # 0
  BY DEF Stamp, Open
<1>14. \A o \in Txs : tx[o].xid = 0 => tx[o].rows = {}
  BY DEF FollowInv, IdleIsClosed, Closed
<1>15. /\ overlapped \subseteq overlapped' /\ muddled \subseteq muddled' /\ overlapped' \subseteq muddled'
       /\ \A o \in Txs \ {t}, r \in Resources : LockedBy(o, r) => r \in overlapped'
  BY <1>14 DEF Stamp, FollowInv, Open, LockedBy
<1>16. \A r \in Resources : Mentions(t, r)' <=> Mentions(t, r) \/ r \in there
  BY <1>4, <1>5 DEF Mentions
<1>17. \A u \in Txs \ {t}, r \in Resources : Mentions(u, r)' <=> Mentions(u, r)
  BY <1>2 DEF Mentions
<1>18. \A u \in Txs : tx'[u].rows = tx[u].rows /\ tx'[u].row = tx[u].row /\ tx'[u].xid = tx[u].xid
  BY <1>2
<1>19. \A u \in Txs, r \in Resources : (LockedBy(u, r)' <=> LockedBy(u, r)) /\ Seen(u, r)' = Seen(u, r)
  BY <1>8, <1>18 DEF LockedBy, Seen
<1>20. IdleIsClosed'
  BY <1>2, <1>13 DEF FollowInv, IdleIsClosed
<1>21. Drawn'
  <2>1. \A e \in Change : e.seq < nextSeq => e.seq < nextSeq'
    BY <1>9, <1>10, <1>11
  <2>2. ASSUME NEW u \in Txs, NEW e \in tx'[u].wrote PROVE e.seq < nextSeq'
    BY <1>2, <1>3, <1>4, <1>5, <1>9, <2>1 DEF FollowInv, Drawn
  <2> QED BY <1>8, <1>9, <1>18, <2>1, <2>2 DEF FollowInv, Drawn
<1>22. Exclusive'
  BY <1>2, <1>12 DEF FollowInv, Exclusive
<1>23. WritesTell'
  <2>1. \A u \in Txs : tx[u].rows \subseteq Resources
    BY <1>1 DEF TypeOK, Transaction
  <2> QED BY <1>8, <1>16, <1>17, <1>18, <2>1 DEF FollowInv, WritesTell
<1>24. StampsTell'
  <2> SUFFICES ASSUME NEW u \in Txs, NEW r \in Resources \ overlapped', ~LockedBy(u, r),
                      row[r].status = "public", row[r].page \in tx'[u].stamped
               PROVE  Mentions(u, r)'
    BY <1>8, <1>19 DEF StampsTell
  <2>1. CASE row[r].page \in tx[u].stamped
    BY <1>15, <1>16, <1>17, <2>1 DEF FollowInv, StampsTell
  <2>2. CASE u = t /\ row[r].page = page
    BY <1>6, <1>16, <2>2 DEF Seen
  <2> QED BY <1>2, <2>1, <2>2
<1>25. WritesClear'
  <2> SUFFICES ASSUME NEW u \in Txs, NEW o \in Txs \ {u}, NEW r \in tx[u].rows \ overlapped'
               PROVE  tx[u].row[r].page \notin tx'[o].stamped
    BY <1>18 DEF WritesClear
  <2>1. r \in Resources
    BY <1>1 DEF TypeOK, Transaction
  <2>2. u = t
    BY <1>15, <2>1 DEF LockedBy
  <2> QED BY <1>2, <1>15, <2>2 DEF FollowInv, WritesClear
<1>26. Behindhand'
  BY <1>8, <1>15 DEF FollowInv, Behindhand, View, Public, Before
<1>27. ASSUME NEW r \in there \ muddled', NEW o \in Txs \ {t} PROVE ~Touches(o, r)
  <2> SUFFICES ASSUME Mentions(o, r) PROVE FALSE
    BY <1>7, <1>15 DEF Touches
  <2>1. r \in Resources /\ r \notin muddled /\ ~LockedBy(o, r)
    BY <1>7, <1>15
  <2>2. row[r].page \in tx[o].stamped
    BY <2>1 DEF FollowInv, StampsStand
  <2>3. ~LockedBy(t, r)
    BY <2>1 DEF FollowInv, OneAtATime, Touches
  <2>4. row[r].page = page
    BY <1>6, <2>1, <2>3 DEF Seen
  <2> QED BY <1>12, <2>2, <2>4
<1>28. OneAtATime'
  <2> SUFFICES ASSUME NEW q \in Resources \ muddled', NEW u \in Txs, NEW o \in Txs \ {u},
                      Touches(u, q)', Touches(o, q)'
               PROVE  FALSE
    BY DEF OneAtATime
  <2>1. \A v \in Txs : Touches(v, q)' <=> Touches(v, q) \/ (v = t /\ q \in there)
    BY <1>16, <1>17, <1>19 DEF Touches
  <2> QED BY <1>15, <1>27, <2>1 DEF FollowInv, OneAtATime
<1>29. StampsStand'
  <2> SUFFICES ASSUME NEW r \in Resources \ muddled', NEW u \in Txs, Mentions(u, r)', ~LockedBy(u, r)
               PROVE  row[r].page \in tx'[u].stamped
    BY <1>8, <1>19 DEF StampsStand
  <2>1. CASE Mentions(u, r)
    BY <1>2, <1>15, <2>1 DEF FollowInv, StampsStand
  <2>2. CASE u = t /\ r \in there
    BY <1>2, <1>6, <2>2 DEF Seen
  <2> QED BY <1>16, <1>17, <2>1, <2>2
<1>30. LastOfTx'
  <2> SUFFICES ASSUME NEW u \in Txs, NEW e \in tx'[u].wrote, e.res \notin muddled'
               PROVE  /\ (\A f \in tx'[u].wrote : f.res = e.res => f.seq <= e.seq)
                           => (e.shown <=> PublicAfter(u, e.res)')
                      /\ \A f \in log : f.res = e.res => f.seq < e.seq
    BY <1>8 DEF LastOfTx
  <2>1. e.res \notin muddled /\ tx[u].wrote \subseteq tx'[u].wrote
    BY <1>2, <1>4, <1>15
  <2>2. GoneAfter(u)' = IF u # t THEN GoneAfter(u) ELSE
          IF page \in gone THEN GoneAfter(t) \ {page} ELSE GoneAfter(t) \cup {page}
    BY <1>2, <1>8, <1>12 DEF GoneAfter
  <2>3. CASE \E r \in there : u = t /\ e = New(r)
    <3>1. PICK r \in there : u = t /\ e = New(r)
      BY <2>3
    <3>2. e.res = r /\ e.seq = seq[r] /\ (e.shown <=> page \in gone) /\ r \in Resources
      BY <1>5, <1>7, <3>1
    <3>3. PublicAfter(t, r)' <=> page \in gone
      BY <1>6, <1>19, <2>2, <3>1, <3>2 DEF PublicAfter
    <3>4. \A f \in log : f.seq < e.seq
      <4> SUFFICES ASSUME NEW f \in log PROVE f.seq < seq[r]
        BY <3>2
      <4>1. f.seq < nextSeq /\ nextSeq <= seq[r] /\ f.seq \in Nat /\ seq[r] \in Nat
        BY <1>3, <1>9, <1>10, <3>1 DEF FollowInv, Drawn
      <4> QED BY <1>9, <4>1
    <3> QED BY <3>1, <3>2, <3>3, <3>4
  <2>4. CASE e \in tx[u].wrote
    <3>1. e.res \in Resources /\ e.seq \in Nat /\ e.seq < nextSeq
      BY <1>9, <1>10, <2>4 DEF FollowInv, Drawn
    <3>2. \A f \in log : f.res = e.res => f.seq < e.seq
      BY <2>1, <2>4 DEF FollowInv, LastOfTx
    <3>3. CASE u = t /\ e.res \in there
      <4>1. New(e.res) \in tx'[t].wrote
        BY <1>4, <3>3
      <4>2. seq[e.res] \in Nat /\ ~(seq[e.res] <= e.seq)
        BY <1>3, <1>9, <3>1, <3>3
      <4> QED BY <1>5, <3>2, <3>3, <4>1, <4>2
    <3>4. CASE u # t \/ e.res \notin there
      <4>1. PublicAfter(u, e.res)' <=> PublicAfter(u, e.res)
        BY <1>6, <1>19, <2>2, <3>1, <3>4 DEF PublicAfter
      <4> QED BY <2>1, <2>4, <3>2, <4>1 DEF FollowInv, LastOfTx
    <3> QED BY <3>3, <3>4
  <2> QED BY <1>2, <1>4, <2>3, <2>4
<1>31. LastWord'
  BY <1>8, <1>15 DEF FollowInv, LastWord, Public
<1> QED BY <1>1, <1>15, <1>20, <1>21, <1>22, <1>23, <1>24, <1>25, <1>26, <1>28, <1>29, <1>30, <1>31 DEF FollowInv

\* A transaction that gets its id has done nothing.
LEMMA BeginFollow ==
  ASSUME FollowInv, NEW t \in Txs, Begin(t)
  PROVE  FollowInv'
<1> DEFINE mine == [tx[t] EXCEPT !.xid = nextXid]
<1>1. FeedInv' /\ TypeOK
  BY BeginFeed DEF FollowInv, FeedInv
<1>2. tx[t] \in Transaction /\ nextXid \in Nat /\ tx[t] = Closed
  BY <1>1 DEF TypeOK, Begin
<1>3. /\ mine.xid = nextXid /\ mine.wrote = tx[t].wrote /\ mine.rows = tx[t].rows
      /\ mine.row = tx[t].row /\ mine.stamped = tx[t].stamped
  BY <1>2 DEF Transaction
<1>4. \A u \in Txs : tx'[u] = IF u = t THEN mine ELSE tx[u]
  BY DEF Begin, TypeOK, FollowInv, FeedInv
<1> HIDE DEF mine
<1>5. \A u \in Txs : /\ tx'[u].wrote = tx[u].wrote /\ tx'[u].rows = tx[u].rows
                     /\ tx'[u].row = tx[u].row /\ tx'[u].stamped = tx[u].stamped
  BY <1>3, <1>4
<1>6. /\ nextXid' = nextXid + 1
      /\ UNCHANGED <<row, gone, log, nextSeq, cursor, todo, copy, served, overlapped, muddled>>
  BY DEF Begin, follower
<1>7. \A u \in Txs, r \in Resources :
        /\ Mentions(u, r)' <=> Mentions(u, r)
        /\ LockedBy(u, r)' <=> LockedBy(u, r)
        /\ PublicAfter(u, r)' <=> PublicAfter(u, r)
  BY <1>5, <1>6 DEF Mentions, LockedBy, PublicAfter, GoneAfter, Seen
<1>8. \A u \in Txs : tx[u].rows \subseteq Resources /\ tx[u].wrote \subseteq Change /\ tx[u].xid \in Nat
  BY <1>1 DEF TypeOK, Transaction
<1>9. log \subseteq Change /\ \A e \in Change : e.xid \in Nat /\ e.res \in Resources
  BY <1>1 DEF TypeOK, Change
<1>10. IdleIsClosed'
  BY <1>3, <1>4 DEF FollowInv, IdleIsClosed, Drawn
<1>11. Drawn'
  <2>1. nextXid' # 0 /\ \A i \in Nat : i < nextXid => i < nextXid'
    BY <1>2, <1>6
  <2>2. \A u \in Txs : tx'[u].xid < nextXid'
    BY <1>2, <1>3, <1>4, <1>6, <1>8, <2>1 DEF FollowInv, Drawn
  <2> QED BY <1>5, <1>6, <1>9, <2>1, <2>2 DEF FollowInv, Drawn
<1>12. Exclusive' /\ overlapped' \subseteq muddled'
  BY <1>5, <1>6 DEF FollowInv, Exclusive
<1>13. WritesTell' /\ StampsTell' /\ WritesClear'
  BY <1>5, <1>6, <1>7, <1>8 DEF FollowInv, WritesTell, StampsTell, WritesClear
<1>14. Behindhand' /\ LastWord'
  BY <1>6 DEF FollowInv, Behindhand, LastWord, View, Public, Before
<1>15. OneAtATime' /\ StampsStand'
  BY <1>5, <1>6, <1>7 DEF FollowInv, OneAtATime, StampsStand, Touches
<1>16. LastOfTx'
  BY <1>5, <1>6, <1>7, <1>8, <1>9 DEF FollowInv, LastOfTx
<1> QED BY <1>1, <1>10, <1>11, <1>12, <1>13, <1>14, <1>15, <1>16 DEF FollowInv

\* A transaction that is rolled back leaves nothing.
LEMMA RollbackFollow ==
  ASSUME FollowInv, NEW t \in Txs, Rollback(t)
  PROVE  FollowInv'
<1>1. FeedInv' /\ TypeOK
  BY RollbackFeed DEF FollowInv, FeedInv
<1>2. Closed.xid = 0 /\ Closed.wrote = {} /\ Closed.rows = {} /\ Closed.stamped = {}
  BY DEF Closed
<1>3. \A u \in Txs : tx'[u] = IF u = t THEN Closed ELSE tx[u]
  BY <1>1 DEF Rollback, TypeOK
<1>4. UNCHANGED <<row, gone, log, nextXid, nextSeq, cursor, todo, copy, served, overlapped, muddled>>
  BY DEF Rollback, follower
<1>5. \A u \in Txs : /\ tx'[u].wrote \subseteq tx[u].wrote /\ tx'[u].rows \subseteq tx[u].rows
                     /\ tx'[u].stamped \subseteq tx[u].stamped
  BY <1>2, <1>3
<1>6. \A u \in Txs, r \in Resources : (Mentions(u, r)' => Mentions(u, r)) /\ (LockedBy(u, r)' => LockedBy(u, r))
  BY <1>5 DEF Mentions, LockedBy
<1>7. \A u \in Txs \ {t}, r \in Resources : 
        /\ Mentions(u, r)' <=> Mentions(u, r)
        /\ LockedBy(u, r)' <=> LockedBy(u, r)
        /\ PublicAfter(u, r)' <=> PublicAfter(u, r)
  BY <1>3, <1>4 DEF Mentions, LockedBy, PublicAfter, GoneAfter, Seen
<1>8. \A u \in Txs : tx[u].rows \subseteq Resources /\ tx[u].wrote \subseteq Change
  BY <1>1 DEF TypeOK, Transaction
<1>9. \A e \in Change : e.res \in Resources
  BY DEF Change
<1>10. IdleIsClosed'
  BY <1>3 DEF FollowInv, IdleIsClosed
<1>11. Drawn'
  <2>1. 0 < nextXid
    BY <1>1 DEF FollowInv, Drawn, TypeOK
  <2> QED BY <1>2, <1>3, <1>4, <2>1 DEF FollowInv, Drawn
<1>12. Exclusive' /\ overlapped' \subseteq muddled'
  BY <1>4, <1>5 DEF FollowInv, Exclusive
<1>13. WritesTell' /\ StampsTell' /\ WritesClear'
  BY <1>2, <1>3, <1>4, <1>7, <1>8 DEF FollowInv, WritesTell, StampsTell, WritesClear
<1>14. Behindhand' /\ LastWord'
  BY <1>4 DEF FollowInv, Behindhand, LastWord, View, Public, Before
<1>15. OneAtATime' 
  BY <1>4, <1>6 DEF FollowInv, OneAtATime, Touches
<1>16. StampsStand'
  BY <1>2, <1>3, <1>4, <1>7 DEF FollowInv, StampsStand, Mentions
<1>17. LastOfTx'
  BY <1>2, <1>3, <1>4, <1>7, <1>8, <1>9 DEF FollowInv, LastOfTx
<1> QED BY <1>1, <1>10, <1>11, <1>12, <1>13, <1>14, <1>15, <1>16, <1>17 DEF FollowInv

\* A transaction commits: what it changed it has told, and tells last.
LEMMA CommitFollow ==
  ASSUME FollowInv, NEW t \in Txs, Commit(t)
  PROVE  FollowInv'
<1>1. FeedInv' /\ TypeOK
  BY CommitFeed DEF FollowInv, FeedInv
<1>2. Closed.xid = 0 /\ Closed.wrote = {} /\ Closed.rows = {} /\ Closed.stamped = {}
  BY DEF Closed
<1>3. \A u \in Txs : tx'[u] = IF u = t THEN Closed ELSE tx[u]
  BY <1>1 DEF Commit, TypeOK
<1>4. /\ \A r \in Resources : row'[r] = Seen(t, r)
      /\ gone' = GoneAfter(t) /\ log' = log \cup tx[t].wrote
      /\ UNCHANGED <<nextXid, nextSeq, cursor, todo, copy, served, overlapped, muddled>>
  BY DEF Commit, follower, GoneAfter
<1>5. \A u \in Txs : tx[u].rows \subseteq Resources /\ tx[u].wrote \subseteq Change
  BY <1>1 DEF TypeOK, Transaction
<1>6. log \subseteq Change /\ \A e \in Change : e.res \in Resources /\ e.seq \in Nat
  BY <1>1 DEF TypeOK, Change
<1>7. \A r \in Resources : Public(r)' <=> PublicAfter(t, r)
  BY <1>4 DEF Public, PublicAfter
<1>8. \A u \in Txs : /\ tx'[u].wrote \subseteq tx[u].wrote /\ tx'[u].rows \subseteq tx[u].rows
                     /\ tx'[u].stamped \subseteq tx[u].stamped
  BY <1>2, <1>3
<1>9. \A u \in Txs, r \in Resources : (Mentions(u, r)' => Mentions(u, r)) /\ (LockedBy(u, r)' => LockedBy(u, r))
  BY <1>8 DEF Mentions, LockedBy
<1>10. \A u \in Txs \ {t}, r \in Resources :
        (Mentions(u, r)' <=> Mentions(u, r)) /\ (LockedBy(u, r)' <=> LockedBy(u, r))
  BY <1>3 DEF Mentions, LockedBy
<1>11. \A u \in Txs \ {t}, r \in Resources : LockedBy(u, r) => row'[r] = row[r]
  BY <1>4 DEF Seen, LockedBy, FollowInv, Exclusive
<1>12. ASSUME NEW r \in Resources \ overlapped, ~Mentions(t, r)
       PROVE  View(r)' = View(r) /\ (PublicAfter(t, r) <=> Public(r))
  <2>1. CASE LockedBy(t, r)
    <3>1. row[r].status # "public" /\ Seen(t, r).status # "public"
      BY <1>12, <2>1 DEF FollowInv, WritesTell, Seen, LockedBy
    <3> QED BY <1>4, <3>1 DEF View, Public, PublicAfter
  <2>2. CASE ~LockedBy(t, r)
    <3>1. row'[r] = row[r] /\ Seen(t, r) = row[r]
      BY <1>4, <2>2 DEF Seen
    <3>2. row[r].status = "public" => (row[r].page \in GoneAfter(t) <=> row[r].page \in gone)
      BY <1>12, <2>2 DEF FollowInv, StampsTell, GoneAfter
    <3> QED BY <1>4, <3>1, <3>2 DEF View, Public, PublicAfter
  <2> QED BY <2>1, <2>2
<1>13. IdleIsClosed'
  BY <1>3 DEF FollowInv, IdleIsClosed
<1>14. Drawn'
  <2>1. 0 < nextXid
    BY <1>1 DEF FollowInv, Drawn, TypeOK
  <2>2. \A e \in tx[t].wrote : e.xid = tx[t].xid
    BY DEF FollowInv, FeedInv, OwnChanges
  <2> QED BY <1>2, <1>3, <1>4, <2>1, <2>2 DEF FollowInv, Drawn
<1>15. Exclusive' /\ overlapped' \subseteq muddled'
  BY <1>4, <1>8 DEF FollowInv, Exclusive
<1>16. WritesTell'
  BY <1>2, <1>3, <1>5, <1>10, <1>11 DEF FollowInv, WritesTell, LockedBy
<1>17. StampsTell'
  <2> SUFFICES ASSUME NEW u \in Txs, NEW r \in Resources \ overlapped, ~LockedBy(u, r)',
                      row'[r].status = "public", row'[r].page \in tx'[u].stamped
               PROVE  Mentions(u, r)'
    BY <1>4 DEF StampsTell
  <2>1. u # t
    BY <1>2, <1>3
  <2>2. ~LockedBy(t, r)
    BY <1>3, <1>4, <2>1 DEF FollowInv, WritesClear, Seen, LockedBy
  <2>3. row'[r] = row[r]
    BY <1>4, <2>2 DEF Seen
  <2> QED BY <1>3, <1>10, <2>1, <2>3 DEF FollowInv, StampsTell
<1>18. WritesClear'
  BY <1>2, <1>3, <1>4 DEF FollowInv, WritesClear
<1>19. Behindhand'
  <2> SUFFICES ASSUME NEW r \in Resources \ overlapped
               PROVE  copy[r] = View(r)' \/ r \in todo \/ \E e \in log' : e.res = r /\ Before(cursor, e)
    BY <1>4 DEF Behindhand, Before
  <2>1. CASE Mentions(t, r)
    <3>1. PICK e \in tx[t].wrote : e.res = r
      BY <2>1 DEF Mentions
    <3>2. Before(cursor, e)
      BY <3>1 DEF FollowInv, FeedInv, OwnChanges, Behind, Before, Commit
    <3> QED BY <1>4, <3>1, <3>2
  <2>2. CASE ~Mentions(t, r)
    BY <1>4, <1>12, <2>2 DEF FollowInv, Behindhand
  <2> QED BY <2>1, <2>2
<1>20. OneAtATime'
  BY <1>4, <1>9 DEF FollowInv, OneAtATime, Touches
<1>21. ASSUME NEW r \in Resources \ muddled, NEW u \in Txs \ {t}, Mentions(u, r)
       PROVE  /\ ~LockedBy(t, r) /\ ~Mentions(t, r) /\ row'[r] = row[r]
              /\ PublicAfter(u, r)' <=> PublicAfter(u, r)
  <2>1. ~LockedBy(t, r) /\ ~Mentions(t, r)
    BY <1>21 DEF FollowInv, OneAtATime, Touches
  <2>2. row'[r] = row[r]
    BY <1>4, <2>1 DEF Seen
  <2>3. Seen(u, r)' = Seen(u, r)
    BY <1>3, <2>2 DEF Seen, LockedBy
  <2>4. Seen(u, r).page \notin tx[t].stamped
    <3>1. CASE LockedBy(u, r)
      BY <3>1 DEF FollowInv, WritesClear, Seen, LockedBy
    <3>2. CASE ~LockedBy(u, r)
      <4>1. row[r].page \in tx[u].stamped
        BY <1>21, <3>2 DEF FollowInv, StampsStand
      <4> QED BY <3>2, <4>1 DEF FollowInv, Exclusive, Seen
    <3> QED BY <3>1, <3>2
  <2>5. Seen(u, r).page \in GoneAfter(u)' <=> Seen(u, r).page \in GoneAfter(u)
    BY <1>3, <1>4, <2>4 DEF GoneAfter
  <2> QED BY <2>1, <2>2, <2>3, <2>5 DEF PublicAfter
<1>22. StampsStand'
  <2> SUFFICES ASSUME NEW r \in Resources \ muddled, NEW u \in Txs, Mentions(u, r)', ~LockedBy(u, r)'
               PROVE  row'[r].page \in tx'[u].stamped
    BY <1>4 DEF StampsStand
  <2>1. u # t
    BY <1>2, <1>3 DEF Mentions
  <2> QED BY <1>3, <1>10, <1>21, <2>1 DEF FollowInv, StampsStand
<1>23. LastOfTx'
  <2> SUFFICES ASSUME NEW u \in Txs, NEW e \in tx'[u].wrote, e.res \notin muddled
               PROVE  /\ (\A f \in tx'[u].wrote : f.res = e.res => f.seq <= e.seq)
                           => (e.shown <=> PublicAfter(u, e.res)')
                      /\ \A f \in log' : f.res = e.res => f.seq < e.seq
    BY <1>4 DEF LastOfTx
  <2>1. u # t /\ tx'[u] = tx[u] /\ e \in tx[u].wrote /\ e.res \in Resources
    BY <1>2, <1>3, <1>5, <1>6
  <2>2. Mentions(u, e.res)
    BY <2>1 DEF Mentions
  <2>3. ~Mentions(t, e.res) /\ (PublicAfter(u, e.res)' <=> PublicAfter(u, e.res))
    BY <1>21, <2>1, <2>2
  <2> QED BY <1>4, <2>1, <2>3 DEF FollowInv, LastOfTx, Mentions
<1>24. LastWord'
  <2> SUFFICES ASSUME NEW r \in Resources \ muddled
               PROVE  LET mine == {e \in log' : e.res = r} IN
                      /\ mine = {} => ~Public(r)'
                      /\ \A e \in mine : (\A f \in mine : f.seq <= e.seq) => (e.shown <=> Public(r)')
    BY <1>4 DEF LastWord
  <2>1. CASE Mentions(t, r)
    <3>1. PICK g \in tx[t].wrote : g.res = r
      BY <2>1 DEF Mentions
    <3>2. g \in log' /\ g.seq \in Nat /\ \A e \in log : e.res = r => e.seq < g.seq
      BY <1>4, <1>5, <1>6, <3>1 DEF FollowInv, LastOfTx
    <3> SUFFICES ASSUME NEW e \in log', e.res = r, \A f \in log' : f.res = r => f.seq <= e.seq
                 PROVE  e.shown <=> Public(r)'
      BY <3>1, <3>2
    <3>3. e \in tx[t].wrote
      <4> SUFFICES ASSUME e \in log PROVE FALSE
        BY <1>4
      <4>1. e.seq \in Nat /\ e.seq < g.seq /\ g.seq <= e.seq
        BY <1>6, <3>1, <3>2
      <4> QED BY <3>2, <4>1
    <3> QED BY <1>4, <1>7, <3>3 DEF FollowInv, LastOfTx
  <2>2. CASE ~Mentions(t, r)
    <3>1. Public(r)' <=> Public(r)
      BY <1>7, <1>12, <2>2 DEF FollowInv
    <3>2. {e \in log' : e.res = r} = {e \in log : e.res = r}
      BY <1>4, <2>2 DEF Mentions
    <3> QED BY <3>1, <3>2 DEF FollowInv, LastWord
  <2> QED BY <2>1, <2>2
<1> QED BY <1>1, <1>13, <1>14, <1>15, <1>16, <1>17, <1>18, <1>19, <1>20, <1>22, <1>23, <1>24 DEF FollowInv

\* A page of the feed puts what it tells on the list of what is to be read.
LEMMA ListFollow ==
  ASSUME FollowInv, ListChanges
  PROVE  FollowInv'
<1>1. PICK last \in Ready :
        LET page == {e \in Ready : ~Before(last, e)} IN
        /\ cursor' = [xid |-> last.xid, seq |-> last.seq]
        /\ todo' = todo \cup {e.res : e \in page}
        /\ served' = served \cup page
        /\ UNCHANGED <<database, copy, overlapped, muddled>>
  BY DEF ListChanges
<1>2. FeedInv' /\ TypeOK /\ UNCHANGED <<row, gone, tx, log, nextXid, nextSeq, copy, overlapped, muddled>>
  BY <1>1, ListFeed DEF FollowInv, FeedInv, database
<1>3. last \in log /\ log \subseteq Change
  BY <1>2 DEF Ready, TypeOK
<1>4. \A e \in log : Before(cursor, e) /\ ~Before(cursor', e) => e \in Ready /\ ~Before(last, e)
  <2> SUFFICES ASSUME NEW e \in log, Before(cursor, e), ~Before(cursor', e)
               PROVE  e \in Ready /\ ~Before(last, e)
    OBVIOUS
  <2>1. ~Before(last, e)
    BY <1>1 DEF Before
  <2>2. e.xid \in Nat /\ last.xid \in Nat /\ nextXid \in Nat /\ \A t \in Txs : tx[t].xid \in Nat
    BY <1>2, <1>3 DEF TypeOK, Transaction, Change
  <2>3. e.xid <= last.xid
    BY <2>1, <2>2 DEF Before
  <2>4. Ended(last.xid)
    BY DEF Ready
  <2> QED BY <2>1, <2>2, <2>3, <2>4 DEF Ready, Ended, Open
<1>5. Behindhand'
  <2> SUFFICES ASSUME NEW r \in Resources \ overlapped
               PROVE  copy[r] = View(r) \/ r \in todo' \/ \E e \in log : e.res = r /\ Before(cursor', e)
    BY <1>2 DEF Behindhand, Before, View, Public
  <2>1. CASE copy[r] = View(r) \/ r \in todo
    BY <1>1, <2>1
  <2>2. CASE \E e \in log : e.res = r /\ Before(cursor, e)
    BY <1>1, <1>4, <2>2
  <2> QED BY <2>1, <2>2 DEF FollowInv, Behindhand
<1>6. (IdleIsClosed /\ Drawn /\ Exclusive /\ overlapped \subseteq muddled)'
  BY <1>2 DEF FollowInv, IdleIsClosed, Drawn, Exclusive
<1>7. (WritesTell /\ StampsTell /\ WritesClear)'
  BY <1>2 DEF FollowInv, WritesTell, StampsTell, WritesClear, Mentions, LockedBy
<1>8. (OneAtATime /\ StampsStand)'
  BY <1>2 DEF FollowInv, OneAtATime, StampsStand, Touches, Mentions, LockedBy
<1>9. (LastOfTx /\ LastWord)'
  BY <1>2 DEF FollowInv, LastOfTx, LastWord, PublicAfter, GoneAfter, Seen, LockedBy, Public
<1> QED BY <1>2, <1>5, <1>6, <1>7, <1>8, <1>9 DEF FollowInv

\* Every step keeps what the follower goes by.
LEMMA NextFollow == FollowInv /\ [Next]_vars => FollowInv'
<1> SUFFICES ASSUME FollowInv, [Next]_vars PROVE FollowInv'
  OBVIOUS
<1>1. FeedInv'
  BY NextFeed DEF FollowInv
<1>2. ASSUME NEW t \in Txs, NEW r \in Resources, Delete(t, r) PROVE FollowInv'
  <2>1. Absent \in Row
    BY DEF Absent, Row
  <2> QED BY <1>2, <2>1, WritesFollow DEF Delete
<1>3. ASSUME NEW t \in Txs, NEW r \in Resources, NEW p \in Pages, NEW s \in {"public", "off"},
             Insert(t, r, p, s) \/ Update(t, r, p, s)
      PROVE  FollowInv'
  <2>1. [status |-> s, page |-> p, content |-> nextSeq] \in Row
    BY DEF Row, FollowInv, FeedInv, TypeOK
  <2> QED BY <1>3, <2>1, WritesFollow DEF Insert, Update
<1>4. ASSUME UNCHANGED <<row, gone, tx, log, nextXid, nextSeq, cursor, overlapped, muddled>>, Behindhand'
      PROVE  FollowInv'
  <2>1. (IdleIsClosed /\ Drawn /\ Exclusive /\ overlapped \subseteq muddled)'
    BY <1>4 DEF FollowInv, IdleIsClosed, Drawn, Exclusive
  <2>2. (WritesTell /\ StampsTell /\ WritesClear)'
    BY <1>4 DEF FollowInv, WritesTell, StampsTell, WritesClear, Mentions, LockedBy
  <2>3. (OneAtATime /\ StampsStand)'
    BY <1>4 DEF FollowInv, OneAtATime, StampsStand, Touches, Mentions, LockedBy
  <2>4. (LastOfTx /\ LastWord)'
    BY <1>4 DEF FollowInv, LastOfTx, LastWord, PublicAfter, GoneAfter, Seen, LockedBy, Public
  <2> QED BY <1>1, <1>4, <2>1, <2>2, <2>3, <2>4 DEF FollowInv
<1>5. ASSUME NEW r \in Resources, GetResource(r) PROVE FollowInv'
  <2>1. /\ todo' = todo \ {r} /\ copy' = [copy EXCEPT ![r] = View(r)]
        /\ UNCHANGED <<row, gone, tx, log, nextXid, nextSeq, cursor, overlapped, muddled>>
    BY <1>5 DEF GetResource, database
  <2>2. \A q \in Resources : copy'[q] = IF q = r THEN View(r) ELSE copy[q]
    BY <2>1 DEF FollowInv, FeedInv, TypeOK
  <2>3. \A q \in Resources : View(q)' = View(q)
    BY <2>1 DEF View, Public
  <2>4. Behindhand'
    BY <2>1, <2>2, <2>3 DEF FollowInv, Behindhand, Before
  <2> QED BY <1>4, <2>1, <2>4
<1>6. CASE UNCHANGED vars
  <2>1. UNCHANGED <<row, gone, tx, log, nextXid, nextSeq, cursor, todo, copy, overlapped, muddled>>
    BY <1>6 DEF vars, database, follower
  <2>2. Behindhand'
    BY <2>1 DEF FollowInv, Behindhand, View, Public, Before
  <2> QED BY <1>4, <2>1, <2>2
<1> QED BY <1>2, <1>3, <1>5, <1>6, BeginFollow, CommitFollow, RollbackFollow, StampFollow, ListFollow DEF Next

\* When nothing is ahead and nothing is to be read, no copy differs.
LEMMA NothingAhead == FollowInv => FeedFollowed
<1> SUFFICES ASSUME FollowInv PROVE FollowerAgrees
  BY DEF FollowInv, FeedInv, FeedFollowed
<1> SUFFICES ASSUME Open = {}, Ready = {}, todo = {} PROVE \A r \in Resources \ overlapped : copy[r] = View(r)
  BY DEF FollowerAgrees
<1>1. \A e \in log : Ended(e.xid)
  BY DEF FollowInv, Drawn, Ended
<1>2. \A e \in log : ~Before(cursor, e)
  BY <1>1 DEF Ready
<1> QED BY <1>2 DEF FollowInv, Behindhand

\* Following the feed is enough to know what this site offers: read to its end,
\* with each resource it names read again (the feed and GetResource of
\* internal/face), and by its last word about each resource (the triggers of
\* migrations 048 and 053), however the transactions interleave.
THEOREM FollowingIsEnough == Spec => []FeedFollowed
BY InitFollow, NextFollow, NothingAhead, PTL DEF Spec


-----------------------------------------------------------------------------
(***************************************************************************)
(* The wall (CommentWall).                                                 *)
(*                                                                         *)
(* Why: what the counter still lacks are the posts some request is about   *)
(* to count, and what it has too many are posts deleted by a request that  *)
(* is about to take them off: sets of posts, one to each request, that     *)
(* nobody else has (Owes).  A like that stands is paid or about to be, and *)
(* so is one that was taken back (Paying).  Of an account no two requests  *)
(* read at once, the one that has read its balance has the ledger's        *)
(* (Mirrored).                                                             *)
(***************************************************************************)

Awarding == {"post", "like", "unlike"}
OnPost == {"create", "bump", "row", "contributor", "award", "delete", "like", "edit", "look", "tell"}
Request == [at : Wall!Steps, post : {0} \cup Wall!Posts, was : BOOLEAN, n : Int,
            award : Awarding \cup Wall!Accounts \cup {"none"}]

\* A request that is about a post has it, and one that pays has its event.
WallShape ==
  /\ w_post \in [Wall!Posts -> [at : {"none", "visible", "held", "deleted"}, mentions : BOOLEAN]]
  /\ \A p \in Wall!Posts : w_post[p].at = "none" => w_post[p] = Wall!NoPost
  /\ w_liked \subseteq Wall!Posts /\ w_paid \subseteq Wall!Keys
  /\ w_count \in Nat /\ w_contrib \in Nat /\ w_row \in BOOLEAN
  /\ w_mirror \in [Wall!Accounts -> Int] /\ w_notices \in [Wall!Posts -> Nat]
  /\ w_ups \in [Wall!Posts -> Nat] /\ w_doubled \subseteq Wall!Posts /\ w_overlap \subseteq Wall!Accounts
  /\ w_askew \in BOOLEAN /\ w_unpaid \in BOOLEAN
  /\ w_call \in [Calls -> Request]
  /\ \A c \in Calls :
       /\ w_call[c].at \in OnPost => w_call[c].post \in Wall!Posts
       /\ w_call[c].at = "award" => w_call[c].award \in Awarding
       /\ w_call[c].at = "contributor" => w_call[c].award = "post"
       /\ w_call[c].at = "cache" => w_call[c].award # "none"
       /\ w_call[c].at \in {"delete", "drop", "purge"} => w_call[c].n \in Nat
       /\ w_call[c].at = "delete" => w_call[c].n = 1

\* A post is counted once, by one request; so is the contributor.
Bumps(c, p) == w_call[c].at = "bump" /\ w_call[c].post = p
CountedOnce ==
  /\ \A p \in Wall!Posts :
       /\ w_ups[p] <= 1
       /\ w_post[p].at = "none" => w_ups[p] = 0
       /\ \A c \in Calls : Bumps(c, p) =>
            w_ups[p] = 0 /\ w_post[p].at # "none" /\ \A o \in Calls : Bumps(o, p) => o = c
  /\ w_contrib <= 1 /\ (~w_row => w_contrib = 0)
  /\ \A c \in Calls : w_call[c].at = "contributor" =>
       w_row /\ w_contrib = 0 /\ \A o \in Calls : w_call[o].at = "contributor" => o = c

\* What the counter still lacks, and the posts each request is to take off it.
Uncounted == {p \in Wall!Posts : \E c \in Calls : Bumps(c, p)}
Owes(D) ==
  /\ \A c \in Calls : IF w_call[c].at = "drop" THEN Cardinality(D[c]) = w_call[c].n ELSE D[c] = {}
  /\ \A c \in Calls : \A p \in D[c] :
       w_post[p].at = "deleted" /\ \A o \in Calls : p \in D[o] => o = c
  /\ w_count + Cardinality(Uncounted) = Cardinality(Wall!Live \cup UNION {D[c] : c \in Calls})
Balanced == w_askew \/ \E D \in [Calls -> SUBSET Wall!Posts] : Owes(D)

\* A like that stands or was taken back is paid or about to be.
Pays(event, p) == \E c \in Calls :
                    w_call[c].at = "award" /\ w_call[c].award = event /\ w_call[c].post = p
Paying ==
  w_unpaid \/ \A p \in Wall!Posts :
    p \in w_liked \/ <<"unlike", p>> \in w_paid \/ Pays("unlike", p) =>
      <<"like", p>> \in w_paid \/ Pays("like", p)

\* Who has read the balance of an account has the ledger's, unless another read
\* it at once.
Mirrored ==
  w_unpaid \/ \A who \in Wall!Accounts \ w_overlap :
    /\ Wall!Reading(who) = {} => w_mirror[who] = Wall!BalanceIn(who, w_paid)
    /\ \A c \in Wall!Reading(who) :
         w_call[c].n = Wall!BalanceIn(who, w_paid) /\ Wall!Reading(who) = {c}

\* A notice is on its way only where none was.
Tells(c, p) == w_call[c].at = "tell" /\ w_call[c].post = p
NoticesTold ==
  \A p \in Wall!Posts \ w_doubled :
    /\ w_notices[p] <= 1
    /\ \A c \in Calls : Tells(c, p) => w_notices[p] = 0 /\ \A o \in Calls : Tells(o, p) => o = c

WallInv == WallShape /\ CountedOnce /\ Balanced /\ Paying /\ Mirrored /\ NoticesTold

LEMMA NoRequest ==
  /\ Wall!NoCall \in Request /\ Wall!NoCall.at = "idle" /\ Wall!NoCall.award = "none" /\ Wall!NoCall.post = 0
  /\ Wall!NoCall.n = 0 /\ Wall!NoCall.was = FALSE
  BY DEF Wall!NoCall, Request, Wall!Steps

LEMMA PostsFinite == \A S \in SUBSET Wall!Posts : IsFiniteSet(S) /\ Cardinality(S) \in Nat
  <1>1. IsFiniteSet(Wall!Posts)
    BY FS_Interval, ServicesAssumption DEF Wall!Posts
  <1> QED
    BY <1>1, FS_Subset, FS_CardinalityType

\* What the request at a record has to have.
Fits(v) ==
  /\ v.at \in OnPost => v.post \in Wall!Posts
  /\ v.at = "award" => v.award \in Awarding
  /\ v.at = "contributor" => v.award = "post"
  /\ v.at = "cache" => v.award # "none"
  /\ v.at \in {"delete", "drop", "purge"} => v.n \in Nat
  /\ v.at = "delete" => v.n = 1

\* One request moves: which of the sets the others are counted in stay the same.
LEMMA RequestMoves ==
  ASSUME WallShape, NEW c \in Calls, NEW v \in Request, Fits(v), w_call' = [w_call EXCEPT ![c] = v]
  PROVE  /\ w_call' \in [Calls -> Request]
         /\ \A o \in Calls : w_call'[o] = IF o = c THEN v ELSE w_call[o]
         /\ \A o \in Calls : Fits(w_call'[o])
         /\ v.at # "bump" /\ w_call[c].at # "bump" => \A o \in Calls, p \in Wall!Posts : Bumps(o, p)' <=> Bumps(o, p)
         /\ v.at # "award" /\ w_call[c].at # "award" => \A e \in Awarding, p \in Wall!Posts : Pays(e, p)' <=> Pays(e, p)
         /\ v.at # "tell" /\ w_call[c].at # "tell" => \A o \in Calls, p \in Wall!Posts : Tells(o, p)' <=> Tells(o, p)
  <1>1. /\ w_call' \in [Calls -> Request]
        /\ \A o \in Calls : w_call'[o] = IF o = c THEN v ELSE w_call[o]
    BY DEF WallShape
  <1>2. \A o \in Calls : Fits(w_call'[o])
    BY <1>1 DEF WallShape, Fits
  <1> QED
    BY <1>1, <1>2 DEF Bumps, Pays, Tells

LEMMA CountedKept ==
  ASSUME WallInv, UNCHANGED <<w_ups, w_contrib, w_row>>,
         \A p \in Wall!Posts : w_post'[p].at = "none" => w_post[p].at = "none",
         \A o \in Calls, p \in Wall!Posts : Bumps(o, p)' => Bumps(o, p),
         \A o \in Calls : w_call'[o].at = "contributor" => w_call[o].at = "contributor"
  PROVE  CountedOnce'
  BY DEF WallInv, CountedOnce

LEMMA BalancedKept ==
  ASSUME WallInv, w_askew => w_askew', w_count' = w_count, Wall!Live' = Wall!Live,
         \A p \in Wall!Posts : w_post[p].at = "deleted" => w_post'[p].at = "deleted",
         \A o \in Calls, p \in Wall!Posts : Bumps(o, p)' <=> Bumps(o, p),
         \A o \in Calls : w_call'[o].at = "drop" <=> w_call[o].at = "drop",
         \A o \in Calls : w_call[o].at = "drop" => w_call'[o].n = w_call[o].n
  PROVE  Balanced'
  <1>1. CASE w_askew
    BY <1>1 DEF Balanced
  <1>2. ASSUME NEW D \in [Calls -> SUBSET Wall!Posts], Owes(D) PROVE Balanced'
    <2>1. Uncounted' = Uncounted
      BY DEF Uncounted
    <2>2. \A o \in Calls : IF w_call'[o].at = "drop" THEN Cardinality(D[o]) = w_call'[o].n ELSE D[o] = {}
      BY <1>2 DEF Owes
    <2>3. \A o \in Calls : \A p \in D[o] : w_post'[p].at = "deleted" /\ \A q \in Calls : p \in D[q] => q = o
      BY <1>2 DEF Owes
    <2>4. w_count' + Cardinality(Uncounted') = Cardinality(Wall!Live' \cup UNION {D[o] : o \in Calls})
      BY <2>1, <1>2 DEF Owes
    <2>5. Owes(D)'
      BY <2>2, <2>3, <2>4 DEF Owes
    <2> QED
      BY <2>5 DEF Balanced
  <1> QED
    BY <1>1, <1>2 DEF WallInv, Balanced

LEMMA PayingKept ==
  ASSUME WallInv, w_unpaid => w_unpaid', UNCHANGED <<w_liked, w_paid>>,
         \A e \in Awarding, p \in Wall!Posts : Pays(e, p)' <=> Pays(e, p)
  PROVE  Paying'
  BY DEF WallInv, Paying, Awarding

LEMMA MirroredKept ==
  ASSUME WallInv, w_unpaid => w_unpaid', UNCHANGED <<w_mirror, w_paid>>, w_overlap \subseteq w_overlap',
         \A o \in Calls : w_call'[o].at = "cache" <=> w_call[o].at = "cache",
         \A o \in Calls : w_call[o].at = "cache" =>
           w_call'[o].n = w_call[o].n /\ w_call'[o].award = w_call[o].award
  PROVE  Mirrored'
  <1>1. \A who \in Wall!Accounts : Wall!Reading(who)' = Wall!Reading(who)
    BY DEF Wall!Reading, Wall!Payee
  <1>2. \A who \in Wall!Accounts : \A c \in Wall!Reading(who) : w_call'[c].n = w_call[c].n
    BY DEF Wall!Reading
  <1> QED
    BY <1>1, <1>2 DEF WallInv, Mirrored

LEMMA ToldKept ==
  ASSUME WallInv, w_notices' = w_notices, w_doubled \subseteq w_doubled',
         \A o \in Calls, p \in Wall!Posts : Tells(o, p)' => Tells(o, p)
  PROVE  NoticesTold'
  BY DEF WallInv, NoticesTold

-----------------------------------------------------------------------------
Beginning == {"create", "delete", "purge", "like", "edit"}

\* A request arrives.
LEMMA ArriveSteps ==
  ASSUME WallInv, NEW c \in Calls,
         \/ Wall!PurgeAuthor(c)
         \/ \E p \in Wall!Posts : Wall!Create(c, p) \/ Wall!Delete(c, p) \/ Wall!Update(c, p)
         \/ \E p \in Wall!Posts, on \in BOOLEAN : Wall!SetLike(c, p, on)
  PROVE  WallInv'
  <1>1. PICK v \in Request : Wall!Begin(c, v) /\ Fits(v) /\ v.at \in Beginning
    <2>1. CASE Wall!PurgeAuthor(c)
      <3>1. PICK k \in Nat : k = Wall!Cardinality(Wall!Visible)
        <4>1. Cardinality(Wall!Visible) \in Nat
          BY PostsFinite DEF Wall!Visible
        <4> QED
          BY <4>1 DEF Cardinality, Wall!Cardinality
      <3> DEFINE v == [Wall!NoCall EXCEPT !.at = "purge", !.n = k]
      <3>2. v \in Request /\ v.at = "purge" /\ v.n = k
        <4>1. \A s \in Wall!Steps, m \in Int :
                LET w == [Wall!NoCall EXCEPT !.at = s, !.n = m] IN w \in Request /\ w.at = s /\ w.n = m
          BY NoRequest DEF Request
        <4>2. "purge" \in Wall!Steps /\ k \in Int
          BY DEF Wall!Steps
        <4> QED
          BY <4>1, <4>2
      <3>3. Wall!Begin(c, v)
        BY <2>1, <3>1 DEF Wall!PurgeAuthor
      <3> HIDE DEF v
      <3> QED
        BY <3>2, <3>3 DEF Fits, OnPost, Beginning
    <2>3. ASSUME NEW p \in Wall!Posts, Wall!Create(c, p)
          PROVE  \E v \in Request : Wall!Begin(c, v) /\ Fits(v) /\ v.at \in Beginning
      <3> DEFINE v == [Wall!NoCall EXCEPT !.at = "create", !.post = p]
      <3>2. v \in Request /\ Fits(v) /\ v.at \in Beginning
        BY NoRequest DEF Request, Wall!Steps, Fits, OnPost, Beginning
      <3>3. Wall!Begin(c, v)
        BY <2>3 DEF Wall!Create
      <3> HIDE DEF v
      <3> QED
        BY <3>2, <3>3
    <2>4. ASSUME NEW p \in Wall!Posts, Wall!Delete(c, p)
          PROVE  \E v \in Request : Wall!Begin(c, v) /\ Fits(v) /\ v.at \in Beginning
      <3> DEFINE v == [Wall!NoCall EXCEPT !.at = "delete", !.post = p, !.n = 1]
      <3>2. v \in Request /\ Fits(v) /\ v.at \in Beginning
        <4>1. v \in Request /\ v.at = "delete" /\ v.n = 1 /\ v.post = p
          <5>1. \A s \in Wall!Steps, m \in Int :
                  LET w == [Wall!NoCall EXCEPT !.at = s, !.post = p, !.n = m] IN
                    w \in Request /\ w.at = s /\ w.n = m /\ w.post = p
            BY NoRequest DEF Request
          <5>2. "delete" \in Wall!Steps /\ 1 \in Int
            BY DEF Wall!Steps
          <5> QED
            BY <5>1, <5>2
        <4> HIDE DEF v
        <4> QED
          BY <4>1 DEF Fits, OnPost, Beginning
      <3>3. Wall!Begin(c, v)
        BY <2>4 DEF Wall!Delete
      <3> HIDE DEF v
      <3> QED
        BY <3>2, <3>3
    <2>5. ASSUME NEW p \in Wall!Posts, Wall!Update(c, p)
          PROVE  \E v \in Request : Wall!Begin(c, v) /\ Fits(v) /\ v.at \in Beginning
      <3> DEFINE v == [Wall!NoCall EXCEPT !.at = "edit", !.post = p, !.was = w_post[p].mentions]
      <3>1. w_post[p].mentions \in BOOLEAN
        BY DEF WallInv, WallShape
      <3>2. v \in Request /\ Fits(v) /\ v.at \in Beginning
        BY NoRequest, <3>1 DEF Request, Wall!Steps, Fits, OnPost, Beginning
      <3>3. Wall!Begin(c, v)
        BY <2>5 DEF Wall!Update
      <3> HIDE DEF v
      <3> QED
        BY <3>2, <3>3
    <2>6. ASSUME NEW p \in Wall!Posts, NEW on \in BOOLEAN, Wall!SetLike(c, p, on)
          PROVE  \E v \in Request : Wall!Begin(c, v) /\ Fits(v) /\ v.at \in Beginning
      <3> DEFINE v == [Wall!NoCall EXCEPT !.at = "like", !.post = p, !.was = on]
      <3>2. v \in Request /\ Fits(v) /\ v.at \in Beginning
        BY NoRequest DEF Request, Wall!Steps, Fits, OnPost, Beginning
      <3>3. Wall!Begin(c, v)
        BY <2>6 DEF Wall!SetLike
      <3> HIDE DEF v
      <3> QED
        BY <3>2, <3>3
    <2> QED
      BY <2>1, <2>3, <2>4, <2>5, <2>6
  <1>2. /\ w_call[c].at = "idle" /\ w_call' = [w_call EXCEPT ![c] = v]
        /\ UNCHANGED <<w_post, w_liked, w_paid, w_count, w_row, w_contrib, w_notices, w_mirror,
                       w_ups, w_askew, w_unpaid, w_overlap, w_doubled>>
    BY <1>1, NoRequest DEF Wall!Begin, Wall!community, Wall!ours, Wall!history
  <1>3. /\ w_call' \in [Calls -> Request]
        /\ \A o \in Calls : w_call'[o] = IF o = c THEN v ELSE w_call[o]
        /\ \A o \in Calls : Fits(w_call'[o])
        /\ \A o \in Calls, p \in Wall!Posts : (Bumps(o, p)' <=> Bumps(o, p)) /\ (Tells(o, p)' <=> Tells(o, p))
        /\ \A e \in Awarding, p \in Wall!Posts : Pays(e, p)' <=> Pays(e, p)
    BY <1>1, <1>2, RequestMoves DEF WallInv, Beginning
  <1>4. WallShape'
    BY <1>2, <1>3 DEF WallInv, WallShape, Fits
  <1>5. CountedOnce' /\ Balanced' /\ Paying' /\ Mirrored' /\ NoticesTold'
    BY <1>1, <1>2, <1>3, CountedKept, BalancedKept, PayingKept, MirroredKept, ToldKept DEF Wall!Live, Beginning
  <1> QED
    BY <1>4, <1>5 DEF WallInv

\* A request goes on, or is answered.
LEMMA GoesTo ==
  ASSUME WallShape, NEW c \in Calls, NEW s \in Wall!Steps, Wall!Goes(c, s)
  PROVE  \E v \in Request : /\ w_call' = [w_call EXCEPT ![c] = v] /\ v.at = s
                            /\ v.post = w_call[c].post /\ v.n = w_call[c].n /\ v.award = w_call[c].award
  <1> DEFINE v == [w_call[c] EXCEPT !.at = s]
  <1>1. w_call[c] \in Request
    BY DEF WallShape
  <1>2. /\ v \in Request /\ v.at = s
        /\ v.post = w_call[c].post /\ v.n = w_call[c].n /\ v.award = w_call[c].award
    BY <1>1 DEF Request
  <1>3. w_call' = [w_call EXCEPT ![c] = v]
    BY DEF Wall!Goes
  <1> HIDE DEF v
  <1> QED
    BY <1>2, <1>3

LEMMA GoesOnOrEnds ==
  ASSUME WallShape, NEW c \in Calls, NEW s \in Wall!Steps, Wall!Goes(c, s) \/ Wall!Answered(c)
  PROVE  \E v \in Request :
           /\ w_call' = [w_call EXCEPT ![c] = v]
           /\ v.at = s \/ v = Wall!NoCall
           /\ v # Wall!NoCall =>
                v.post = w_call[c].post /\ v.n = w_call[c].n /\ v.award = w_call[c].award
           /\ Wall!Goes(c, s) => v.at = s /\ v.post = w_call[c].post /\ v.n = w_call[c].n
  <1>1. CASE Wall!Goes(c, s)
    BY <1>1, GoesTo
  <1>2. CASE Wall!Answered(c) /\ ~Wall!Goes(c, s)
    BY <1>2, NoRequest DEF Wall!Answered
  <1> QED
    BY <1>1, <1>2

\* What the counters and awards rest on is left alone by whoever only edits.
LEMMA EditSteps ==
  ASSUME WallInv, NEW c \in Calls, NEW m \in BOOLEAN, NEW moderator \in BOOLEAN,
         Wall!EditPost(c, m, moderator)
  PROVE  WallInv'
  <1>1. PICK v \in Request : /\ w_call' = [w_call EXCEPT ![c] = v] /\ (v.at = "look" \/ v = Wall!NoCall)
                             /\ v # Wall!NoCall => v.post = w_call[c].post
    BY GoesOnOrEnds DEF Wall!EditPost, WallInv, Wall!Steps
  <1>2. /\ w_call[c].at = "edit" /\ w_call[c].post \in Wall!Posts
        /\ UNCHANGED <<w_liked, w_paid, w_count, w_row, w_contrib, w_notices, w_mirror,
                       w_ups, w_askew, w_unpaid, w_overlap, w_doubled>>
        /\ \/ w_post' = w_post
           \/ /\ w_call[c].post \in Wall!Visible
              /\ w_post' = [w_post EXCEPT ![w_call[c].post].mentions = m]
    BY DEF Wall!EditPost, Wall!ours, Wall!history, WallInv, WallShape, OnPost
  <1>3. Fits(v) /\ v.at \in {"look", "idle"}
    BY <1>1, <1>2, NoRequest DEF Fits, OnPost
  <1>4. /\ w_call' \in [Calls -> Request]
        /\ \A o \in Calls : w_call'[o] = IF o = c THEN v ELSE w_call[o]
        /\ \A o \in Calls : Fits(w_call'[o])
        /\ \A o \in Calls, p \in Wall!Posts : (Bumps(o, p)' <=> Bumps(o, p)) /\ (Tells(o, p)' <=> Tells(o, p))
        /\ \A e \in Awarding, p \in Wall!Posts : Pays(e, p)' <=> Pays(e, p)
    BY <1>1, <1>2, <1>3, RequestMoves DEF WallInv
  <1>5. /\ \A p \in Wall!Posts : w_post'[p].at = w_post[p].at
        /\ w_post' \in [Wall!Posts -> [at : {"none", "visible", "held", "deleted"}, mentions : BOOLEAN]]
        /\ \A p \in Wall!Posts : w_post'[p].at = "none" => w_post'[p] = Wall!NoPost
    <2>1. /\ w_post \in [Wall!Posts -> [at : {"none", "visible", "held", "deleted"}, mentions : BOOLEAN]]
          /\ \A p \in Wall!Posts : w_post[p].at = "none" => w_post[p] = Wall!NoPost
      BY DEF WallInv, WallShape
    <2>2. ASSUME NEW q \in Wall!Visible, w_post' = [w_post EXCEPT ![q].mentions = m]
          PROVE  /\ \A p \in Wall!Posts : w_post'[p].at = w_post[p].at
                 /\ w_post' \in [Wall!Posts -> [at : {"none", "visible", "held", "deleted"}, mentions : BOOLEAN]]
                 /\ \A p \in Wall!Posts : w_post'[p].at = "none" => w_post'[p] = Wall!NoPost
      BY <2>1, <2>2 DEF Wall!Visible
    <2>3. CASE w_post' = w_post
      BY <2>1, <2>3
    <2> QED
      BY <1>2, <2>2, <2>3
  <1>6. Wall!Live' = Wall!Live
    BY <1>5 DEF Wall!Live
  <1>7. WallShape'
    BY <1>2, <1>4, <1>5 DEF WallInv, WallShape, Fits
  <1>8. CountedOnce' /\ Paying' /\ Mirrored' /\ NoticesTold'
    BY <1>2, <1>3, <1>4, <1>5, CountedKept, PayingKept, MirroredKept, ToldKept
  <1>9. Balanced'
    BY <1>2, <1>3, <1>4, <1>5, <1>6, BalancedKept
  <1> QED
    BY <1>7, <1>8, <1>9 DEF WallInv

LEMMA FlagSteps ==
  ASSUME WallInv, NEW p \in Wall!Posts, Wall!Flagged(p)
  PROVE  WallInv'
  <1>1. /\ UNCHANGED <<w_liked, w_paid, w_count, w_row, w_contrib, w_notices, w_mirror, w_call,
                       w_ups, w_askew, w_unpaid, w_overlap, w_doubled>>
        /\ p \in Wall!Live
        /\ \E s \in {"visible", "held"} : w_post' = [w_post EXCEPT ![p].at = s]
    BY DEF Wall!Flagged, Wall!ours, Wall!history
  <1>2. /\ w_post' \in [Wall!Posts -> [at : {"none", "visible", "held", "deleted"}, mentions : BOOLEAN]]
        /\ \A q \in Wall!Posts :
             IF q = p THEN w_post[q].at \in {"visible", "held"} /\ w_post'[q].at \in {"visible", "held"}
             ELSE w_post'[q] = w_post[q]
    BY <1>1 DEF WallInv, WallShape, Wall!Live
  <1>3. Wall!Live' = Wall!Live
    BY <1>2 DEF Wall!Live
  <1>4. WallShape'
    BY <1>1, <1>2 DEF WallInv, WallShape
  <1>5. /\ \A o \in Calls, q \in Wall!Posts : (Bumps(o, q)' <=> Bumps(o, q)) /\ (Tells(o, q)' <=> Tells(o, q))
        /\ \A e \in Awarding, q \in Wall!Posts : Pays(e, q)' <=> Pays(e, q)
    BY <1>1 DEF Bumps, Tells, Pays
  <1>6. CountedOnce' /\ Balanced' /\ Paying' /\ Mirrored' /\ NoticesTold'
    BY <1>1, <1>2, <1>3, <1>5, CountedKept, BalancedKept, PayingKept, MirroredKept, ToldKept
  <1> QED
    BY <1>4, <1>6 DEF WallInv

\* A post is written once for its press, and by one request.
LEMMA WriteSteps ==
  ASSUME WallInv, NEW c \in Calls, NEW status \in {"visible", "held"}, NEW m \in BOOLEAN,
         Wall!CommentOnAnchor(c, status, m)
  PROVE  WallInv'
  <1>0. PICK p : p = w_call[c].post
    OBVIOUS
  <1>1. /\ p \in Wall!Posts /\ w_call[c].at = "create" /\ w_askew \in BOOLEAN
        /\ UNCHANGED <<w_liked, w_paid, w_count, w_row, w_contrib, w_notices, w_mirror,
                       w_ups, w_unpaid, w_overlap, w_doubled>>
    BY <1>0 DEF Wall!CommentOnAnchor, Wall!ours, WallInv, WallShape, OnPost
  <1>2. PICK v \in Request :
          /\ w_call' = [w_call EXCEPT ![c] = v]
          /\ v = Wall!NoCall \/ (v.at = "bump" /\ v.post = p)
          /\ \/ w_post' = w_post /\ v = Wall!NoCall /\ w_askew' = w_askew
             \/ /\ w_post[p] = Wall!NoPost /\ w_post' = [w_post EXCEPT ![p] = [at |-> status, mentions |-> m]]
                /\ (v.at = "bump" /\ v.post = p /\ w_askew' = w_askew) \/ w_askew' = TRUE
    <2>1. "bump" \in Wall!Steps
      BY DEF Wall!Steps
    <2>2. CASE Wall!Goes(c, "bump")
      <3>1. PICK v \in Request : w_call' = [w_call EXCEPT ![c] = v] /\ v.at = "bump" /\ v.post = p
        BY <2>1, <2>2, <1>0, GoesTo DEF WallInv
      <3>2. ~Wall!Answered(c)
        <4>1. w_call'[c] = v
          BY <3>1 DEF WallInv, WallShape
        <4> QED
          BY <4>1, <3>1, NoRequest DEF Wall!Answered, WallInv, WallShape
      <3>3. /\ w_post[p] = Wall!NoPost /\ w_askew' = w_askew
            /\ w_post' = [w_post EXCEPT ![p] = [at |-> status, mentions |-> m]]
        BY <3>2, <1>0 DEF Wall!CommentOnAnchor
      <3> QED
        BY <3>1, <3>3
    <2>3. CASE ~Wall!Goes(c, "bump")
      <3>1. Wall!NoCall \in Request /\ w_call' = [w_call EXCEPT ![c] = Wall!NoCall]
        BY <2>3, NoRequest DEF Wall!CommentOnAnchor, Wall!Answered
      <3>2. \/ w_post' = w_post /\ w_askew' = w_askew
            \/ /\ w_post[p] = Wall!NoPost /\ w_post' = [w_post EXCEPT ![p] = [at |-> status, mentions |-> m]]
               /\ w_askew' = TRUE
        BY <2>3, <1>0 DEF Wall!CommentOnAnchor
      <3> QED
        BY <3>1, <3>2
    <2> QED
      BY <2>2, <2>3
  <1>3. Fits(v) /\ v.at \in {"bump", "idle"}
    BY <1>1, <1>2, NoRequest DEF Fits, OnPost
  <1>4. /\ w_call' \in [Calls -> Request]
        /\ \A o \in Calls : w_call'[o] = IF o = c THEN v ELSE w_call[o]
        /\ \A o \in Calls : Fits(w_call'[o])
        /\ \A o \in Calls, q \in Wall!Posts : Tells(o, q)' <=> Tells(o, q)
        /\ \A e \in Awarding, q \in Wall!Posts : Pays(e, q)' <=> Pays(e, q)
    BY <1>1, <1>2, <1>3, RequestMoves DEF WallInv
  <1>5. \A o \in Calls, q \in Wall!Posts :
          Bumps(o, q)' <=> (o = c /\ q = p /\ v.at = "bump") \/ (o # c /\ Bumps(o, q))
    BY <1>1, <1>2, <1>4, NoRequest DEF Bumps
  <1>6. /\ w_post' \in [Wall!Posts -> [at : {"none", "visible", "held", "deleted"}, mentions : BOOLEAN]]
        /\ \A q \in Wall!Posts : q # p => w_post'[q] = w_post[q]
        /\ w_post' = w_post \/ (w_post[p].at = "none" /\ w_post'[p].at \in {"visible", "held"})
    <2>1. w_post \in [Wall!Posts -> [at : {"none", "visible", "held", "deleted"}, mentions : BOOLEAN]]
      BY DEF WallInv, WallShape
    <2>2. Wall!NoPost.at = "none"
      BY DEF Wall!NoPost
    <2>3. \E n \in [at : {"none", "visible", "held", "deleted"}, mentions : BOOLEAN] :
            n = [at |-> status, mentions |-> m] /\ n.at \in {"visible", "held"}
      <3> DEFINE n == [at |-> status, mentions |-> m]
      <3>1. n \in [at : {"none", "visible", "held", "deleted"}, mentions : BOOLEAN]
        BY Zenon
      <3>2. n.at \in {"visible", "held"}
        BY Zenon
      <3> HIDE DEF n
      <3> WITNESS n \in [at : {"none", "visible", "held", "deleted"}, mentions : BOOLEAN]
      <3> QED
        BY <3>1, <3>2 DEF n
    <2>4. PICK n \in [at : {"none", "visible", "held", "deleted"}, mentions : BOOLEAN] :
            /\ n.at \in {"visible", "held"}
            /\ w_post' = w_post \/ (w_post[p] = Wall!NoPost /\ w_post' = [w_post EXCEPT ![p] = n])
      BY <2>3, <1>2
    <2> QED
      BY <2>1, <2>2, <2>4, <1>1
  <1>7. WallShape'
    <2>1. \A q \in Wall!Posts : w_post'[q].at = "none" => w_post'[q] = Wall!NoPost
      BY <1>1, <1>6 DEF WallInv, WallShape
    <2>2. w_askew' \in BOOLEAN
      BY <1>1, <1>2
    <2> QED
      BY <1>1, <1>4, <1>6, <2>1, <2>2 DEF WallInv, WallShape, Fits
  <1>8. Paying' /\ Mirrored' /\ NoticesTold'
    BY <1>1, <1>3, <1>4, PayingKept, MirroredKept, ToldKept
  <1>9. CountedOnce'
    <2>1. \A q \in Wall!Posts : w_post'[q].at = "none" => w_post[q].at = "none"
      BY <1>6, <1>1
    <2>2. v.at = "bump" => w_post[p].at = "none" /\ w_post'[p].at # "none"
      <3>1. v.at = "bump" => w_post[p] = Wall!NoPost /\ w_post' = [w_post EXCEPT ![p] = [at |-> status, mentions |-> m]]
        BY <1>2, NoRequest
      <3>2. v.at = "bump" => w_post[p].at = "none"
        BY <3>1 DEF Wall!NoPost
      <3>3. v.at = "bump" => w_post'[p].at = status
        BY <3>1, <1>1 DEF WallInv, WallShape
      <3> QED
        BY <3>2, <3>3
    <2>3. \A q \in Wall!Posts :
            /\ w_ups'[q] <= 1 /\ (w_post'[q].at = "none" => w_ups'[q] = 0)
            /\ \A o \in Calls : Bumps(o, q)' =>
                 w_ups'[q] = 0 /\ w_post'[q].at # "none" /\ \A x \in Calls : Bumps(x, q)' => x = o
      BY <2>1, <2>2, <1>1, <1>5 DEF WallInv, CountedOnce
    <2>4. \A o \in Calls : w_call'[o].at = "contributor" => w_call[o].at = "contributor"
      BY <1>3, <1>4
    <2> QED
      BY <2>3, <2>4, <1>1 DEF WallInv, CountedOnce
  <1>10. Balanced'
    <2>1. CASE w_post' = w_post /\ v = Wall!NoCall /\ w_askew' = w_askew
      <3>1. \A o \in Calls, q \in Wall!Posts : Bumps(o, q)' <=> Bumps(o, q)
        BY <2>1, <1>1, <1>5, NoRequest DEF Bumps
      <3>2. Wall!Live' = Wall!Live
        BY <2>1 DEF Wall!Live
      <3> QED
        BY <2>1, <3>1, <3>2, <1>1, <1>3, <1>4, BalancedKept
    <2>2. CASE w_askew'
      BY <2>2 DEF Balanced
    <2>3. CASE w_post[p] = Wall!NoPost /\ v.at = "bump" /\ ~w_askew /\ ~w_askew'
      <3>1. PICK D \in [Calls -> SUBSET Wall!Posts] : Owes(D)
        BY <2>3 DEF WallInv, Balanced
      <3>2. w_post[p].at = "none" /\ w_post'[p].at \in {"visible", "held"}
        <4>1. w_post' = [w_post EXCEPT ![p] = [at |-> status, mentions |-> m]]
          BY <2>3, <1>2, NoRequest
        <4>2. w_post[p].at = "none"
          BY <2>3 DEF Wall!NoPost
        <4>3. w_post'[p].at = status
          BY <4>1, <1>1 DEF WallInv, WallShape
        <4> QED
          BY <4>2, <4>3
      <3>3. Wall!Live' = Wall!Live \cup {p} /\ p \notin Wall!Live
        BY <3>2, <1>1, <1>6 DEF Wall!Live
      <3>4. p \notin UNION {D[o] : o \in Calls}
        BY <3>1, <3>2 DEF Owes
      <3>5. Uncounted' = Uncounted \cup {p} /\ p \notin Uncounted
        BY <3>2, <2>3, <1>1, <1>5 DEF Uncounted, WallInv, CountedOnce, Bumps
      <3> DEFINE A == Wall!Live \cup UNION {D[o] : o \in Calls}
      <3>6. A \in SUBSET Wall!Posts /\ Uncounted \in SUBSET Wall!Posts
        BY DEF Wall!Live, Uncounted
      <3>7. /\ Cardinality(A \cup {p}) = Cardinality(A) + 1
            /\ Cardinality(Uncounted \cup {p}) = Cardinality(Uncounted) + 1
        BY <3>3, <3>4, <3>5, <3>6, PostsFinite, FS_AddElement
      <3>8. Wall!Live' \cup UNION {D[o] : o \in Calls} = A \cup {p}
        BY <3>3
      <3>9. w_count' + Cardinality(Uncounted') = Cardinality(Wall!Live' \cup UNION {D[o] : o \in Calls})
        <4>1. w_count \in Nat /\ Cardinality(A) \in Nat /\ Cardinality(Uncounted) \in Nat
          BY <3>6, PostsFinite DEF WallInv, WallShape
        <4>2. w_count + Cardinality(Uncounted) = Cardinality(A)
          BY <3>1 DEF Owes
        <4> HIDE DEF A
        <4>3. w_count' = w_count
          BY <1>1
        <4>4. Cardinality(Uncounted') = Cardinality(Uncounted) + 1
          BY <3>5, <3>7
        <4>5. Cardinality(Wall!Live' \cup UNION {D[o] : o \in Calls}) = Cardinality(A) + 1
          BY <3>7, <3>8
        <4> QED
          BY <4>1, <4>2, <4>3, <4>4, <4>5
      <3>10. \A o \in Calls : IF w_call'[o].at = "drop" THEN Cardinality(D[o]) = w_call'[o].n ELSE D[o] = {}
        BY <3>1, <1>1, <1>3, <1>4 DEF Owes
      <3>11. \A o \in Calls : \A q \in D[o] : w_post'[q].at = "deleted" /\ \A x \in Calls : q \in D[x] => x = o
        BY <3>1, <3>2, <1>6 DEF Owes
      <3>12. Owes(D)'
        BY <3>9, <3>10, <3>11 DEF Owes
      <3> QED
        BY <3>12 DEF Balanced
    <2> QED
      BY <2>1, <2>2, <2>3, <1>1, <1>2
  <1> QED
    BY <1>7, <1>8, <1>9, <1>10 DEF WallInv

\* The counter goes up for the post that was written, once.
LEMMA BumpSteps ==
  ASSUME WallInv, NEW c \in Calls, Wall!Bump(c)
  PROVE  WallInv'
  <1>0. PICK p : p = w_call[c].post
    OBVIOUS
  <1>1. /\ p \in Wall!Posts /\ w_call[c].at = "bump" /\ Bumps(c, p)
        /\ UNCHANGED <<w_post, w_liked, w_paid, w_contrib, w_row, w_notices, w_mirror,
                       w_askew, w_unpaid, w_overlap, w_doubled>>
        /\ w_count' = w_count + 1 /\ w_ups' = [w_ups EXCEPT ![p] = @ + 1]
    BY <1>0 DEF Wall!Bump, Wall!community, WallInv, WallShape, OnPost, Bumps
  <1>2. PICK v \in Request : w_call' = [w_call EXCEPT ![c] = v] /\ v.at = "row" /\ v.post = p
    BY <1>0, GoesTo DEF Wall!Bump, Wall!Steps, WallInv
  <1>3. Fits(v)
    BY <1>1, <1>2 DEF Fits, OnPost
  <1>4. /\ w_call' \in [Calls -> Request]
        /\ \A o \in Calls : w_call'[o] = IF o = c THEN v ELSE w_call[o]
        /\ \A o \in Calls : Fits(w_call'[o])
        /\ \A o \in Calls, q \in Wall!Posts : Tells(o, q)' <=> Tells(o, q)
        /\ \A e \in Awarding, q \in Wall!Posts : Pays(e, q)' <=> Pays(e, q)
    BY <1>1, <1>2, <1>3, RequestMoves DEF WallInv
  <1>5. \A o \in Calls, q \in Wall!Posts : Bumps(o, q)' <=> (o # c /\ Bumps(o, q))
    BY <1>1, <1>2, <1>4 DEF Bumps
  <1>6. \A q \in Wall!Posts : w_ups'[q] = IF q = p THEN w_ups[q] + 1 ELSE w_ups[q]
    BY <1>1 DEF WallInv, WallShape
  <1>7. /\ w_ups[p] = 0 /\ w_post[p].at # "none" /\ \A o \in Calls : Bumps(o, p) => o = c
    BY <1>1 DEF WallInv, CountedOnce
  <1>8. WallShape'
    <2>1. w_ups' \in [Wall!Posts -> Nat] /\ w_count' \in Nat
      BY <1>1 DEF WallInv, WallShape
    <2> QED
      BY <1>1, <1>4, <2>1 DEF WallInv, WallShape, Fits
  <1>9. CountedOnce'
    <2>1. \A q \in Wall!Posts :
            /\ w_ups'[q] <= 1 /\ (w_post'[q].at = "none" => w_ups'[q] = 0)
            /\ \A o \in Calls : Bumps(o, q)' =>
                 w_ups'[q] = 0 /\ w_post'[q].at # "none" /\ \A x \in Calls : Bumps(x, q)' => x = o
      BY <1>1, <1>5, <1>6, <1>7 DEF WallInv, CountedOnce
    <2>2. \A o \in Calls : w_call'[o].at = "contributor" => w_call[o].at = "contributor"
      BY <1>2, <1>4
    <2> QED
      BY <2>1, <2>2, <1>1 DEF WallInv, CountedOnce
  <1>10. Paying' /\ Mirrored' /\ NoticesTold'
    BY <1>1, <1>2, <1>4, PayingKept, MirroredKept, ToldKept
  <1>11. Balanced'
    <2>1. CASE w_askew
      BY <2>1, <1>1 DEF Balanced
    <2>2. ASSUME NEW D \in [Calls -> SUBSET Wall!Posts], Owes(D) PROVE Balanced'
      <3>1. Uncounted = Uncounted' \cup {p} /\ p \notin Uncounted'
        <4>1. p \in Uncounted
          BY <1>1 DEF Uncounted
        <4>2. p \notin Uncounted'
          BY <1>1, <1>5, <1>7 DEF Uncounted
        <4>3. \A q \in Wall!Posts : q # p => (q \in Uncounted <=> q \in Uncounted')
          <5> SUFFICES ASSUME NEW q \in Wall!Posts, q # p PROVE q \in Uncounted <=> q \in Uncounted'
            OBVIOUS
          <5>1. ~Bumps(c, q)
            BY <1>0 DEF Bumps
          <5>2. \A o \in Calls : Bumps(o, q)' <=> Bumps(o, q)
            BY <1>5, <5>1
          <5> QED
            BY <5>2 DEF Uncounted
        <4>4. Uncounted \subseteq Wall!Posts /\ Uncounted' \subseteq Wall!Posts
          BY DEF Uncounted, Wall!Posts
        <4> QED
          BY <4>1, <4>2, <4>3, <4>4
      <3>2. Cardinality(Uncounted) = Cardinality(Uncounted') + 1 /\ Cardinality(Uncounted') \in Nat
        <4>1. Uncounted' \in SUBSET Wall!Posts
          BY <3>1 DEF Uncounted
        <4> QED
          BY <3>1, <4>1, PostsFinite, FS_AddElement
      <3>3. w_count' + Cardinality(Uncounted') = w_count + Cardinality(Uncounted)
        BY <3>2, <1>1 DEF WallInv, WallShape
      <3>4. Wall!Live' = Wall!Live
        BY <1>1 DEF Wall!Live
      <3>5. w_count' + Cardinality(Uncounted') = Cardinality(Wall!Live' \cup UNION {D[o] : o \in Calls})
        BY <2>2, <3>3, <3>4 DEF Owes
      <3>6. \A o \in Calls : IF w_call'[o].at = "drop" THEN Cardinality(D[o]) = w_call'[o].n ELSE D[o] = {}
        BY <2>2, <1>1, <1>2, <1>4 DEF Owes
      <3>7. \A o \in Calls : \A q \in D[o] : w_post'[q].at = "deleted" /\ \A x \in Calls : q \in D[x] => x = o
        BY <2>2, <1>1 DEF Owes
      <3>8. Owes(D)'
        BY <3>5, <3>6, <3>7 DEF Owes
      <3> QED
        BY <3>8 DEF Balanced
    <2> QED
      BY <2>1, <2>2 DEF WallInv, Balanced
  <1> QED
    BY <1>8, <1>9, <1>10, <1>11 DEF WallInv

\* The contributor is counted by whoever wrote the row.
LEMMA ContributorSteps ==
  ASSUME WallInv, NEW c \in Calls, Wall!EnsureContributor(c) \/ Wall!CountContributor(c)
  PROVE  WallInv'
  <1>1. PICK v \in Request :
          /\ w_call' = [w_call EXCEPT ![c] = v] /\ v.post = w_call[c].post /\ v.award = "post"
          /\ \/ /\ w_call[c].at = "row" /\ w_row' = TRUE /\ w_contrib' = w_contrib
                /\ v.at = IF w_row THEN "award" ELSE "contributor"
             \/ /\ w_call[c].at = "contributor" /\ w_row' = w_row /\ w_contrib' = w_contrib + 1
                /\ v.at = "award"
    <2>1. CASE Wall!EnsureContributor(c)
      <3>1. \A s \in Wall!Steps : [w_call EXCEPT ![c].at = s, ![c].award = "post"]
              = [w_call EXCEPT ![c] = [w_call[c] EXCEPT !.at = s, !.award = "post"]]
        BY DEF WallInv, WallShape
      <3>2. \A s \in Wall!Steps : LET v == [w_call[c] EXCEPT !.at = s, !.award = "post"] IN
              v \in Request /\ v.at = s /\ v.post = w_call[c].post /\ v.award = "post"
        <4>1. w_call[c] \in Request
          BY DEF WallInv, WallShape
        <4> QED
          BY <4>1 DEF Request, Awarding
      <3>3. PICK s \in Wall!Steps : s = IF w_row THEN "award" ELSE "contributor"
        BY DEF Wall!Steps
      <3>4. w_call' = [w_call EXCEPT ![c].at = s, ![c].award = "post"]
        BY <2>1, <3>3 DEF Wall!EnsureContributor
      <3>5. PICK v \in Request : /\ w_call' = [w_call EXCEPT ![c] = v] /\ v.at = s
                                 /\ v.post = w_call[c].post /\ v.award = "post"
        BY <3>1, <3>2, <3>4
      <3> QED
        BY <2>1, <3>3, <3>5 DEF Wall!EnsureContributor
    <2>2. CASE Wall!CountContributor(c)
      <3>1. w_call[c].award = "post" /\ "award" \in Wall!Steps
        BY <2>2 DEF Wall!CountContributor, WallInv, WallShape, Wall!Steps
      <3> QED
        BY <2>2, <3>1, GoesTo DEF Wall!CountContributor, WallInv
    <2> QED
      BY <2>1, <2>2
  <1>2. UNCHANGED <<w_post, w_liked, w_paid, w_count, w_notices, w_mirror, w_ups,
                    w_askew, w_unpaid, w_overlap, w_doubled>>
    BY DEF Wall!EnsureContributor, Wall!CountContributor, Wall!community, Wall!history
  <1>3. Fits(v) /\ w_call[c].at \in {"row", "contributor"} /\ v.at \in {"award", "contributor"}
    BY <1>1 DEF Fits, OnPost, Awarding, WallInv, WallShape
  <1>4. /\ w_call' \in [Calls -> Request]
        /\ \A o \in Calls : w_call'[o] = IF o = c THEN v ELSE w_call[o]
        /\ \A o \in Calls : Fits(w_call'[o])
        /\ \A o \in Calls, q \in Wall!Posts : (Bumps(o, q)' <=> Bumps(o, q)) /\ (Tells(o, q)' <=> Tells(o, q))
    BY <1>1, <1>3, RequestMoves DEF WallInv
  <1>5. \A e \in {"like", "unlike"}, q \in Wall!Posts : Pays(e, q)' <=> Pays(e, q)
    BY <1>1, <1>3, <1>4 DEF Pays
  <1>6. WallShape'
    <2>1. w_row \in BOOLEAN /\ w_contrib \in Nat
      BY DEF WallInv, WallShape
    <2>2. w_row' \in BOOLEAN
      BY <1>1, <2>1
    <2>3. w_contrib' \in Nat
      <3>1. w_contrib' = w_contrib \/ w_contrib' = w_contrib + 1
        BY <1>1
      <3> QED
        BY <2>1, <3>1
    <2> QED
      BY <1>2, <1>4, <2>2, <2>3 DEF WallInv, WallShape, Fits
  <1>7. CountedOnce'
    <2>1. \A q \in Wall!Posts :
            /\ w_ups'[q] <= 1 /\ (w_post'[q].at = "none" => w_ups'[q] = 0)
            /\ \A o \in Calls : Bumps(o, q)' =>
                 w_ups'[q] = 0 /\ w_post'[q].at # "none" /\ \A x \in Calls : Bumps(x, q)' => x = o
      BY <1>2, <1>4 DEF WallInv, CountedOnce
    <2>2. /\ w_contrib' <= 1 /\ (~w_row' => w_contrib' = 0)
          /\ \A o \in Calls : w_call'[o].at = "contributor" =>
               w_row' /\ w_contrib' = 0 /\ \A x \in Calls : w_call'[x].at = "contributor" => x = o
      <3>1. CASE w_call[c].at = "row" /\ w_row' = TRUE /\ w_contrib' = w_contrib
                 /\ v.at = IF w_row THEN "award" ELSE "contributor"
        BY <3>1, <1>4 DEF WallInv, CountedOnce
      <3>2. CASE w_call[c].at = "contributor" /\ w_row' = w_row /\ w_contrib' = w_contrib + 1 /\ v.at = "award"
        BY <3>2, <1>4 DEF WallInv, CountedOnce
      <3> QED
        BY <3>1, <3>2, <1>1
    <2> QED
      BY <2>1, <2>2 DEF CountedOnce
  <1>8. Paying'
    BY <1>2, <1>5 DEF WallInv, Paying
  <1>9. Balanced'
    BY <1>2, <1>3, <1>4, BalancedKept DEF Wall!Live
  <1>10. Mirrored' /\ NoticesTold'
    BY <1>2, <1>3, <1>4, MirroredKept, ToldKept
  <1> QED
    BY <1>6, <1>7, <1>8, <1>9, <1>10 DEF WallInv

-----------------------------------------------------------------------------
(* Balances. *)

LEMMA BalanceIsNumber ==
  ASSUME NEW who, NEW keys \in SUBSET Wall!Keys
  PROVE  Wall!BalanceIn(who, keys) \in Int
  <1>1. IsFiniteSet(Wall!Keys)
    <2>1. IsFiniteSet(Wall!Posts) /\ IsFiniteSet({"post", "like", "unlike"})
      <3>1. IsFiniteSet({}) /\ IsFiniteSet({} \cup {"post"})
            /\ IsFiniteSet({} \cup {"post"} \cup {"like"}) /\ IsFiniteSet({} \cup {"post"} \cup {"like"} \cup {"unlike"})
        BY FS_EmptySet, FS_AddElement
      <3>2. {} \cup {"post"} \cup {"like"} \cup {"unlike"} = {"post", "like", "unlike"}
        OBVIOUS
      <3> QED
        BY <3>1, <3>2, PostsFinite
    <2> QED
      BY <2>1, FS_Product DEF Wall!Keys
  <1>2. \A event : Wall!Entries(event, keys) \in Nat
    <2> TAKE event
    <2>1. IsFiniteSet({k \in keys : k[1] = event})
      BY <1>1, FS_Subset
    <2>2. Cardinality({k \in keys : k[1] = event}) \in Nat
      BY <2>1, FS_CardinalityType
    <2> QED
      BY <2>2 DEF Wall!Entries, Cardinality, Wall!Cardinality
  <1> QED
    BY <1>2 DEF Wall!BalanceIn

\* An entry changes the balance of its payee alone.
LEMMA BalanceOfOthers ==
  ASSUME NEW keys, NEW e \in Awarding, NEW p, NEW who \in Wall!Accounts, who # Wall!Payee(e)
  PROVE  Wall!BalanceIn(who, keys \cup {<<e, p>>}) = Wall!BalanceIn(who, keys)
  <1>1. \A event : event # e => Wall!Entries(event, keys \cup {<<e, p>>}) = Wall!Entries(event, keys)
    <2> SUFFICES ASSUME NEW event, event # e
                 PROVE  Wall!Entries(event, keys \cup {<<e, p>>}) = Wall!Entries(event, keys)
      OBVIOUS
    <2>1. {k \in keys \cup {<<e, p>>} : k[1] = event} = {k \in keys : k[1] = event}
      OBVIOUS
    <2> QED
      BY <2>1 DEF Wall!Entries
  <1> QED
    BY <1>1 DEF Wall!BalanceIn, Wall!Payee, Wall!Accounts, Awarding

\* A request has read the balance of an account.
LEMMA ReadsBalance ==
  ASSUME WallInv, NEW c \in Calls, NEW v \in Request, NEW who \in Wall!Accounts,
         w_call[c].at # "cache", v.at = "cache", Wall!Payee(v.award) = who,
         v.n = Wall!BalanceIn(who, w_paid'),
         w_call' \in [Calls -> Request], \A o \in Calls : w_call'[o] = IF o = c THEN v ELSE w_call[o],
         Wall!Overlaps(who), UNCHANGED <<w_mirror, w_unpaid>>,
         \A other \in Wall!Accounts : other # who =>
           Wall!BalanceIn(other, w_paid') = Wall!BalanceIn(other, w_paid)
  PROVE  Mirrored'
  <1>1. \A other \in Wall!Accounts : other # who => Wall!Reading(other)' = Wall!Reading(other)
    BY DEF Wall!Reading
  <1>2. Wall!Reading(who)' = Wall!Reading(who) \cup {c}
    BY DEF Wall!Reading
  <1>3. \A other \in Wall!Accounts : \A o \in Wall!Reading(other) : o \in Calls /\ o # c /\ w_call'[o].n = w_call[o].n
    BY DEF Wall!Reading
  <1>4. who \notin w_overlap' => Wall!Reading(who) = {}
    BY DEF Wall!Overlaps
  <1>5. w_overlap \subseteq w_overlap'
    BY DEF Wall!Overlaps
  <1>6. w_call'[c].n = Wall!BalanceIn(who, w_paid')
    OBVIOUS
  <1> SUFFICES ASSUME ~w_unpaid, NEW other \in Wall!Accounts \ w_overlap'
               PROVE  /\ Wall!Reading(other)' = {} => w_mirror'[other] = Wall!BalanceIn(other, w_paid')
                      /\ \A o \in Wall!Reading(other)' :
                           w_call'[o].n = Wall!BalanceIn(other, w_paid') /\ Wall!Reading(other)' = {o}
    BY DEF Mirrored
  <1>7. CASE other = who
    BY <1>2, <1>4, <1>6, <1>7
  <1>8. CASE other # who
    BY <1>1, <1>3, <1>5, <1>8 DEF WallInv, Mirrored
  <1> QED
    BY <1>7, <1>8

LEMMA BalanceSteps ==
  ASSUME WallInv, NEW c \in Calls, NEW who \in Wall!Accounts, Wall!Balance(c, who)
  PROVE  WallInv'
  <1>1. /\ w_call[c].at = "idle" /\ Wall!Overlaps(who)
        /\ UNCHANGED <<w_post, w_liked, w_paid, w_count, w_contrib, w_row, w_notices, w_mirror,
                       w_ups, w_askew, w_unpaid, w_doubled>>
    BY NoRequest DEF Wall!Balance, Wall!community, Wall!ours
  <1>2. PICK v \in Request : /\ w_call' = [w_call EXCEPT ![c] = v] /\ v.at = "cache" /\ v.award = who
                             /\ v.n = Wall!BalanceIn(who, w_paid)
    <2>1. PICK b \in Int : b = Wall!BalanceIn(who, w_paid)
      BY BalanceIsNumber DEF WallInv, WallShape
    <2>2. \A s \in Wall!Steps, m \in Int :
            LET w == [Wall!NoCall EXCEPT !.at = s, !.award = who, !.n = m] IN
              w \in Request /\ w.at = s /\ w.award = who /\ w.n = m
      BY NoRequest DEF Request
    <2>3. "cache" \in Wall!Steps
      BY DEF Wall!Steps
    <2> DEFINE v == [Wall!NoCall EXCEPT !.at = "cache", !.award = who, !.n = b]
    <2>4. v \in Request /\ v.at = "cache" /\ v.award = who /\ v.n = b
      BY <2>2, <2>3
    <2>5. w_call' = [w_call EXCEPT ![c] = v]
      BY <2>1 DEF Wall!Balance
    <2> HIDE DEF v
    <2> QED
      BY <2>1, <2>4, <2>5
  <1>3. Fits(v) /\ Wall!Payee(v.award) = who
    BY <1>2 DEF Fits, OnPost, Wall!Accounts, Wall!Payee
  <1>4. /\ w_call' \in [Calls -> Request]
        /\ \A o \in Calls : w_call'[o] = IF o = c THEN v ELSE w_call[o]
        /\ \A o \in Calls : Fits(w_call'[o])
        /\ \A o \in Calls, q \in Wall!Posts : (Bumps(o, q)' <=> Bumps(o, q)) /\ (Tells(o, q)' <=> Tells(o, q))
        /\ \A e \in Awarding, q \in Wall!Posts : Pays(e, q)' <=> Pays(e, q)
    BY <1>1, <1>2, <1>3, RequestMoves DEF WallInv
  <1>5. WallShape'
    <2>1. w_overlap' \subseteq Wall!Accounts
      BY <1>1 DEF WallInv, WallShape, Wall!Overlaps
    <2> QED
      BY <1>1, <1>4, <2>1 DEF WallInv, WallShape, Fits
  <1>6. CountedOnce' /\ Balanced' /\ Paying' /\ NoticesTold'
    BY <1>1, <1>2, <1>4, CountedKept, BalancedKept, PayingKept, ToldKept DEF Wall!Live
  <1>7. Mirrored'
    BY <1>1, <1>2, <1>3, <1>4, ReadsBalance
  <1> QED
    BY <1>5, <1>6, <1>7 DEF WallInv

LEMMA AdjustSteps ==
  ASSUME WallInv, NEW c \in Calls, Wall!Adjust(c)
  PROVE  WallInv'
  <1>0. PICK p, e : p = w_call[c].post /\ e = w_call[c].award
    OBVIOUS
  <1>1. /\ p \in Wall!Posts /\ e \in Awarding /\ w_call[c].at = "award" /\ Pays(e, p)
        /\ Wall!Overlaps(Wall!Payee(e)) /\ Wall!Payee(e) \in Wall!Accounts
        /\ UNCHANGED <<w_post, w_liked, w_count, w_contrib, w_row, w_notices, w_mirror,
                       w_ups, w_askew, w_doubled>>
    BY <1>0 DEF Wall!Adjust, Wall!community, Wall!ours, WallInv, WallShape, OnPost, Pays, Wall!Payee, Wall!Accounts
  <1>2. PICK v \in Request :
          /\ w_call' = [w_call EXCEPT ![c] = v]
          /\ \/ /\ w_paid' = w_paid \cup {<<e, p>>} /\ w_unpaid' = w_unpaid
                /\ v.at = "cache" /\ v.award = e /\ v.n = Wall!BalanceIn(Wall!Payee(e), w_paid')
             \/ v = Wall!NoCall /\ w_unpaid' = TRUE /\ w_paid' \in {w_paid, w_paid \cup {<<e, p>>}}
    <2>0. w_call[c] \in Request /\ w_paid \subseteq Wall!Keys /\ <<e, p>> \in Wall!Keys
      BY <1>1 DEF WallInv, WallShape, Wall!Keys, Awarding
    <2>1. CASE w_paid' = w_paid \cup {<<e, p>>} /\ w_unpaid' = w_unpaid /\
               w_call' = [w_call EXCEPT ![c].at = "cache", ![c].n = Wall!BalanceIn(Wall!Payee(e), w_paid')]
      <3>1. PICK b \in Int : b = Wall!BalanceIn(Wall!Payee(e), w_paid')
        BY <2>0, <2>1, BalanceIsNumber
      <3>2. \A s \in Wall!Steps, m \in Int :
              LET w == [w_call[c] EXCEPT !.at = s, !.n = m] IN
                w \in Request /\ w.at = s /\ w.award = e /\ w.n = m
        BY <2>0, <1>0 DEF Request
      <3>3. "cache" \in Wall!Steps
        BY DEF Wall!Steps
      <3> DEFINE v == [w_call[c] EXCEPT !.at = "cache", !.n = b]
      <3>4. v \in Request /\ v.at = "cache" /\ v.award = e /\ v.n = b
        BY <3>2, <3>3
      <3>5. w_call' = [w_call EXCEPT ![c] = v]
        BY <3>1, <2>1 DEF WallInv, WallShape
      <3> HIDE DEF v
      <3> QED
        BY <3>1, <3>4, <3>5, <2>1
    <2>2. CASE /\ Wall!Answered(c) /\ w_unpaid' = TRUE /\ w_paid' \in {w_paid, w_paid \cup {<<e, p>>}}
      BY <2>2, NoRequest DEF Wall!Answered
    <2> QED
      BY <2>1, <2>2, <1>0 DEF Wall!Adjust
  <1>3. Fits(v) /\ v.at \in {"cache", "idle"}
    BY <1>1, <1>2, NoRequest DEF Fits, OnPost, Awarding
  <1>4. /\ w_call' \in [Calls -> Request]
        /\ \A o \in Calls : w_call'[o] = IF o = c THEN v ELSE w_call[o]
        /\ \A o \in Calls : Fits(w_call'[o])
        /\ \A o \in Calls, q \in Wall!Posts : (Bumps(o, q)' <=> Bumps(o, q)) /\ (Tells(o, q)' <=> Tells(o, q))
    BY <1>1, <1>2, <1>3, RequestMoves DEF WallInv
  <1>5. WallShape'
    <2>1. w_overlap' \subseteq Wall!Accounts
      BY <1>1 DEF WallInv, WallShape, Wall!Overlaps
    <2>2. w_paid' \subseteq Wall!Keys
      BY <1>1, <1>2 DEF WallInv, WallShape, Wall!Keys, Awarding
    <2>3. w_unpaid' \in BOOLEAN
      BY <1>2 DEF WallInv, WallShape
    <2> QED
      BY <1>1, <1>4, <2>1, <2>2, <2>3 DEF WallInv, WallShape, Fits
  <1>6. CountedOnce' /\ Balanced' /\ NoticesTold'
    BY <1>1, <1>3, <1>4, CountedKept, BalancedKept, ToldKept DEF Wall!Live
  <1>7. CASE w_unpaid'
    <2>1. Paying' /\ Mirrored'
      BY <1>7 DEF Paying, Mirrored
    <2> QED
      BY <1>5, <1>6, <2>1 DEF WallInv
  <1>8. CASE /\ w_paid' = w_paid \cup {<<e, p>>} /\ w_unpaid' = w_unpaid
             /\ v.at = "cache" /\ v.award = e /\ v.n = Wall!BalanceIn(Wall!Payee(e), w_paid')
    <2>1. \A x \in Awarding, q \in Wall!Posts : Pays(x, q)' => Pays(x, q)
      BY <1>1, <1>4, <1>8 DEF Pays
    <2>2. \A x \in Awarding, q \in Wall!Posts : Pays(x, q) => Pays(x, q)' \/ <<x, q>> \in w_paid'
      BY <1>0, <1>1, <1>4, <1>8 DEF Pays
    <2>3. \A x \in Awarding, q \in Wall!Posts : <<x, q>> \in w_paid' => <<x, q>> \in w_paid \/ Pays(x, q)
      BY <1>1, <1>8
    <2>4. Paying'
      BY <2>1, <2>2, <2>3, <1>1, <1>8 DEF Paying, WallInv, Awarding
    <2>5. \A other \in Wall!Accounts : other # Wall!Payee(e) =>
            Wall!BalanceIn(other, w_paid') = Wall!BalanceIn(other, w_paid)
      <3>1. \A other \in Wall!Accounts : other # Wall!Payee(e) =>
              Wall!BalanceIn(other, w_paid \cup {<<e, p>>}) = Wall!BalanceIn(other, w_paid)
        BY <1>1, BalanceOfOthers, Zenon
      <3>2. w_paid' = w_paid \cup {<<e, p>>}
        BY <1>8
      <3> QED
        BY <3>1, <3>2, Zenon
    <2>6. Mirrored'
      BY <2>5, <1>1, <1>4, <1>8, ReadsBalance
    <2> QED
      BY <1>5, <1>6, <2>4, <2>6 DEF WallInv
  <1> QED
    BY <1>2, <1>7, <1>8

\* The balance that was read is written down.
LEMMA CacheSteps ==
  ASSUME WallInv, NEW c \in Calls, Wall!Cache(c)
  PROVE  WallInv'
  <1>0. PICK who : who = Wall!Payee(w_call[c].award)
    OBVIOUS
  <1>1. /\ w_call[c].at = "cache" /\ who \in Wall!Accounts /\ c \in Wall!Reading(who)
        /\ w_call' = [w_call EXCEPT ![c] = Wall!NoCall]
        /\ w_mirror' = [w_mirror EXCEPT ![who] = w_call[c].n]
        /\ UNCHANGED <<w_post, w_liked, w_paid, w_count, w_contrib, w_row, w_notices,
                       w_ups, w_askew, w_unpaid, w_overlap, w_doubled>>
    BY <1>0 DEF Wall!Cache, Wall!Answered, Wall!community, Wall!ours, Wall!history, Wall!Payee,
                Wall!Accounts, Wall!Reading
  <1>2. Fits(Wall!NoCall) /\ Wall!NoCall.at = "idle" /\ Wall!NoCall \in Request
    BY NoRequest DEF Fits, OnPost
  <1>3. /\ w_call' \in [Calls -> Request]
        /\ \A o \in Calls : w_call'[o] = IF o = c THEN Wall!NoCall ELSE w_call[o]
        /\ \A o \in Calls : Fits(w_call'[o])
        /\ \A o \in Calls, q \in Wall!Posts : (Bumps(o, q)' <=> Bumps(o, q)) /\ (Tells(o, q)' <=> Tells(o, q))
        /\ \A e \in Awarding, q \in Wall!Posts : Pays(e, q)' <=> Pays(e, q)
    BY <1>1, <1>2, RequestMoves DEF WallInv
  <1>4. WallShape'
    <2>1. w_call[c].n \in Int
      BY DEF WallInv, WallShape, Request
    <2>2. w_mirror' \in [Wall!Accounts -> Int]
      BY <2>1, <1>1 DEF WallInv, WallShape
    <2> QED
      BY <1>1, <1>3, <2>2 DEF WallInv, WallShape, Fits
  <1>5. CountedOnce' /\ Balanced' /\ Paying' /\ NoticesTold'
    BY <1>1, <1>2, <1>3, CountedKept, BalancedKept, PayingKept, ToldKept DEF Wall!Live
  <1>6. Mirrored'
    <2>1. \A other \in Wall!Accounts : Wall!Reading(other)' = Wall!Reading(other) \ {c}
      BY <1>2, <1>3 DEF Wall!Reading
    <2>2. \A other \in Wall!Accounts : c \in Wall!Reading(other) => other = who
      BY <1>0 DEF Wall!Reading
    <2>3. \A other \in Wall!Accounts : \A o \in Wall!Reading(other)' : w_call'[o].n = w_call[o].n
      BY <1>2, <1>3 DEF Wall!Reading
    <2>4. /\ w_mirror'[who] = w_call[c].n
          /\ \A other \in Wall!Accounts : other # who => w_mirror'[other] = w_mirror[other]
      BY <1>1 DEF WallInv, WallShape
    <2> SUFFICES ASSUME ~w_unpaid, NEW other \in Wall!Accounts \ w_overlap
                 PROVE  /\ Wall!Reading(other)' = {} => w_mirror'[other] = Wall!BalanceIn(other, w_paid)
                        /\ \A o \in Wall!Reading(other)' :
                             w_call'[o].n = Wall!BalanceIn(other, w_paid) /\ Wall!Reading(other)' = {o}
      BY <1>1 DEF Mirrored
    <2>5. /\ Wall!Reading(other) = {} => w_mirror[other] = Wall!BalanceIn(other, w_paid)
          /\ \A o \in Wall!Reading(other) :
               w_call[o].n = Wall!BalanceIn(other, w_paid) /\ Wall!Reading(other) = {o}
      BY DEF WallInv, Mirrored
    <2>6. CASE other = who
      BY <2>1, <2>4, <2>5, <2>6, <1>1
    <2>7. CASE other # who
      <3>1. Wall!Reading(other)' = Wall!Reading(other)
        BY <2>1, <2>2, <2>7
      <3> QED
        BY <3>1, <2>3, <2>4, <2>5, <2>7
    <2> QED
      BY <2>6, <2>7
  <1> QED
    BY <1>4, <1>5, <1>6 DEF WallInv

-----------------------------------------------------------------------------
(* Likes, notices, ends. *)

LEMMA ReactSteps ==
  ASSUME WallInv, NEW c \in Calls, Wall!React(c)
  PROVE  WallInv'
  <1>0. PICK p : p = w_call[c].post
    OBVIOUS
  <1>1. /\ p \in Wall!Posts /\ w_call[c].at = "like"
        /\ UNCHANGED <<w_post, w_paid, w_count, w_contrib, w_row, w_notices, w_mirror,
                       w_ups, w_askew, w_overlap, w_doubled>>
    BY <1>0 DEF Wall!React, Wall!ours, WallInv, WallShape, OnPost
  <1>2. PICK v \in Request :
          /\ w_call' = [w_call EXCEPT ![c] = v]
          /\ v = Wall!NoCall \/ (v.at = "award" /\ v.post = p /\ v.award \in {"like", "unlike"})
          /\ w_unpaid' \in BOOLEAN /\ w_liked' \subseteq Wall!Posts /\ (w_unpaid => w_unpaid')
          /\ \/ w_unpaid'
             \/ w_liked' = w_liked /\ v = Wall!NoCall
             \/ v.at = "award" /\ v.post = p /\ v.award = "like" /\ w_liked' = w_liked \cup {p}
             \/ v.at = "award" /\ v.post = p /\ v.award = "unlike" /\ w_liked' \subseteq w_liked /\ p \in w_liked
    <2>0. w_call[c] \in Request /\ w_liked \subseteq Wall!Posts /\ w_unpaid \in BOOLEAN
      BY DEF WallInv, WallShape
    <2>1. CASE Wall!Answered(c)
      <3>1. \/ w_unpaid' = TRUE /\ w_liked' \subseteq Wall!Posts
            \/ w_unpaid' = w_unpaid /\ w_liked' = w_liked
            \/ \E s : w_call' = [w_call EXCEPT ![c].at = "award", ![c].award = s]
        BY <2>0, <1>0, <1>1 DEF Wall!React
      <3>2. ~\E s : w_call' = [w_call EXCEPT ![c].at = "award", ![c].award = s]
        <4>1. w_call'[c].at = "idle"
          BY <2>1, NoRequest DEF Wall!Answered, WallInv, WallShape
        <4>2. \A s : [w_call EXCEPT ![c].at = "award", ![c].award = s][c].at = "award"
          BY <2>0 DEF Request, WallInv, WallShape
        <4> QED
          BY <4>1, <4>2
      <3> QED
        BY <2>0, <2>1, <3>1, <3>2, NoRequest DEF Wall!Answered
    <2>2. CASE ~Wall!Answered(c)
      <3>1. PICK s \in {"like", "unlike"} : s = IF w_call[c].was THEN "like" ELSE "unlike"
        OBVIOUS
      <3>2. /\ w_call' = [w_call EXCEPT ![c].at = "award", ![c].award = s]
            /\ w_unpaid' = w_unpaid
            /\ \/ s = "like" /\ w_liked' = w_liked \cup {p}
               \/ s = "unlike" /\ w_liked' = w_liked \ {p} /\ w_liked' # w_liked
        BY <2>2, <1>0, <3>1 DEF Wall!React
      <3> DEFINE v == [w_call[c] EXCEPT !.at = "award", !.award = s]
      <3>3. v \in Request /\ v.at = "award" /\ v.post = p /\ v.award = s
        <4>1. \A a \in Wall!Steps : LET w == [w_call[c] EXCEPT !.at = a, !.award = s] IN
                w \in Request /\ w.at = a /\ w.post = p /\ w.award = s
          BY <2>0, <1>0 DEF Request, Awarding
        <4>2. "award" \in Wall!Steps
          BY DEF Wall!Steps
        <4> QED
          BY <4>1, <4>2
      <3>4. w_call' = [w_call EXCEPT ![c] = v]
        BY <3>2 DEF WallInv, WallShape
      <3> HIDE DEF v
      <3>5. w_unpaid' \in BOOLEAN /\ w_liked' \subseteq Wall!Posts /\ (w_unpaid => w_unpaid')
        BY <3>2, <2>0, <1>1
      <3>6. \/ v.at = "award" /\ v.post = p /\ v.award = "like" /\ w_liked' = w_liked \cup {p}
            \/ v.at = "award" /\ v.post = p /\ v.award = "unlike" /\ w_liked' \subseteq w_liked /\ p \in w_liked
        BY <3>2, <3>3
      <3>7. v.award \in {"like", "unlike"}
        BY <3>3
      <3>8. v \in Request
        BY <3>3
      <3> QED
        BY <3>3, <3>4, <3>5, <3>6, <3>7, <3>8, Zenon
    <2> QED
      BY <2>1, <2>2
  <1>3. Fits(v) /\ v.at \in {"award", "idle"}
    BY <1>1, <1>2, NoRequest DEF Fits, OnPost, Awarding
  <1>4. /\ w_call' \in [Calls -> Request]
        /\ \A o \in Calls : w_call'[o] = IF o = c THEN v ELSE w_call[o]
        /\ \A o \in Calls : Fits(w_call'[o])
        /\ \A o \in Calls, q \in Wall!Posts : (Bumps(o, q)' <=> Bumps(o, q)) /\ (Tells(o, q)' <=> Tells(o, q))
    BY <1>1, <1>2, <1>3, RequestMoves DEF WallInv
  <1>5. WallShape'
    BY <1>1, <1>2, <1>4 DEF WallInv, WallShape, Fits
  <1>6. CountedOnce' /\ Balanced' /\ Mirrored' /\ NoticesTold'
    BY <1>1, <1>2, <1>3, <1>4, CountedKept, BalancedKept, MirroredKept, ToldKept DEF Wall!Live
  <1>7. Paying'
    <2>1. \A x \in Awarding, q \in Wall!Posts :
            Pays(x, q)' <=> Pays(x, q) \/ (v.at = "award" /\ v.post = q /\ v.award = x)
      BY <1>1, <1>3, <1>4 DEF Pays
    <2>2. w_unpaid \/ \A q \in Wall!Posts :
            q \in w_liked \/ <<"unlike", q>> \in w_paid \/ Pays("unlike", q) =>
              <<"like", q>> \in w_paid \/ Pays("like", q)
      BY DEF WallInv, Paying
    <2> SUFFICES ASSUME ~w_unpaid', NEW q \in Wall!Posts,
                        q \in w_liked' \/ <<"unlike", q>> \in w_paid \/ Pays("unlike", q)'
                 PROVE  <<"like", q>> \in w_paid \/ Pays("like", q)'
      BY <1>1 DEF Paying
    <2>3. CASE w_liked' = w_liked /\ v = Wall!NoCall
      BY <2>1, <2>2, <2>3, <1>2, NoRequest DEF Awarding
    <2>4. CASE v.at = "award" /\ v.post = p /\ v.award = "like" /\ w_liked' = w_liked \cup {p}
      BY <2>1, <2>2, <2>4, <1>2 DEF Awarding
    <2>5. CASE v.at = "award" /\ v.post = p /\ v.award = "unlike" /\ w_liked' \subseteq w_liked /\ p \in w_liked
      BY <2>1, <2>2, <2>5, <1>2 DEF Awarding
    <2> QED
      BY <2>3, <2>4, <2>5, <1>2
  <1> QED
    BY <1>5, <1>6, <1>7 DEF WallInv

\* A notice is looked for, then told.
LEMMA LookSteps ==
  ASSUME WallInv, NEW c \in Calls, Wall!Look(c) \/ Wall!Tell(c)
  PROVE  WallInv'
  <1>0. PICK p : p = w_call[c].post
    OBVIOUS
  <1>1. /\ p \in Wall!Posts
        /\ UNCHANGED <<w_post, w_liked, w_paid, w_count, w_contrib, w_row, w_mirror,
                       w_ups, w_askew, w_unpaid, w_overlap>>
    BY <1>0 DEF Wall!Look, Wall!Tell, Wall!community, Wall!ours, Wall!history, WallInv, WallShape, OnPost
  <1>2. PICK v \in Request :
          /\ w_call' = [w_call EXCEPT ![c] = v]
          /\ v = Wall!NoCall \/ (v.at = "tell" /\ v.post = p)
          /\ \/ /\ w_call[c].at = "look" /\ w_notices' = w_notices /\ w_doubled \subseteq w_doubled'
                /\ w_doubled' \subseteq w_doubled \cup {p}
                /\ v = Wall!NoCall \/ (w_notices[p] = 0 /\ (p \notin w_doubled' => \A o \in Calls : ~Tells(o, p)))
             \/ /\ w_call[c].at = "tell" /\ v = Wall!NoCall /\ w_doubled' = w_doubled
                /\ w_notices' = [w_notices EXCEPT ![p] = @ + 1]
    <2>1. CASE Wall!Tell(c)
      BY <2>1, <1>0, NoRequest DEF Wall!Tell, Wall!Answered, Wall!history
    <2>2. CASE Wall!Look(c)
      <3>1. /\ w_call[c].at = "look" /\ w_notices' = w_notices /\ w_doubled \subseteq w_doubled'
            /\ w_doubled' \subseteq w_doubled \cup {p}
            /\ (p \notin w_doubled' => \A o \in Calls : ~Tells(o, p))
        BY <2>2, <1>0 DEF Wall!Look, Wall!ours, Tells
      <3>2. CASE w_notices[p] > 0
        BY <3>1, <3>2, <2>2, <1>0, NoRequest DEF Wall!Look, Wall!Answered
      <3>3. CASE ~(w_notices[p] > 0)
        <4>1. w_notices[p] = 0
          BY <3>3, <1>1 DEF WallInv, WallShape
        <4>2. Wall!Goes(c, "tell") /\ "tell" \in Wall!Steps
          BY <3>3, <2>2, <1>0 DEF Wall!Look, Wall!Steps
        <4>3. PICK v \in Request : w_call' = [w_call EXCEPT ![c] = v] /\ v.at = "tell" /\ v.post = p
          BY <4>2, <1>0, GoesTo DEF WallInv
        <4> QED
          BY <3>1, <4>1, <4>3
      <3> QED
        BY <3>2, <3>3
    <2> QED
      BY <2>1, <2>2
  <1>3. Fits(v) /\ v.at \in {"tell", "idle"} /\ w_call[c].at \in {"look", "tell"}
    BY <1>1, <1>2, NoRequest DEF Fits, OnPost
  <1>4. /\ w_call' \in [Calls -> Request]
        /\ \A o \in Calls : w_call'[o] = IF o = c THEN v ELSE w_call[o]
        /\ \A o \in Calls : Fits(w_call'[o])
        /\ \A o \in Calls, q \in Wall!Posts : Bumps(o, q)' <=> Bumps(o, q)
        /\ \A e \in Awarding, q \in Wall!Posts : Pays(e, q)' <=> Pays(e, q)
    BY <1>2, <1>3, RequestMoves DEF WallInv
  <1>5. WallShape'
    <2>1. w_notices' \in [Wall!Posts -> Nat]
      BY <1>1, <1>2 DEF WallInv, WallShape
    <2>2. w_doubled' \subseteq Wall!Posts
      BY <1>1, <1>2 DEF WallInv, WallShape
    <2> QED
      BY <1>1, <1>4, <2>1, <2>2 DEF WallInv, WallShape, Fits
  <1>6. CountedOnce' /\ Balanced' /\ Mirrored' /\ Paying'
    BY <1>1, <1>3, <1>4, CountedKept, BalancedKept, MirroredKept, PayingKept DEF Wall!Live
  <1>7. NoticesTold'
    <2>1. \A o \in Calls, q \in Wall!Posts :
            Tells(o, q)' <=> (o # c /\ Tells(o, q)) \/ (o = c /\ q = p /\ v.at = "tell")
      BY <1>2, <1>4, NoRequest DEF Tells
    <2> SUFFICES ASSUME NEW q \in Wall!Posts \ w_doubled'
                 PROVE  /\ w_notices'[q] <= 1
                        /\ \A o \in Calls : Tells(o, q)' =>
                             w_notices'[q] = 0 /\ \A x \in Calls : Tells(x, q)' => x = o
      BY DEF NoticesTold
    <2>2. q \in Wall!Posts \ w_doubled
      BY <1>2
    <2>3. /\ w_notices[q] <= 1 /\ w_notices[q] \in Nat
          /\ \A o \in Calls : Tells(o, q) =>
               w_notices[q] = 0 /\ \A x \in Calls : Tells(x, q) => x = o
      BY <2>2 DEF WallInv, NoticesTold, WallShape
    <2>4. CASE w_notices' = w_notices /\ w_call[c].at = "look"
      BY <2>1, <2>3, <2>4, <1>2, NoRequest
    <2>5. CASE w_call[c].at = "tell" /\ v = Wall!NoCall /\ w_notices' = [w_notices EXCEPT ![p] = @ + 1]
      <3>1. CASE q = p
        <4>1. Tells(c, p)
          BY <2>5, <1>0 DEF Tells
        <4>2. w_notices'[q] = w_notices[q] + 1
          BY <2>5, <3>1 DEF WallInv, WallShape
        <4>3. \A o \in Calls : ~Tells(o, q)'
          BY <2>1, <2>3, <2>5, <3>1, <4>1, NoRequest
        <4>4. w_notices[q] = 0
          BY <2>3, <3>1, <4>1
        <4> QED
          BY <4>2, <4>3, <4>4
      <3>2. CASE q # p
        <4>1. w_notices'[q] = w_notices[q]
          BY <2>5, <3>2 DEF WallInv, WallShape
        <4>2. \A o \in Calls : Tells(o, q)' => Tells(o, q)
          BY <2>1, <3>2
        <4> QED
          BY <2>3, <4>1, <4>2
      <3> QED
        BY <3>1, <3>2
    <2> QED
      BY <2>4, <2>5, <1>2, NoRequest
  <1> QED
    BY <1>5, <1>6, <1>7 DEF WallInv

\* A request ends early: what it owes is told as a cause.
LEMMA DieSteps ==
  ASSUME WallInv, NEW c \in Calls, Wall!Die(c)
  PROVE  WallInv'
  <1>1. /\ w_call' = [w_call EXCEPT ![c] = Wall!NoCall]
        /\ w_unpaid' = TRUE /\ w_askew' = (w_askew \/ w_call[c].at \in {"bump", "drop"})
        /\ UNCHANGED <<w_post, w_liked, w_paid, w_count, w_contrib, w_row, w_mirror, w_notices,
                       w_ups, w_overlap, w_doubled>>
    BY DEF Wall!Die, Wall!Answered, Wall!community, Wall!ours
  <1>2. Fits(Wall!NoCall) /\ Wall!NoCall.at = "idle" /\ Wall!NoCall \in Request
    BY NoRequest DEF Fits, OnPost
  <1>3. /\ w_call' \in [Calls -> Request]
        /\ \A o \in Calls : w_call'[o] = IF o = c THEN Wall!NoCall ELSE w_call[o]
        /\ \A o \in Calls : Fits(w_call'[o])
    BY <1>1, <1>2, RequestMoves DEF WallInv
  <1>4. \A o \in Calls, q \in Wall!Posts : (Bumps(o, q)' => Bumps(o, q)) /\ (Tells(o, q)' => Tells(o, q))
    BY <1>2, <1>3 DEF Bumps, Tells
  <1>5. w_askew \in BOOLEAN /\ w_askew' \in BOOLEAN /\ (w_askew => w_askew')
    BY <1>1 DEF WallInv, WallShape
  <1>6. WallShape'
    BY <1>1, <1>3, <1>5 DEF WallInv, WallShape, Fits
  <1>7. Paying' /\ Mirrored'
    BY <1>1 DEF Paying, Mirrored
  <1>8. CountedOnce' /\ NoticesTold'
    BY <1>1, <1>2, <1>3, <1>4, CountedKept, ToldKept
  <1>9. Balanced'
    <2>1. CASE w_call[c].at \in {"bump", "drop"}
      BY <2>1, <1>1 DEF Balanced
    <2>2. CASE w_call[c].at \notin {"bump", "drop"}
      <3>1. \A o \in Calls, q \in Wall!Posts : Bumps(o, q)' <=> Bumps(o, q)
        BY <2>2, <1>2, <1>3 DEF Bumps
      <3>2. Wall!Live' = Wall!Live
        BY <1>1 DEF Wall!Live
      <3> QED
        BY <2>2, <3>1, <3>2, <1>1, <1>2, <1>3, <1>5, BalancedKept
    <2> QED
      BY <2>1, <2>2
  <1> QED
    BY <1>6, <1>7, <1>8, <1>9 DEF WallInv

-----------------------------------------------------------------------------
(* Posts are deleted, and the counter goes down. *)

\* What a request has deleted it owes; what it took off it does not owe.
LEMMA DropSteps ==
  ASSUME WallInv, NEW c \in Calls, Wall!Drop(c)
  PROVE  WallInv'
  <1>0. PICK k \in Nat : k = w_call[c].n
    BY DEF WallInv, WallShape, Wall!Drop
  <1>1. /\ w_call[c].at = "drop" /\ w_call' = [w_call EXCEPT ![c] = Wall!NoCall]
        /\ w_count' = (IF w_count < k THEN 0 ELSE w_count - k)
        /\ w_askew' = (w_askew \/ w_count < k)
        /\ UNCHANGED <<w_post, w_liked, w_paid, w_contrib, w_row, w_mirror, w_notices,
                       w_ups, w_unpaid, w_overlap, w_doubled>>
    BY <1>0 DEF Wall!Drop, Wall!Answered, Wall!community
  <1>2. Fits(Wall!NoCall) /\ Wall!NoCall.at = "idle" /\ Wall!NoCall \in Request
    BY NoRequest DEF Fits, OnPost
  <1>3. /\ w_call' \in [Calls -> Request]
        /\ \A o \in Calls : w_call'[o] = IF o = c THEN Wall!NoCall ELSE w_call[o]
        /\ \A o \in Calls : Fits(w_call'[o])
        /\ \A o \in Calls, q \in Wall!Posts : (Bumps(o, q)' <=> Bumps(o, q)) /\ (Tells(o, q)' <=> Tells(o, q))
        /\ \A e \in Awarding, q \in Wall!Posts : Pays(e, q)' <=> Pays(e, q)
    BY <1>1, <1>2, RequestMoves DEF WallInv
  <1>4. w_count \in Nat /\ w_count' \in Nat
    BY <1>1 DEF WallInv, WallShape
  <1>5. WallShape'
    <2>1. w_askew' \in BOOLEAN
      BY <1>1 DEF WallInv, WallShape
    <2> QED
      BY <1>1, <1>3, <1>4, <2>1 DEF WallInv, WallShape, Fits
  <1>6. CountedOnce' /\ Paying' /\ Mirrored' /\ NoticesTold'
    BY <1>1, <1>2, <1>3, CountedKept, PayingKept, MirroredKept, ToldKept
  <1>7. Balanced'
    <2>1. CASE w_askew'
      BY <2>1 DEF Balanced
    <2>2. ASSUME ~w_askew', NEW D \in [Calls -> SUBSET Wall!Posts], Owes(D) PROVE Balanced'
      <3>1. w_count' = w_count - k /\ k <= w_count
        <4>1. ~(w_count < k)
          BY <2>2, <1>1
        <4>2. w_count' = w_count - k
          BY <4>1, <1>1
        <4> QED
          BY <4>1, <4>2, <1>4
      <3> DEFINE E == [D EXCEPT ![c] = {}]
      <3>2. E \in [Calls -> SUBSET Wall!Posts] /\ \A o \in Calls : E[o] = IF o = c THEN {} ELSE D[o]
        OBVIOUS
      <3> HIDE DEF E
      <3> DEFINE A == Wall!Live \cup UNION {D[o] : o \in Calls}
                 B == Wall!Live \cup UNION {E[o] : o \in Calls}
      <3>3. A = B \cup D[c]
        BY <3>2
      <3>4. B \cap D[c] = {}
        <4>1. \A q \in D[c] : q \notin Wall!Live /\ \A o \in Calls : q \in D[o] => o = c
          BY <2>2 DEF Owes, Wall!Live
        <4> QED
          BY <4>1, <3>2
      <3>5. B \in SUBSET Wall!Posts /\ D[c] \in SUBSET Wall!Posts /\ Uncounted \in SUBSET Wall!Posts
        BY <3>2 DEF Wall!Live, Uncounted
      <3>6. Uncounted' = Uncounted /\ Wall!Live' = Wall!Live
        BY <1>1, <1>3 DEF Uncounted, Wall!Live
      <3>7. Cardinality(D[c]) = k
        BY <2>2, <1>0, <1>1 DEF Owes
      <3>8. w_count + Cardinality(Uncounted) = Cardinality(A)
        BY <2>2 DEF Owes
      <3> HIDE DEF A, B
      <3>9. Cardinality(A) = Cardinality(B) + k
        <4>1. /\ IsFiniteSet(B) /\ IsFiniteSet(D[c])
              /\ Cardinality(B) \in Nat /\ Cardinality(D[c]) \in Nat
          BY <3>5, PostsFinite
        <4>2. Cardinality(B \cup D[c]) = Cardinality(B) + Cardinality(D[c]) - Cardinality(B \cap D[c])
          BY <4>1, FS_Union
        <4>3. Cardinality(B \cap D[c]) = 0
          BY <3>4, FS_EmptySet
        <4> QED
          BY <4>1, <4>2, <4>3, <3>3, <3>7
      <3>10. w_count' + Cardinality(Uncounted) = Cardinality(B)
        <4>1. Cardinality(B) \in Nat /\ Cardinality(Uncounted) \in Nat
          BY <3>5, PostsFinite
        <4>2. PICK a, b, u \in Nat : a = Cardinality(A) /\ b = Cardinality(B) /\ u = Cardinality(Uncounted)
          BY <4>1, <3>9
        <4>3. w_count + u = b + k
          BY <4>2, <3>8, <3>9
        <4>4. (w_count - k) + u = b
          BY <4>2, <4>3, <1>4
        <4> QED
          BY <4>2, <4>4, <3>1
      <3>11. w_count' + Cardinality(Uncounted') = Cardinality(Wall!Live' \cup UNION {E[o] : o \in Calls})
        BY <3>6, <3>10 DEF B
      <3>12. \A o \in Calls : IF w_call'[o].at = "drop" THEN Cardinality(E[o]) = w_call'[o].n ELSE E[o] = {}
        BY <2>2, <3>2, <1>2, <1>3 DEF Owes
      <3>13. \A o \in Calls : \A q \in E[o] : w_post'[q].at = "deleted" /\ \A x \in Calls : q \in E[x] => x = o
        BY <2>2, <3>2, <1>1 DEF Owes
      <3>14. Owes(E)'
        BY <3>11, <3>12, <3>13 DEF Owes
      <3> QED
        BY <3>2, <3>14 DEF Balanced
    <2>3. w_askew => w_askew'
      BY <1>1 DEF WallInv, WallShape
    <2> QED
      BY <2>1, <2>2, <2>3 DEF WallInv, Balanced
  <1> QED
    BY <1>5, <1>6, <1>7 DEF WallInv

\* Posts become tombstones, and the request that did it owes them.
LEMMA TombstonesOwed ==
  ASSUME WallInv, NEW c \in Calls, NEW S \in SUBSET Wall!Live, NEW v \in Request,
         w_call[c].at # "drop", w_call[c].at # "bump", v.at = "drop", v.n = Cardinality(S),
         \A o \in Calls : w_call'[o] = IF o = c THEN v ELSE w_call[o],
         \A o \in Calls, q \in Wall!Posts : Bumps(o, q)' <=> Bumps(o, q),
         \A q \in Wall!Posts : w_post'[q].at = IF q \in S THEN "deleted" ELSE w_post[q].at,
         w_count' = w_count, w_askew => w_askew'
  PROVE  Balanced'
  <1>1. CASE w_askew
    BY <1>1 DEF Balanced
  <1>2. ASSUME NEW D \in [Calls -> SUBSET Wall!Posts], Owes(D) PROVE Balanced'
    <2> DEFINE E == [D EXCEPT ![c] = S]
    <2>0. S \subseteq Wall!Posts /\ \A q \in S : w_post[q].at # "deleted"
      BY DEF Wall!Live
    <2>1. E \in [Calls -> SUBSET Wall!Posts] /\ \A o \in Calls : E[o] = IF o = c THEN S ELSE D[o]
      BY <2>0
    <2> HIDE DEF E
    <2>2. D[c] = {}
      BY <1>2 DEF Owes
    <2>3. Wall!Live' = Wall!Live \ S
      BY DEF Wall!Live
    <2>4. UNION {E[o] : o \in Calls} = S \cup UNION {D[o] : o \in Calls}
      BY <2>1, <2>2
    <2>5. Wall!Live' \cup UNION {E[o] : o \in Calls} = Wall!Live \cup UNION {D[o] : o \in Calls}
      BY <2>3, <2>4
    <2>6. Uncounted' = Uncounted
      BY DEF Uncounted
    <2>7. w_count' + Cardinality(Uncounted') = Cardinality(Wall!Live' \cup UNION {E[o] : o \in Calls})
      BY <1>2, <2>5, <2>6 DEF Owes
    <2>8. \A o \in Calls : IF w_call'[o].at = "drop" THEN Cardinality(E[o]) = w_call'[o].n ELSE E[o] = {}
      BY <1>2, <2>1 DEF Owes
    <2>9. \A o \in Calls : \A q \in E[o] : w_post'[q].at = "deleted" /\ \A x \in Calls : q \in E[x] => x = o
      BY <1>2, <2>0, <2>1 DEF Owes
    <2>10. Owes(E)'
      BY <2>7, <2>8, <2>9 DEF Owes
    <2> QED
      BY <2>1, <2>10 DEF Balanced
  <1> QED
    BY <1>1, <1>2 DEF WallInv, Balanced

LEMMA DeleteSteps ==
  ASSUME WallInv, NEW c \in Calls, Wall!DeletePost(c)
  PROVE  WallInv'
  <1>0. PICK p : p = w_call[c].post
    OBVIOUS
  <1>1. /\ p \in Wall!Posts /\ w_call[c].at = "delete" /\ w_call[c].n = 1 /\ w_askew \in BOOLEAN
        /\ UNCHANGED <<w_liked, w_paid, w_count, w_row, w_contrib, w_notices, w_mirror,
                       w_ups, w_unpaid, w_overlap, w_doubled>>
    BY <1>0 DEF Wall!DeletePost, Wall!ours, WallInv, WallShape, OnPost
  <1>2. PICK v \in Request :
          /\ w_call' = [w_call EXCEPT ![c] = v]
          /\ v = Wall!NoCall \/ (v.at = "drop" /\ v.n = 1)
          /\ w_askew' \in BOOLEAN /\ (w_askew => w_askew')
          /\ \/ w_post' = w_post /\ v = Wall!NoCall
             \/ /\ p \in Wall!Live /\ w_post' = [w_post EXCEPT ![p].at = "deleted"]
                /\ w_askew' \/ v.at = "drop"
    <2>1. "drop" \in Wall!Steps
      BY DEF Wall!Steps
    <2>2. CASE Wall!Goes(c, "drop")
      <3>1. PICK v \in Request : w_call' = [w_call EXCEPT ![c] = v] /\ v.at = "drop" /\ v.n = 1
        BY <2>1, <2>2, <1>1, GoesTo DEF WallInv
      <3>2. ~Wall!Answered(c)
        <4>1. w_call'[c] = v
          BY <3>1 DEF WallInv, WallShape
        <4> QED
          BY <4>1, <3>1, NoRequest DEF Wall!Answered, WallInv, WallShape
      <3>3. p \in Wall!Live /\ w_post' = [w_post EXCEPT ![p].at = "deleted"] /\ w_askew' = w_askew
        BY <3>2, <1>0 DEF Wall!DeletePost
      <3> QED
        BY <3>1, <3>3, <1>1
    <2>3. CASE ~Wall!Goes(c, "drop")
      <3>1. Wall!NoCall \in Request /\ w_call' = [w_call EXCEPT ![c] = Wall!NoCall]
        BY <2>3, NoRequest DEF Wall!DeletePost, Wall!Answered
      <3>2. \/ w_post' = w_post /\ w_askew' = w_askew
            \/ p \in Wall!Live /\ w_post' = [w_post EXCEPT ![p].at = "deleted"] /\ w_askew' = TRUE
        BY <2>3, <1>0 DEF Wall!DeletePost
      <3> QED
        BY <3>1, <3>2, <1>1
    <2> QED
      BY <2>2, <2>3
  <1>3. Fits(v) /\ v.at \in {"drop", "idle"}
    BY <1>1, <1>2, NoRequest DEF Fits, OnPost
  <1>4. /\ w_call' \in [Calls -> Request]
        /\ \A o \in Calls : w_call'[o] = IF o = c THEN v ELSE w_call[o]
        /\ \A o \in Calls : Fits(w_call'[o])
        /\ \A o \in Calls, q \in Wall!Posts : (Bumps(o, q)' <=> Bumps(o, q)) /\ (Tells(o, q)' <=> Tells(o, q))
        /\ \A e \in Awarding, q \in Wall!Posts : Pays(e, q)' <=> Pays(e, q)
    BY <1>1, <1>2, <1>3, RequestMoves DEF WallInv
  <1>5. /\ w_post' \in [Wall!Posts -> [at : {"none", "visible", "held", "deleted"}, mentions : BOOLEAN]]
        /\ \A q \in Wall!Posts : q # p => w_post'[q] = w_post[q]
        /\ w_post' = w_post \/ (p \in Wall!Live /\ w_post'[p].at = "deleted")
    BY <1>1, <1>2 DEF WallInv, WallShape
  <1>6. \A q \in Wall!Posts : w_post'[q].at = "none" => w_post[q].at = "none"
    BY <1>5
  <1>7. WallShape'
    <2>1. \A q \in Wall!Posts : w_post'[q].at = "none" => w_post'[q] = Wall!NoPost
      BY <1>1, <1>5 DEF WallInv, WallShape
    <2> QED
      BY <1>1, <1>2, <1>4, <1>5, <2>1 DEF WallInv, WallShape, Fits
  <1>8. CountedOnce' /\ Paying' /\ Mirrored' /\ NoticesTold'
    BY <1>1, <1>3, <1>4, <1>6, CountedKept, PayingKept, MirroredKept, ToldKept
  <1>9. Balanced'
    <2>1. CASE w_post' = w_post /\ v = Wall!NoCall
      BY <2>1, <1>1, <1>2, <1>3, <1>4, NoRequest, BalancedKept DEF Wall!Live
    <2>2. CASE w_askew'
      BY <2>2 DEF Balanced
    <2>3. CASE p \in Wall!Live /\ w_post' = [w_post EXCEPT ![p].at = "deleted"] /\ v.at = "drop"
      <3>1. Cardinality({p}) = 1
        BY FS_Singleton
      <3>2. v.n = 1
        BY <2>3, <1>2, NoRequest
      <3>3. \A q \in Wall!Posts : w_post'[q].at = IF q \in {p} THEN "deleted" ELSE w_post[q].at
        BY <2>3, <1>1 DEF WallInv, WallShape
      <3> QED
        BY <2>3, <3>1, <3>2, <3>3, <1>1, <1>2, <1>4, TombstonesOwed
    <2> QED
      BY <2>1, <2>2, <2>3, <1>2
  <1> QED
    BY <1>7, <1>8, <1>9 DEF WallInv

LEMMA PurgeSteps ==
  ASSUME WallInv, w_faults \in Nat, NEW c \in Calls, Wall!AuthorPurge(c)
  PROVE  WallInv'
  <1>1. /\ w_call[c].at = "purge" /\ w_call[c].n \in Nat /\ w_askew \in BOOLEAN
        /\ w_post' = [p \in Wall!Posts |-> IF p \in Wall!Live THEN [w_post[p] EXCEPT !.at = "deleted"] ELSE w_post[p]]
        /\ UNCHANGED <<w_liked, w_paid, w_count, w_row, w_contrib, w_notices, w_mirror,
                       w_ups, w_unpaid, w_overlap, w_doubled>>
    BY DEF Wall!AuthorPurge, Wall!ours, WallInv, WallShape
  <1>2. /\ w_askew' \in BOOLEAN /\ (w_askew => w_askew')
        /\ w_askew' \/ (w_call[c].n = Wall!Cardinality(Wall!Live) /\ w_faults' = w_faults)
    BY <1>1 DEF Wall!AuthorPurge
  <1>3. PICK v \in Request :
          /\ w_call' = [w_call EXCEPT ![c] = v]
          /\ v = Wall!NoCall \/ (v.at = "drop" /\ v.n = w_call[c].n)
          /\ w_askew' \/ (v.at = "drop" /\ v.n = w_call[c].n)
    <2>1. "drop" \in Wall!Steps
      BY DEF Wall!Steps
    <2>2. CASE Wall!Goes(c, "drop")
      BY <2>1, <2>2, GoesTo DEF WallInv
    <2>3. CASE ~Wall!Goes(c, "drop")
      <3>1. Wall!NoCall \in Request /\ w_call' = [w_call EXCEPT ![c] = Wall!NoCall]
        BY <2>3, NoRequest DEF Wall!AuthorPurge, Wall!Answered
      <3>2. w_faults' = w_faults + 1
        BY <2>3 DEF Wall!AuthorPurge, Wall!Fault
      <3>3. w_faults' # w_faults
        BY <3>2
      <3> QED
        BY <3>1, <3>3, <1>2
    <2> QED
      BY <2>2, <2>3
  <1>4. Fits(v) /\ v.at \in {"drop", "idle"}
    BY <1>1, <1>3, NoRequest DEF Fits, OnPost
  <1>5. /\ w_call' \in [Calls -> Request]
        /\ \A o \in Calls : w_call'[o] = IF o = c THEN v ELSE w_call[o]
        /\ \A o \in Calls : Fits(w_call'[o])
        /\ \A o \in Calls, q \in Wall!Posts : (Bumps(o, q)' <=> Bumps(o, q)) /\ (Tells(o, q)' <=> Tells(o, q))
        /\ \A e \in Awarding, q \in Wall!Posts : Pays(e, q)' <=> Pays(e, q)
    BY <1>1, <1>3, <1>4, RequestMoves DEF WallInv
  <1>6. /\ w_post' \in [Wall!Posts -> [at : {"none", "visible", "held", "deleted"}, mentions : BOOLEAN]]
        /\ \A q \in Wall!Posts : q \notin Wall!Live => w_post'[q] = w_post[q]
        /\ \A q \in Wall!Live : w_post'[q].at = "deleted"
    BY <1>1 DEF WallInv, WallShape, Wall!Live
  <1>7. /\ \A q \in Wall!Posts : w_post'[q].at = IF q \in Wall!Live THEN "deleted" ELSE w_post[q].at
        /\ \A q \in Wall!Posts : w_post'[q].at = "none" => w_post[q].at = "none"
    BY <1>6 DEF Wall!Live
  <1>8. WallShape'
    <2>1. \A q \in Wall!Posts : w_post'[q].at = "none" => w_post'[q] = Wall!NoPost
      BY <1>6, <1>7 DEF WallInv, WallShape
    <2> QED
      BY <1>1, <1>2, <1>5, <1>6, <2>1 DEF WallInv, WallShape, Fits
  <1>9. CountedOnce' /\ Paying' /\ Mirrored' /\ NoticesTold'
    BY <1>1, <1>4, <1>5, <1>7, CountedKept, PayingKept, MirroredKept, ToldKept
  <1>10. Balanced'
    <2>1. CASE w_askew'
      BY <2>1 DEF Balanced
    <2>2. CASE ~w_askew'
      <3>1. v.at = "drop" /\ v.n = Cardinality(Wall!Live)
        <4>1. v.at = "drop" /\ v.n = Wall!Cardinality(Wall!Live)
          BY <2>2, <1>2, <1>3
        <4> QED
          BY <4>1 DEF Cardinality, Wall!Cardinality
      <3> QED
        BY <3>1, <1>1, <1>2, <1>5, <1>7, TombstonesOwed
    <2> QED
      BY <2>1, <2>2
  <1> QED
    BY <1>8, <1>9, <1>10 DEF WallInv

-----------------------------------------------------------------------------
(* Every step. *)

\* What the shape bounds besides: a post was counted before it is in the counter.
Ups == {p \in Wall!Posts : w_ups[p] = 1}
Bounded == w_reqs \in 0..MaxReq /\ w_faults \in 0..MaxFault /\ w_count <= Cardinality(Ups)

LEMMA BoundsKept ==
  ASSUME WallInv, Bounded, Wall!Next
  PROVE  Bounded'
  <1>1. /\ w_reqs' = w_reqs \/ (w_reqs < MaxReq /\ w_reqs' = w_reqs + 1)
        /\ w_faults' = w_faults \/ (w_faults < MaxFault /\ w_faults' = w_faults + 1)
    <2> DEFINE Small == /\ w_reqs' = w_reqs \/ (w_reqs < MaxReq /\ w_reqs' = w_reqs + 1)
                        /\ w_faults' = w_faults \/ (w_faults < MaxFault /\ w_faults' = w_faults + 1)
    <2>1. ASSUME NEW c \in Calls,
                 \/ Wall!Bump(c) \/ Wall!EnsureContributor(c) \/ Wall!CountContributor(c) \/ Wall!Adjust(c)
                 \/ Wall!Cache(c) \/ Wall!DeletePost(c) \/ Wall!Drop(c)
          PROVE  Small
      BY <2>1 DEF Wall!Bump, Wall!EnsureContributor, Wall!CountContributor, Wall!Adjust, Wall!Cache,
                  Wall!DeletePost, Wall!Drop, Wall!Fault
    <2>2. ASSUME NEW c \in Calls,
                 \/ Wall!PurgeAuthor(c) \/ Wall!AuthorPurge(c) \/ Wall!React(c) \/ Wall!Look(c) \/ Wall!Tell(c)
                 \/ Wall!Die(c) \/ \E w \in Wall!Accounts : Wall!Balance(c, w)
          PROVE  Small
      BY <2>2 DEF Wall!PurgeAuthor, Wall!AuthorPurge, Wall!React, Wall!Look, Wall!Tell, Wall!Die, Wall!Balance,
                  Wall!Begin, Wall!Fault
    <2>3. ASSUME NEW c \in Calls, NEW m \in BOOLEAN,
                 \/ \E status \in {"visible", "held"} : Wall!CommentOnAnchor(c, status, m)
                 \/ \E moderator \in BOOLEAN : Wall!EditPost(c, m, moderator)
          PROVE  Small
      BY <2>3 DEF Wall!CommentOnAnchor, Wall!EditPost, Wall!Fault
    <2>4. ASSUME NEW c \in Calls, NEW p \in Wall!Posts,
                 \/ Wall!Create(c, p) \/ Wall!Delete(c, p) \/ Wall!Update(c, p)
                 \/ \E on \in BOOLEAN : Wall!SetLike(c, p, on)
          PROVE  Small
      BY <2>4 DEF Wall!Create, Wall!Delete, Wall!Update, Wall!SetLike, Wall!Begin
    <2>5. ASSUME NEW p \in Wall!Posts, Wall!Flagged(p) PROVE Small
      BY <2>5 DEF Wall!Flagged
    <2> HIDE DEF Small
    <2>6. Small
      BY <2>1, <2>2, <2>3, <2>4, <2>5 DEF Wall!Next
    <2> QED
      BY <2>6 DEF Small
  <1>2. w_reqs' \in 0..MaxReq /\ w_faults' \in 0..MaxFault
    BY <1>1, ServicesAssumption DEF Bounded
  <1>3. \/ w_count' = w_count /\ w_ups' = w_ups
        \/ \E c \in Calls : Wall!Bump(c) \/ Wall!Drop(c)
    <2> DEFINE Same == UNCHANGED <<w_count, w_ups>>
    <2>1. ASSUME NEW c \in Calls,
                 \/ Wall!EnsureContributor(c) \/ Wall!CountContributor(c) \/ Wall!Adjust(c) \/ Wall!Cache(c)
                 \/ Wall!DeletePost(c) \/ Wall!PurgeAuthor(c) \/ Wall!AuthorPurge(c)
          PROVE  Same
      BY <2>1 DEF Wall!EnsureContributor, Wall!CountContributor, Wall!Adjust, Wall!Cache, Wall!DeletePost,
             Wall!PurgeAuthor, Wall!AuthorPurge, Wall!Begin, Wall!ours, Wall!history
    <2>2. ASSUME NEW c \in Calls, Wall!React(c) \/ Wall!Look(c) \/ Wall!Tell(c) \/ Wall!Die(c) PROVE Same
      BY <2>2 DEF Wall!React, Wall!Look, Wall!Tell, Wall!Die, Wall!ours, Wall!history
    <2>3. ASSUME NEW c \in Calls, NEW m \in BOOLEAN,
                 \/ \E status \in {"visible", "held"} : Wall!CommentOnAnchor(c, status, m)
                 \/ \E moderator \in BOOLEAN : Wall!EditPost(c, m, moderator)
          PROVE  Same
      BY <2>3 DEF Wall!CommentOnAnchor, Wall!EditPost, Wall!ours, Wall!history
    <2>4. ASSUME NEW c \in Calls, NEW w \in Wall!Accounts, Wall!Balance(c, w) PROVE Same
      BY <2>4 DEF Wall!Balance, Wall!ours
    <2>5. ASSUME NEW c \in Calls, NEW p \in Wall!Posts,
                 \/ Wall!Create(c, p) \/ Wall!Delete(c, p) \/ Wall!Update(c, p)
                 \/ \E on \in BOOLEAN : Wall!SetLike(c, p, on)
          PROVE  Same
      BY <2>5 DEF Wall!Create, Wall!Delete, Wall!Update, Wall!SetLike, Wall!Begin, Wall!ours, Wall!history
    <2>6. ASSUME NEW p \in Wall!Posts, Wall!Flagged(p) PROVE Same
      BY <2>6 DEF Wall!Flagged, Wall!ours, Wall!history
    <2>7. Same \/ \E c \in Calls : Wall!Bump(c) \/ Wall!Drop(c)
      <3> HIDE DEF Same
      <3> QED
        BY <2>1, <2>2, <2>3, <2>4, <2>5, <2>6 DEF Wall!Next
    <2> QED
      BY <2>7
  <1>4. w_count \in Nat /\ Cardinality(Ups) \in Nat /\ IsFiniteSet(Ups)
    BY PostsFinite DEF WallInv, WallShape, Ups
  <1>5. CASE w_count' = w_count /\ w_ups' = w_ups
    BY <1>2, <1>5 DEF Bounded, Ups
  <1>6. ASSUME NEW c \in Calls, Wall!Bump(c) PROVE Bounded'
    <2>1. PICK p \in Wall!Posts : p = w_call[c].post /\ Bumps(c, p)
      BY <1>6 DEF Wall!Bump, WallInv, WallShape, OnPost, Bumps
    <2>2. w_ups[p] = 0
      BY <2>1 DEF WallInv, CountedOnce
    <2>3. w_count' = w_count + 1 /\ \A q \in Wall!Posts : w_ups'[q] = IF q = p THEN 1 ELSE w_ups[q]
      BY <1>6, <2>1, <2>2 DEF Wall!Bump, WallInv, WallShape
    <2>4. Ups' = Ups \cup {p} /\ p \notin Ups
      BY <2>2, <2>3 DEF Ups
    <2>5. Cardinality(Ups') = Cardinality(Ups) + 1
      BY <2>4, <1>4, FS_AddElement
    <2>6. w_count' <= Cardinality(Ups')
      BY <2>3, <2>5, <1>4 DEF Bounded
    <2> QED
      BY <1>2, <2>6 DEF Bounded
  <1>7. ASSUME NEW c \in Calls, Wall!Drop(c) PROVE Bounded'
    <2>1. w_ups' = w_ups /\ w_count' = (IF w_count < w_call[c].n THEN 0 ELSE w_count - w_call[c].n)
      BY <1>7 DEF Wall!Drop
    <2>2. w_call[c].n \in Nat
      BY <1>7 DEF Wall!Drop, WallInv, WallShape
    <2>3. w_count' <= w_count /\ w_count' \in Nat
      BY <2>1, <2>2, <1>4
    <2>4. Ups' = Ups
      BY <2>1 DEF Ups
    <2>5. w_count' <= Cardinality(Ups')
      BY <2>3, <2>4, <1>4 DEF Bounded
    <2> QED
      BY <1>2, <2>5 DEF Bounded
  <1> QED
    BY <1>3, <1>5, <1>6, <1>7

LEMMA InitWall ==
  ASSUME Wall!Init
  PROVE  WallInv /\ Bounded
  <1>1. /\ w_liked = {} /\ w_paid = {} /\ w_count = 0 /\ w_row = FALSE /\ w_contrib = 0
        /\ w_askew = FALSE /\ w_unpaid = FALSE /\ w_overlap = {} /\ w_doubled = {}
        /\ w_reqs = 0 /\ w_faults = 0
        /\ w_post = [p \in Wall!Posts |-> Wall!NoPost]
        /\ w_notices = [p \in Wall!Posts |-> 0] /\ w_ups = [p \in Wall!Posts |-> 0]
        /\ w_mirror = [w \in Wall!Accounts |-> 0] /\ w_call = [c \in Calls |-> Wall!NoCall]
    BY DEF Wall!Init
  <1>2. w_post \in [Wall!Posts -> [at : {"none", "visible", "held", "deleted"}, mentions : BOOLEAN]]
        /\ \A p \in Wall!Posts : w_post[p] = Wall!NoPost /\ w_post[p].at = "none"
    <2>1. Wall!NoPost \in [at : {"none", "visible", "held", "deleted"}, mentions : BOOLEAN] /\ Wall!NoPost.at = "none"
      BY Zenon DEF Wall!NoPost
    <2> QED
      BY <1>1, <2>1
  <1>3. w_call \in [Calls -> Request] /\ \A c \in Calls : w_call[c].at = "idle"
    BY <1>1, NoRequest
  <1>4. WallShape
    <2>1. /\ w_row \in BOOLEAN /\ w_askew \in BOOLEAN /\ w_unpaid \in BOOLEAN
          /\ w_liked \subseteq Wall!Posts /\ w_paid \subseteq Wall!Keys /\ w_doubled \subseteq Wall!Posts
          /\ w_overlap \subseteq Wall!Accounts
      BY <1>1
    <2>2. /\ w_count \in Nat /\ w_contrib \in Nat /\ w_mirror \in [Wall!Accounts -> Int]
          /\ w_notices \in [Wall!Posts -> Nat] /\ w_ups \in [Wall!Posts -> Nat]
      BY <1>1
    <2>3. \A c \in Calls : w_call[c].at \notin OnPost \cup {"award", "contributor", "cache", "drop", "purge"}
      BY <1>3 DEF OnPost
    <2> QED
      BY <1>2, <1>3, <2>1, <2>2, <2>3 DEF WallShape, OnPost
  <1>5. CountedOnce
    BY <1>1, <1>2, <1>3 DEF CountedOnce, Bumps
  <1>6. Balanced
    <2> DEFINE D == [c \in Calls |-> {}]
    <2>1. D \in [Calls -> SUBSET Wall!Posts] /\ \A c \in Calls : D[c] = {}
      OBVIOUS
    <2> HIDE DEF D
    <2>2. Uncounted = {} /\ Wall!Live = {} /\ UNION {D[c] : c \in Calls} = {}
      BY <2>1, <1>2, <1>3 DEF Uncounted, Wall!Live, Bumps
    <2>3. w_count + Cardinality(Uncounted) = Cardinality(Wall!Live \cup UNION {D[c] : c \in Calls})
      <3>1. Cardinality(Uncounted) = 0 /\ Cardinality(Wall!Live \cup UNION {D[c] : c \in Calls}) = 0
        BY <2>2, FS_EmptySet
      <3> QED
        BY <3>1, <1>1
    <2>4. Owes(D)
      BY <2>1, <2>3, <1>3 DEF Owes
    <2> QED
      BY <2>1, <2>4 DEF Balanced
  <1>7. Paying
    BY <1>1, <1>3 DEF Paying, Pays
  <1>8. Mirrored
    <2>1. \A who \in Wall!Accounts : Wall!Reading(who) = {}
      BY <1>3 DEF Wall!Reading
    <2>2. \A event : Wall!Entries(event, {}) = 0
      <3> TAKE event
      <3>1. {k \in {} : k[1] = event} = {}
        OBVIOUS
      <3>2. Cardinality({k \in {} : k[1] = event}) = 0
        BY <3>1, FS_EmptySet
      <3> QED
        BY <3>2 DEF Wall!Entries, Cardinality, Wall!Cardinality
    <2>3. \A who \in Wall!Accounts : Wall!BalanceIn(who, {}) = 0
      BY <2>2 DEF Wall!BalanceIn
    <2> QED
      BY <1>1, <2>1, <2>3 DEF Mirrored
  <1>9. NoticesTold
    BY <1>1, <1>3 DEF NoticesTold, Tells
  <1>10. Bounded
    <2>1. Cardinality(Ups) \in Nat
      BY PostsFinite DEF Ups
    <2> QED
      BY <1>1, <2>1, ServicesAssumption DEF Bounded
  <1> QED
    BY <1>4, <1>5, <1>6, <1>7, <1>8, <1>9, <1>10 DEF WallInv

LEMMA NextWall ==
  ASSUME WallInv, Bounded, Wall!Next
  PROVE  WallInv' /\ Bounded'
  <1>1. w_faults \in Nat
    BY ServicesAssumption DEF Bounded
  <1>2. ASSUME NEW c \in Calls,
               \/ Wall!Bump(c) \/ Wall!EnsureContributor(c) \/ Wall!CountContributor(c) \/ Wall!Adjust(c)
               \/ Wall!Cache(c) \/ Wall!DeletePost(c) \/ Wall!Drop(c) \/ Wall!PurgeAuthor(c)
               \/ Wall!AuthorPurge(c) \/ Wall!React(c) \/ Wall!Look(c) \/ Wall!Tell(c) \/ Wall!Die(c)
        PROVE  WallInv'
    BY <1>1, <1>2, BumpSteps, ContributorSteps, AdjustSteps, CacheSteps, DeleteSteps, DropSteps, ArriveSteps,
       PurgeSteps, ReactSteps, LookSteps, DieSteps
  <1>3. ASSUME NEW c \in Calls, NEW m \in BOOLEAN,
               \/ \E status \in {"visible", "held"} : Wall!CommentOnAnchor(c, status, m)
               \/ \E moderator \in BOOLEAN : Wall!EditPost(c, m, moderator)
        PROVE  WallInv'
    BY <1>3, WriteSteps, EditSteps
  <1>4. ASSUME NEW c \in Calls, NEW w \in Wall!Accounts, Wall!Balance(c, w) PROVE WallInv'
    BY <1>4, BalanceSteps
  <1>5. ASSUME NEW c \in Calls, NEW p \in Wall!Posts,
               \/ Wall!Create(c, p) \/ Wall!Delete(c, p) \/ Wall!Update(c, p)
               \/ \E on \in BOOLEAN : Wall!SetLike(c, p, on)
        PROVE  WallInv'
    BY <1>5, ArriveSteps
  <1>6. ASSUME NEW p \in Wall!Posts, Wall!Flagged(p) PROVE WallInv'
    BY <1>6, FlagSteps
  <1>7. WallInv'
    BY <1>2, <1>3, <1>4, <1>5, <1>6 DEF Wall!Next
  <1> QED
    BY <1>7, BoundsKept

LEMMA OthersLeaveWall ==
  ASSUME [NextOfOne]_allVars
  PROVE  Wall!Next \/ UNCHANGED wallVars
  BY DEF NextOfOne, allVars, FeedOnly, ChatOnly, SiteOnly

LEMMA StillWall ==
  ASSUME WallInv, Bounded, UNCHANGED wallVars
  PROVE  WallInv' /\ Bounded'
  <1>1. /\ w_post' = w_post /\ w_liked' = w_liked /\ w_paid' = w_paid /\ w_count' = w_count /\ w_row' = w_row
        /\ w_contrib' = w_contrib /\ w_mirror' = w_mirror /\ w_notices' = w_notices /\ w_call' = w_call
        /\ w_reqs' = w_reqs /\ w_faults' = w_faults /\ w_ups' = w_ups /\ w_askew' = w_askew
        /\ w_unpaid' = w_unpaid /\ w_overlap' = w_overlap /\ w_doubled' = w_doubled
    BY DEF wallVars
  <1>2. \A o \in Calls, q \in Wall!Posts : (Bumps(o, q)' <=> Bumps(o, q)) /\ (Tells(o, q)' <=> Tells(o, q))
    BY <1>1 DEF Bumps, Tells
  <1>3. \A e \in Awarding, q \in Wall!Posts : Pays(e, q)' <=> Pays(e, q)
    BY <1>1 DEF Pays
  <1>4. WallShape'
    BY <1>1 DEF WallInv, WallShape
  <1>5. CountedOnce' /\ Balanced' /\ Paying' /\ Mirrored' /\ NoticesTold'
    BY <1>1, <1>2, <1>3, CountedKept, BalancedKept, PayingKept, MirroredKept, ToldKept DEF Wall!Live
  <1>6. Bounded'
    BY <1>1 DEF Bounded, Ups
  <1> QED
    BY <1>4, <1>5, <1>6 DEF WallInv

\* What the wall keeps follows: with no request at work nobody owes anything.
LEMMA WallSettles ==
  ASSUME WallInv
  PROVE  Wall!WallKept
  <1>1. Wall!Idle => \A c \in Calls : w_call[c].at = "idle"
    BY NoRequest DEF Wall!Idle
  <1>2. Wall!CountSettles
    <2>1. (\A p \in Wall!Posts : w_ups[p] <= 1) /\ w_contrib <= 1
      BY DEF WallInv, CountedOnce
    <2>2. ASSUME Wall!Idle, ~w_askew PROVE w_count = Wall!Cardinality(Wall!Live)
      <3>1. PICK D \in [Calls -> SUBSET Wall!Posts] : Owes(D)
        BY <2>2 DEF WallInv, Balanced
      <3>2. UNION {D[c] : c \in Calls} = {}
        BY <3>1, <1>1, <2>2 DEF Owes
      <3>3. Uncounted = {}
        BY <1>1, <2>2 DEF Uncounted, Bumps
      <3>4. w_count + Cardinality({}) = Cardinality(Wall!Live \cup {})
        BY <3>1, <3>2, <3>3 DEF Owes
      <3>5. Cardinality({}) = 0 /\ Wall!Live \cup {} = Wall!Live
        BY FS_EmptySet
      <3>6. w_count = Cardinality(Wall!Live)
        BY <3>4, <3>5 DEF WallInv, WallShape
      <3> QED
        BY <3>6 DEF Cardinality, Wall!Cardinality
    <2> QED
      BY <2>1, <2>2 DEF Wall!CountSettles
  <1>3. Wall!LikesPaid
    <2>1. Wall!Idle => \A p \in Wall!Posts : ~Pays("like", p) /\ ~Pays("unlike", p)
      BY <1>1 DEF Pays
    <2> QED
      BY <2>1 DEF WallInv, Paying, Wall!LikesPaid
  <1>4. Wall!MirrorSettles
    <2>1. Wall!Idle => \A who \in Wall!Accounts : Wall!Reading(who) = {}
      BY <1>1 DEF Wall!Reading
    <2> QED
      BY <2>1 DEF WallInv, Mirrored, Wall!MirrorSettles
  <1>5. Wall!ToldOnce
    BY DEF WallInv, NoticesTold, Wall!ToldOnce
  <1> QED
    BY <1>2, <1>3, <1>4, <1>5 DEF Wall!WallKept

\* WallKept: the counter of a wall comes to its posts, likes are paid, the
\* balances shown are the ledger's and a mention is told once, for any number of
\* requests and posts.
THEOREM WallIsKept == SpecOfOne => []WallKept
  <1>1. InitOfOne => WallInv /\ Bounded
    BY InitWall DEF InitOfOne
  <1>2. WallInv /\ Bounded /\ [NextOfOne]_allVars => (WallInv /\ Bounded)'
    BY NextWall, OthersLeaveWall, StillWall
  <1>3. WallInv => WallKept
    BY WallSettles DEF WallKept
  <1> QED
    BY <1>1, <1>2, <1>3, PTL DEF SpecOfOne

-----------------------------------------------------------------------------
(***************************************************************************)
(* The room (ChatRoom).                                                    *)
(*                                                                         *)
(* Why: a message that is being inserted belongs to one request and is not *)
(* shown, and every other request is about a shown one (Written).  A       *)
(* message that came back from a withdrawal is overtaken before an edit of *)
(* it can read that it was withdrawn (Withdrawn).  The page shows shown    *)
(* messages, each once, and a listing leaves no gap in what it lists       *)
(* (NoGap).                                                                *)
(***************************************************************************)

Message == [at : {"none", "open", "void", "SENT", "EDITED", "DELETED"}, by : Users \cup {0}, text : Nat,
            trail : Seq(Nat), gone : BOOLEAN, to : {0} \cup Chat!Msgs]
Job == [op : Chat!Ops, by : Users \cup {0}, m : {0} \cup Chat!Msgs, text : Nat, found : BOOLEAN]
Room == [made : BOOLEAN, type : {"PRIVATE", "GROUP"}, members : SUBSET Users, last : {0} \cup Chat!Msgs]

ChatShape ==
  /\ c_room \in Room /\ c_msgs \in [Chat!Msgs -> Message] /\ c_next \in 1..(MaxMsg + 1)
  /\ c_reactions \subseteq Chat!Msgs \X Users /\ c_seen \subseteq Chat!Msgs \X Users
  /\ c_texts \in Nat /\ c_moved \in BOOLEAN
  /\ c_call \in [Calls -> Job] /\ c_view \in [list : Seq(Chat!Msgs), more : BOOLEAN]

\* What each request is about.
Written ==
  /\ \A m \in Chat!Msgs : m >= c_next => c_msgs[m].at = "none"
  /\ \A m \in Chat!Msgs \ Chat!Shown : ~c_msgs[m].gone /\ c_msgs[m].trail = <<>>
  /\ \A c \in Calls :
       /\ c_call[c].op = "insert" =>
            /\ c_call[c].m \in Chat!Msgs /\ c_msgs[c_call[c].m].at = "open"
            /\ \A o \in Calls : c_call[o].op = "insert" /\ c_call[o].m = c_call[c].m => o = c
       /\ c_call[c].op \in {"edit", "delete", "react"} => c_call[c].m \in Chat!Shown
       /\ c_call[c].op = "react" => c_call[c].by \in Users
       /\ c_call[c].op \in {"send", "insert"} => c_call[c].by \in Users

\* A text is from a request of its own.
Writing == {c \in Calls : c_call[c].op \in {"send", "edit"}}
Spent == c_acts \in 0..MaxActs /\ c_texts + Cardinality(Writing) <= c_acts

\* Nothing is at work in a room that was taken over with no request open.
Moved ==
  c_copied # <<>> =>
    /\ Chat!Frozen
    /\ c_late = {} => c_copied = <<c_msgs, c_reactions>> /\ \A c \in Calls : c_call[c].op = "idle"

Withdrawn ==
  /\ Chat!WithdrawnStays
  /\ \A c \in Calls : c_call[c].op = "edit" /\ c_call[c].found => c_call[c].m \in c_overtaken

Rising(s) == \A i \in 2..Len(s) : s[i - 1] < s[i]
Trails ==
  \A m \in Chat!Msgs :
    /\ c_msgs[m].text <= c_texts
    /\ m \notin c_crossed => Rising(Append(c_msgs[m].trail, c_msgs[m].text))

\* What the page shows, between its ends, and where nothing is left before it.
PageOf(list) == {list[i] : i \in 1..Len(list)}
NoGap ==
  /\ PageOf(c_view.list) \subseteq Chat!Shown
  /\ \A i, j \in 1..Len(c_view.list) : c_view.list[i] = c_view.list[j] => i = j
  /\ c_view.list # <<>> =>
       \A m \in Chat!Shown \ c_skipped :
         m <= c_view.list[Len(c_view.list)] /\ (c_view.more => m >= c_view.list[1]) => m \in PageOf(c_view.list)

ChatInv == ChatShape /\ Written /\ Spent /\ Moved /\ Withdrawn /\ Trails /\ NoGap

LEMMA MsgsFinite == \A S \in SUBSET Chat!Msgs : S \subseteq Nat /\ IsFiniteSet(S) /\ Cardinality(S) \in Nat
  <1>1. IsFiniteSet(Chat!Msgs) /\ Chat!Msgs \subseteq Nat
    BY FS_Interval, ServicesAssumption DEF Chat!Msgs
  <1> QED
    BY <1>1, FS_Subset, FS_CardinalityType

\* A finite set of numbers has a last one, and a first one.
LEMMA LastExists ==
  ASSUME NEW S \in SUBSET Nat, IsFiniteSet(S), S # {}
  PROVE  \E x \in S : \A y \in S : y <= x
  <1> DEFINE Above(x) == {o \in S : o > x}
             T == {Above(x) : x \in S}
  <1>1. T \subseteq FiniteSubsetsOf(S) /\ T # {}
    <2>1. \A x \in S : Above(x) \in FiniteSubsetsOf(S)
      BY FS_FiniteSubsetsOfFinite
    <2> QED
      BY <2>1
  <1>2. PICK A \in T : \A B \in T : <<B, A>> \notin StrictSubsetOrdering(S)
    BY <1>1, FS_StrictSubsetOrderingWellFounded, WFMin
  <1>3. PICK x \in S : A = Above(x)
    BY <1>2
  <1>4. ASSUME NEW y \in S, y > x PROVE FALSE
    <2>1. Above(y) \subseteq Above(x) /\ y \in Above(x) /\ y \notin Above(y)
      <3>1. x \in Nat /\ y \in Nat /\ \A o \in S : o \in Nat
        OBVIOUS
      <3>2. \A o \in S : o > y => o > x
        BY <3>1, <1>4
      <3>3. Above(y) \subseteq Above(x)
        BY <3>2
      <3>4. y \in Above(x)
        BY <1>4
      <3>5. y \notin Above(y)
        BY <3>1
      <3> QED
        BY <3>3, <3>4, <3>5
    <2>2. <<Above(y), Above(x)>> \in StrictSubsetOrdering(S)
      BY <2>1 DEF StrictSubsetOrdering
    <2> QED
      BY <1>2, <1>3, <2>2
  <1> QED
    BY <1>4

LEMMA FirstExists ==
  ASSUME NEW S \in SUBSET Nat, IsFiniteSet(S), S # {}
  PROVE  \E x \in S : \A y \in S : x <= y
  <1> DEFINE Below(x) == {o \in S : o < x}
             T == {Below(x) : x \in S}
  <1>1. T \subseteq FiniteSubsetsOf(S) /\ T # {}
    <2>1. \A x \in S : Below(x) \in FiniteSubsetsOf(S)
      BY FS_FiniteSubsetsOfFinite
    <2> QED
      BY <2>1
  <1>2. PICK A \in T : \A B \in T : <<B, A>> \notin StrictSubsetOrdering(S)
    BY <1>1, FS_StrictSubsetOrderingWellFounded, WFMin
  <1>3. PICK x \in S : A = Below(x)
    BY <1>2
  <1>4. ASSUME NEW y \in S, y < x PROVE FALSE
    <2>1. Below(y) \subseteq Below(x) /\ y \in Below(x) /\ y \notin Below(y)
      <3>1. x \in Nat /\ y \in Nat /\ \A o \in S : o \in Nat
        OBVIOUS
      <3>2. \A o \in S : o < y => o < x
        BY <3>1, <1>4
      <3>3. Below(y) \subseteq Below(x)
        BY <3>2
      <3>4. y \in Below(x)
        BY <1>4
      <3>5. y \notin Below(y)
        BY <3>1
      <3> QED
        BY <3>3, <3>4, <3>5
    <2>2. <<Below(y), Below(x)>> \in StrictSubsetOrdering(S)
      BY <2>1 DEF StrictSubsetOrdering
    <2> QED
      BY <1>2, <1>3, <2>2
  <1> QED
    BY <1>4

\* What a listing has in order: every message, once, the least first.
LEMMA ListedInOrder ==
  ASSUME NEW S \in SUBSET Chat!Msgs
  PROVE  /\ Chat!InOrder(S) \in Seq(Chat!Msgs)
         /\ PageOf(Chat!InOrder(S)) = S
         /\ \A i, j \in 1..Len(Chat!InOrder(S)) : Chat!InOrder(S)[i] = Chat!InOrder(S)[j] => i = j
         /\ (Chat!InOrder(S) = <<>>) <=> (S = {})
         /\ S # {} => /\ \A m \in S : Chat!InOrder(S)[1] <= m
                      /\ \A m \in S : m <= Chat!InOrder(S)[Len(Chat!InOrder(S))]
  <1>1. PICK n \in Nat : n = Cardinality(S) /\ IsFiniteSet(S) /\ S \subseteq Nat
    BY MsgsFinite
  <1> DEFINE Rank == [m \in S |-> Cardinality({o \in S : o <= m})]
             Rising2(s) == \A i, j \in DOMAIN s : i < j => s[i] < s[j]
  <1>2. \A m \in S : Rank[m] \in 1..n
    <2> SUFFICES ASSUME NEW m \in S PROVE Rank[m] \in 1..n
      OBVIOUS
    <2>1. {o \in S : o <= m} \in SUBSET S /\ m \in {o \in S : o <= m}
      BY <1>1
    <2>2. /\ IsFiniteSet({o \in S : o <= m}) /\ Cardinality({o \in S : o <= m}) <= n
          /\ Cardinality({o \in S : o <= m}) \in Nat
      BY <2>1, <1>1, FS_Subset, FS_CardinalityType
    <2>3. Cardinality({o \in S : o <= m}) # 0
      BY <2>1, <2>2, FS_EmptySet
    <2> QED
      BY <2>2, <2>3
  <1>3. \A l, m \in S : l < m => Rank[l] < Rank[m]
    <2> SUFFICES ASSUME NEW l \in S, NEW m \in S, l < m PROVE Rank[l] < Rank[m]
      OBVIOUS
    <2> DEFINE A == {o \in S : o <= l}
               B == {o \in S : o <= m}
    <2>1. A \subseteq B /\ m \in B /\ m \notin A /\ B \subseteq S
      <3>1. l \in Nat /\ m \in Nat /\ \A o \in S : o \in Nat
        BY <1>1
      <3>2. \A o \in S : o <= l => o <= m
        BY <3>1
      <3>3. A \subseteq B
        BY <3>2
      <3>4. m \in B
        BY <3>1
      <3>5. m \notin A
        BY <3>1
      <3> QED
        BY <3>3, <3>4, <3>5
    <2>2. IsFiniteSet(B) /\ IsFiniteSet(A) /\ Cardinality(A) \in Nat /\ Cardinality(B) \in Nat
      BY <2>1, <1>1, FS_Subset, FS_CardinalityType
    <2>3. Cardinality(A) <= Cardinality(B) /\ Cardinality(A) # Cardinality(B)
      BY <2>1, <2>2, FS_Subset
    <2>4. Rank[l] = Cardinality(A) /\ Rank[m] = Cardinality(B)
      OBVIOUS
    <2> HIDE DEF A, B, Rank
    <2> QED
      BY <2>2, <2>3, <2>4
  <1> HIDE DEF Rank
  <1>4. Rank \in [S -> 1..n]
    BY <1>2 DEF Rank
  <1>5. \A l, m \in S : Rank[l] = Rank[m] => l = m
    BY <1>1, <1>2, <1>3
  <1>6. Rank \in Surjection(S, 1..n)
    <2>1. Rank \in Injection(S, 1..n)
      BY <1>4, <1>5 DEF Injection, IsInjective
    <2>2. IsFiniteSet(1..n) /\ Cardinality(1..n) = n
      BY FS_Interval
    <2> QED
      BY <1>1, <2>1, <2>2, FS_Injection
  <1>7. \A i \in 1..n : \E m \in S : Rank[m] = i
    BY <1>6 DEF Surjection
  <1> DEFINE t == [i \in 1..n |-> CHOOSE m \in S : Rank[m] = i]
  <1>8. t \in [1..n -> S] /\ \A i \in 1..n : Rank[t[i]] = i
    BY <1>7
  <1> HIDE DEF t
  <1>9. Rising2(t)
    <2> SUFFICES ASSUME NEW i \in 1..n, NEW j \in 1..n, i < j PROVE t[i] < t[j]
      BY <1>8
    <2>1. t[i] \in S /\ t[j] \in S /\ Rank[t[i]] = i /\ Rank[t[j]] = j
      BY <1>8
    <2>2. CASE t[j] < t[i]
      BY <2>1, <2>2, <1>3
    <2>3. CASE t[j] = t[i]
      BY <2>1, <2>3
    <2>4. t[i] \in Nat /\ t[j] \in Nat
      BY <2>1, <1>1
    <2> QED
      BY <2>2, <2>3, <2>4
  <1> DEFINE s == Chat!InOrder(S)
  <1>10. s \in [1..n -> S] /\ Rising2(s)
    <2>1. s = CHOOSE x \in [1..n -> S] : Rising2(x)
      <3>1. Chat!Cardinality(S) = n
        BY <1>1 DEF Cardinality, Chat!Cardinality
      <3> QED
        BY <3>1 DEF Chat!InOrder
    <2> HIDE DEF s, Rising2
    <2> QED
      BY <2>1, <1>8, <1>9
  <1> HIDE DEF s
  <1>11. s \in Seq(Chat!Msgs) /\ Len(s) = n /\ DOMAIN s = 1..n
    BY <1>10
  <1>12. \A i, j \in 1..n : s[i] = s[j] => i = j
    <2> SUFFICES ASSUME NEW i \in 1..n, NEW j \in 1..n, s[i] = s[j], i < j PROVE FALSE
      OBVIOUS
    <2>1. s[i] < s[j] /\ s[i] \in Nat
      BY <1>1, <1>10, <1>11
    <2> QED
      BY <2>1
  <1>13. \A m \in S : \E i \in 1..n : s[i] = m
    <2>1. s \in Injection(1..n, S)
      BY <1>10, <1>11, <1>12 DEF Injection, IsInjective
    <2>2. IsFiniteSet(1..n) /\ Cardinality(1..n) = n
      BY FS_Interval
    <2>3. s \in Surjection(1..n, S)
      BY <2>1, <2>2, <1>1, FS_Injection
    <2> QED
      BY <2>3 DEF Surjection
  <1>14. PageOf(s) = S
    BY <1>10, <1>11, <1>13 DEF PageOf
  <1>15. s = <<>> <=> S = {}
    <2>1. n = 0 <=> S = {}
      BY <1>1, FS_EmptySet
    <2> QED
      BY <2>1, <1>11
  <1>16. S # {} => n \in 1..n /\ 1 \in 1..n
    BY <1>13
  <1>17. ASSUME S # {}, NEW m \in S PROVE  s[1] <= m /\ m <= s[n]
    <2>1. PICK i \in 1..n : s[i] = m
      BY <1>13
    <2>2. i = 1 \/ s[1] < s[i]
      BY <1>10, <1>11, <1>16
    <2>3. i = n \/ s[i] < s[n]
      BY <1>10, <1>11, <1>16
    <2>4. m \in Nat /\ s[1] \in Nat /\ s[n] \in Nat
      BY <1>1, <1>10, <1>16, <1>17
    <2> QED
      BY <2>1, <2>2, <2>3, <2>4
  <1> QED
    BY <1>11, <1>12, <1>14, <1>15, <1>17 DEF s

\* A listing takes what is next to its cursor, and all when it is not full.
LEMMA LowestAreFirst ==
  ASSUME NEW S \in SUBSET Chat!Msgs, NEW m \in Chat!Lowest(S), NEW x \in S, x <= m
  PROVE  x \in Chat!Lowest(S)
  <1> DEFINE A == {o \in S : o < x}
             B == {o \in S : o < m}
  <1>1. m \in S /\ Chat!Cardinality(B) < PageSize
    BY DEF Chat!Lowest
  <1>2. x \in Nat /\ m \in Nat /\ \A o \in S : o \in Nat
    BY <1>1, MsgsFinite
  <1>3. \A o \in S : o < x => o < m
    BY <1>2
  <1>4. A \subseteq B
    BY <1>3
  <1>5. IsFiniteSet(B) /\ Cardinality(B) \in Nat
    BY MsgsFinite
  <1>6. Cardinality(A) <= Cardinality(B) /\ Cardinality(A) \in Nat
    BY <1>4, <1>5, FS_Subset, MsgsFinite
  <1>7. Cardinality(B) < PageSize
    BY <1>1 DEF Cardinality, Chat!Cardinality
  <1>8. Cardinality(A) < PageSize
    <2> HIDE DEF A, B
    <2> QED
      BY <1>5, <1>6, <1>7, ServicesAssumption
  <1>9. Chat!Cardinality(A) < PageSize
    BY <1>8 DEF Cardinality, Chat!Cardinality
  <1> QED
    BY <1>9 DEF Chat!Lowest

LEMMA HighestAreLast ==
  ASSUME NEW S \in SUBSET Chat!Msgs, NEW m \in Chat!Highest(S), NEW x \in S, m <= x
  PROVE  x \in Chat!Highest(S)
  <1> DEFINE A == {o \in S : o > x}
             B == {o \in S : o > m}
  <1>1. m \in S /\ Chat!Cardinality(B) < PageSize
    BY DEF Chat!Highest
  <1>2. x \in Nat /\ m \in Nat /\ \A o \in S : o \in Nat
    BY <1>1, MsgsFinite
  <1>3. \A o \in S : o > x => o > m
    BY <1>2
  <1>4. A \subseteq B
    BY <1>3
  <1>5. IsFiniteSet(B) /\ Cardinality(B) \in Nat
    BY MsgsFinite
  <1>6. Cardinality(A) <= Cardinality(B) /\ Cardinality(A) \in Nat
    BY <1>4, <1>5, FS_Subset, MsgsFinite
  <1>7. Cardinality(B) < PageSize
    BY <1>1 DEF Cardinality, Chat!Cardinality
  <1>8. Cardinality(A) < PageSize
    <2> HIDE DEF A, B
    <2> QED
      BY <1>5, <1>6, <1>7, ServicesAssumption
  <1>9. Chat!Cardinality(A) < PageSize
    BY <1>8 DEF Cardinality, Chat!Cardinality
  <1> QED
    BY <1>9 DEF Chat!Highest

LEMMA HighestAreAll ==
  ASSUME NEW S \in SUBSET Chat!Msgs, Chat!Cardinality(Chat!Highest(S)) # PageSize
  PROVE  Chat!Highest(S) = S
  <1> DEFINE H == {m \in S : Cardinality({o \in S : o > m}) < PageSize}
  <1>1. Chat!Highest(S) = H
    BY DEF Chat!Highest, Cardinality, Chat!Cardinality
  <1>2. Cardinality(H) # PageSize
    BY <1>1 DEF Cardinality, Chat!Cardinality
  <1> SUFFICES ASSUME S \ H # {} PROVE FALSE
    BY <1>1
  <1>3. PICK x \in S \ H : \A y \in S \ H : y <= x
    <2>1. S \ H \in SUBSET Chat!Msgs
      OBVIOUS
    <2> QED
      BY <2>1, LastExists, MsgsFinite
  <1> DEFINE A == {o \in S : o > x}
  <1>4. S \subseteq Nat /\ x \in Nat /\ A \in SUBSET Chat!Msgs /\ IsFiniteSet(A) /\ Cardinality(A) \in Nat
    BY MsgsFinite
  <1>5. Cardinality(A) >= PageSize
    BY <1>4, ServicesAssumption
  <1>6. A = H
    <2>1. \A m \in A : m \in H
      BY <1>3, <1>4
    <2>2. \A m \in H : m \in A
      <3> SUFFICES ASSUME NEW m \in H, m \notin A PROVE FALSE
        OBVIOUS
      <3>1. m \in Nat /\ m <= x
        BY <1>4
      <3>2. A \subseteq {o \in S : o > m}
        <4>1. \A o \in S : o > x => o > m
          BY <3>1, <1>4
        <4> QED
          BY <4>1
      <3>3. {o \in S : o > m} \in SUBSET Chat!Msgs
        OBVIOUS
      <3>4. Cardinality(A) <= Cardinality({o \in S : o > m}) /\ Cardinality({o \in S : o > m}) \in Nat
        BY <3>2, <3>3, FS_Subset, MsgsFinite
      <3>5. Cardinality({o \in S : o > m}) < PageSize
        OBVIOUS
      <3> QED
        BY <3>4, <3>5, <1>4, <1>5, ServicesAssumption
    <2> QED
      BY <2>1, <2>2
  <1>7. Cardinality(A) > PageSize
    <2>1. Cardinality(A) # PageSize
      BY <1>2, <1>6
    <2> HIDE DEF A
    <2> QED
      BY <2>1, <1>4, <1>5, ServicesAssumption
  <1>8. PICK z \in A : \A y \in A : z <= y
    <2>1. A # {}
      <3>1. Cardinality(A) # 0
        BY <1>4, <1>7, ServicesAssumption
      <3> QED
        BY <3>1, FS_EmptySet
    <2> QED
      BY <2>1, <1>4, FirstExists, MsgsFinite
  <1>9. {o \in S : o > z} = A \ {z}
    <2>1. z \in Nat /\ z > x
      BY <1>4, <1>8
    <2>2. \A o \in S : o > z <=> o > x /\ o # z
      BY <2>1, <1>4, <1>8
    <2> QED
      BY <2>2
  <1>10. Cardinality({o \in S : o > z}) = Cardinality(A) - 1
    <2>1. Cardinality(A \ {z}) = Cardinality(A) - 1
      <3> HIDE DEF A
      <3> QED
        BY <1>4, <1>8, FS_RemoveElement
    <2> QED
      BY <2>1, <1>9
  <1>11. Cardinality({o \in S : o > z}) < PageSize
    BY <1>6, <1>8
  <1> QED
    BY <1>4, <1>7, <1>10, <1>11, ServicesAssumption

-----------------------------------------------------------------------------
(* What a step leaves as it was. *)

LEMMA NoJob ==
  /\ Chat!NoCall \in Job /\ Chat!NoCall.op = "idle" /\ Chat!NoCall.m = 0 /\ Chat!NoCall.by = 0
  /\ Chat!NoCall.text = 0 /\ Chat!NoCall.found = FALSE
  BY DEF Chat!NoCall, Job, Chat!Ops

\* What the request at a record has to have.
Fit(v) ==
  /\ v.op \in {"edit", "delete", "react"} => v.m \in Chat!Shown
  /\ v.op \in {"send", "react"} => v.by \in Users

LEMMA JobMoves ==
  ASSUME ChatShape, NEW c \in Calls, NEW v \in Job, c_call' = [c_call EXCEPT ![c] = v]
  PROVE  /\ c_call' \in [Calls -> Job]
         /\ \A o \in Calls : c_call'[o] = IF o = c THEN v ELSE c_call[o]
  BY DEF ChatShape

LEMMA WrittenKept ==
  ASSUME ChatShape, Written, NEW c \in Calls, NEW v \in Job, Fit(v), v.op # "insert",
         \A o \in Calls : c_call'[o] = IF o = c THEN v ELSE c_call[o],
         c_next' = c_next,
         \A m \in Chat!Msgs : c_msgs'[m] = c_msgs[m] \/ (m \in Chat!Shown /\ c_msgs'[m].at \in {"EDITED", "DELETED"})
  PROVE  Written' /\ Chat!Shown' = Chat!Shown
  <1>1. Chat!Shown' = Chat!Shown
    BY DEF Chat!Shown
  <1>2. \A m \in Chat!Msgs : m >= c_next => c_msgs'[m].at = "none"
    BY DEF Written, Chat!Shown
  <1>3. \A m \in Chat!Msgs \ Chat!Shown : ~c_msgs'[m].gone /\ c_msgs'[m].trail = <<>>
    BY DEF Written
  <1>4. \A o \in Calls : c_call'[o].op = "insert" =>
          /\ c_call'[o].m \in Chat!Msgs /\ c_msgs'[c_call'[o].m].at = "open"
          /\ \A x \in Calls : c_call'[x].op = "insert" /\ c_call'[x].m = c_call'[o].m => x = o
    BY DEF Written, Chat!Shown
  <1>5. \A o \in Calls :
          /\ c_call'[o].op \in {"edit", "delete", "react"} => c_call'[o].m \in Chat!Shown
          /\ c_call'[o].op = "react" => c_call'[o].by \in Users
          /\ c_call'[o].op \in {"send", "insert"} => c_call'[o].by \in Users
    BY DEF Written, Fit
  <1> QED
    BY <1>1, <1>2, <1>3, <1>4, <1>5 DEF Written

\* The texts written never outnumber the requests made.
LEMMA SpentKept ==
  ASSUME ChatShape, Spent,
         \/ c_acts' = c_acts /\ c_texts' = c_texts /\ Writing' \subseteq Writing
         \/ /\ c_acts < MaxActs /\ c_acts' = c_acts + 1 /\ c_texts' = c_texts
            /\ \E c \in Calls : Writing' \subseteq Writing \cup {c}
         \/ c_acts' = c_acts /\ c_texts' = c_texts + 1 /\ \E c \in Writing : Writing' \subseteq Writing \ {c}
  PROVE  Spent'
  <1>1. \A S \in SUBSET Calls : IsFiniteSet(S) /\ Cardinality(S) \in Nat
    BY ServicesAssumption, FS_Subset, FS_CardinalityType
  <1>2. Writing \in SUBSET Calls /\ Writing' \in SUBSET Calls
    BY DEF Writing
  <1>3. c_texts \in Nat /\ c_acts \in Nat /\ c_acts <= MaxActs /\ MaxActs \in Nat
        /\ Cardinality(Writing) \in Nat /\ Cardinality(Writing') \in Nat
        /\ c_texts + Cardinality(Writing) <= c_acts
    BY <1>1, <1>2, ServicesAssumption DEF Spent, ChatShape
  <1>4. CASE c_acts' = c_acts /\ c_texts' = c_texts /\ Writing' \subseteq Writing
    <2>1. Cardinality(Writing') <= Cardinality(Writing)
      BY <1>1, <1>2, <1>4, FS_Subset
    <2> QED
      BY <2>1, <1>3, <1>4 DEF Spent
  <1>5. CASE /\ c_acts < MaxActs /\ c_acts' = c_acts + 1 /\ c_texts' = c_texts
             /\ \E c \in Calls : Writing' \subseteq Writing \cup {c}
    <2>1. PICK c \in Calls : Writing' \subseteq Writing \cup {c}
      BY <1>5
    <2>2. /\ IsFiniteSet(Writing \cup {c}) /\ Cardinality(Writing \cup {c}) \in Nat
          /\ Cardinality(Writing \cup {c}) <= Cardinality(Writing) + 1
      BY <1>1, <1>2, <1>3, FS_AddElement
    <2>3. Cardinality(Writing') <= Cardinality(Writing \cup {c})
      BY <2>1, <2>2, FS_Subset
    <2>4. Cardinality(Writing') <= Cardinality(Writing) + 1
      BY <2>2, <2>3, <1>3
    <2>5. c_acts' \in 0..MaxActs
      BY <1>3, <1>5
    <2>6. c_texts' + Cardinality(Writing') <= c_acts'
      BY <2>4, <1>3, <1>5
    <2> QED
      BY <2>5, <2>6 DEF Spent
  <1>6. CASE c_acts' = c_acts /\ c_texts' = c_texts + 1 /\ \E c \in Writing : Writing' \subseteq Writing \ {c}
    <2>1. PICK c \in Writing : Writing' \subseteq Writing \ {c}
      BY <1>6
    <2>2. /\ IsFiniteSet(Writing \ {c}) /\ Cardinality(Writing \ {c}) = Cardinality(Writing) - 1
      BY <1>1, <1>2, <2>1, FS_RemoveElement
    <2>3. Cardinality(Writing') <= Cardinality(Writing \ {c})
      BY <2>1, <2>2, FS_Subset
    <2>4. Cardinality(Writing') <= Cardinality(Writing) - 1
      BY <2>2, <2>3
    <2>5. c_acts' \in 0..MaxActs
      BY <1>3, <1>6
    <2>6. c_texts' + Cardinality(Writing') <= c_acts'
      BY <2>4, <1>3, <1>6
    <2> QED
      BY <2>5, <2>6 DEF Spent
  <1> QED
    BY <1>4, <1>5, <1>6

LEMMA WithdrawnKept ==
  ASSUME Withdrawn, UNCHANGED <<c_msgs, c_overtaken>>,
         \A o \in Calls : c_call'[o].op = "edit" /\ c_call'[o].found => c_call'[o].m \in c_overtaken
  PROVE  Withdrawn'
  BY DEF Withdrawn, Chat!WithdrawnStays, Chat!Shown

LEMMA TrailsKept ==
  ASSUME Trails, UNCHANGED <<c_msgs, c_texts, c_crossed>>
  PROVE  Trails'
  BY DEF Trails

LEMMA NoGapKept ==
  ASSUME NoGap, UNCHANGED <<c_view, c_skipped>>, Chat!Shown' = Chat!Shown
  PROVE  NoGap'
  BY DEF NoGap

-----------------------------------------------------------------------------
(* Requests begin and end. *)

LEMMA BeginSteps ==
  ASSUME ChatInv, NEW c \in Calls,
         \/ \E u \in Users : Chat!StartPrivate(c, u) \/ \E to \in {0} \cup Chat!Msgs : Chat!CreateMessage(c, u, to)
         \/ \E m \in Chat!Msgs : Chat!UpdateMessage(c, m)
         \/ \E m \in Chat!Msgs, u \in Users : Chat!DeleteMessage(c, u, m) \/ Chat!ToggleReaction(c, u, m)
  PROVE  ChatInv'
  <1>1. PICK v \in Job :
          /\ Chat!Begin(c, v) /\ Fit(v) /\ ~Chat!Frozen
          /\ v.op \in {"start", "send", "edit", "delete", "react"}
          /\ v.op = "edit" /\ v.found => v.m \in c_overtaken
    <2>1. ASSUME NEW u \in Users, Chat!StartPrivate(c, u)
          PROVE  \E v \in Job : /\ Chat!Begin(c, v) /\ Fit(v) /\ ~Chat!Frozen
                                /\ v.op \in {"start", "send", "edit", "delete", "react"}
                                /\ v.op = "edit" /\ v.found => v.m \in c_overtaken
      <3> DEFINE v == [Chat!NoCall EXCEPT !.op = "start", !.by = u, !.found = c_room.made]
      <3>1. c_room.made \in BOOLEAN
        BY DEF ChatInv, ChatShape, Room
      <3>2. v \in Job /\ v.op = "start"
        BY <3>1, NoJob DEF Job, Chat!Ops
      <3>3. Chat!Begin(c, v) /\ ~Chat!Frozen
        BY <2>1 DEF Chat!StartPrivate, Chat!Frozen
      <3> HIDE DEF v
      <3> QED
        BY <3>2, <3>3 DEF Fit
    <2>2. ASSUME NEW u \in Users, NEW to \in {0} \cup Chat!Msgs, Chat!CreateMessage(c, u, to)
          PROVE  \E v \in Job : /\ Chat!Begin(c, v) /\ Fit(v) /\ ~Chat!Frozen
                                /\ v.op \in {"start", "send", "edit", "delete", "react"}
                                /\ v.op = "edit" /\ v.found => v.m \in c_overtaken
      <3> DEFINE v == [Chat!NoCall EXCEPT !.op = "send", !.by = u, !.m = to]
      <3>2. v \in Job /\ v.op = "send" /\ v.by = u
        BY NoJob DEF Job, Chat!Ops
      <3>3. Chat!Begin(c, v) /\ ~Chat!Frozen
        BY <2>2 DEF Chat!CreateMessage, Chat!MayPost
      <3> HIDE DEF v
      <3> QED
        BY <3>2, <3>3 DEF Fit
    <2>3. ASSUME NEW m \in Chat!Msgs, Chat!UpdateMessage(c, m)
          PROVE  \E v \in Job : /\ Chat!Begin(c, v) /\ Fit(v) /\ ~Chat!Frozen
                                /\ v.op \in {"start", "send", "edit", "delete", "react"}
                                /\ v.op = "edit" /\ v.found => v.m \in c_overtaken
      <3> DEFINE v == [Chat!NoCall EXCEPT !.op = "edit", !.by = c_msgs[m].by, !.m = m,
                                          !.text = c_msgs[m].text, !.found = c_msgs[m].gone]
      <3>1. c_msgs[m].by \in Users \cup {0} /\ c_msgs[m].text \in Nat /\ c_msgs[m].gone \in BOOLEAN
        BY DEF ChatInv, ChatShape, Message
      <3>2. v \in Job /\ v.op = "edit" /\ v.m = m /\ (v.found => c_msgs[m].gone)
        BY <3>1, NoJob DEF Job, Chat!Ops
      <3>3. Chat!Begin(c, v) /\ ~Chat!Frozen /\ m \in Chat!Shown /\ c_msgs[m].at # "DELETED"
        BY <2>3 DEF Chat!UpdateMessage, Chat!MayEdit
      <3>4. c_msgs[m].gone => m \in c_overtaken
        BY <3>3 DEF ChatInv, Withdrawn, Chat!WithdrawnStays
      <3> HIDE DEF v
      <3> QED
        BY <3>2, <3>3, <3>4 DEF Fit
    <2>4. ASSUME NEW m \in Chat!Msgs, NEW u \in Users, Chat!DeleteMessage(c, u, m)
          PROVE  \E v \in Job : /\ Chat!Begin(c, v) /\ Fit(v) /\ ~Chat!Frozen
                                /\ v.op \in {"start", "send", "edit", "delete", "react"}
                                /\ v.op = "edit" /\ v.found => v.m \in c_overtaken
      <3> DEFINE v == [Chat!NoCall EXCEPT !.op = "delete", !.by = u, !.m = m]
      <3>2. v \in Job /\ v.op = "delete" /\ v.m = m
        BY NoJob DEF Job, Chat!Ops
      <3>3. Chat!Begin(c, v) /\ ~Chat!Frozen /\ m \in Chat!Shown
        BY <2>4 DEF Chat!DeleteMessage, Chat!MayWithdraw
      <3> HIDE DEF v
      <3> QED
        BY <3>2, <3>3 DEF Fit
    <2>5. ASSUME NEW m \in Chat!Msgs, NEW u \in Users, Chat!ToggleReaction(c, u, m)
          PROVE  \E v \in Job : /\ Chat!Begin(c, v) /\ Fit(v) /\ ~Chat!Frozen
                                /\ v.op \in {"start", "send", "edit", "delete", "react"}
                                /\ v.op = "edit" /\ v.found => v.m \in c_overtaken
      <3> DEFINE b == <<m, u>> \in c_reactions
      <3>1. b \in BOOLEAN
        OBVIOUS
      <3> DEFINE v == [Chat!NoCall EXCEPT !.op = "react", !.by = u, !.m = m, !.found = b]
      <3>2. v \in Job /\ v.op = "react" /\ v.m = m /\ v.by = u
        <4> HIDE DEF b
        <4> QED
          BY <3>1, NoJob DEF Job, Chat!Ops
      <3>3. Chat!Begin(c, v) /\ ~Chat!Frozen /\ m \in Chat!Shown
        BY <2>5 DEF Chat!ToggleReaction, Chat!MayReact
      <3> HIDE DEF v
      <3> QED
        BY <3>2, <3>3 DEF Fit
    <2> QED
      BY <2>1, <2>2, <2>3, <2>4, <2>5
  <1>2. /\ c_call[c].op = "idle" /\ c_call' = [c_call EXCEPT ![c] = v]
        /\ c_acts < MaxActs /\ c_acts' = c_acts + 1
        /\ UNCHANGED <<c_room, c_msgs, c_next, c_reactions, c_seen, c_texts, c_moved, c_view,
                       c_copied, c_late, c_overtaken, c_crossed, c_skipped>>
    BY <1>1, NoJob DEF Chat!Begin, Chat!Counted, Chat!roomVars, Chat!history
  <1>3. /\ c_call' \in [Calls -> Job]
        /\ \A o \in Calls : c_call'[o] = IF o = c THEN v ELSE c_call[o]
    BY <1>2, JobMoves DEF ChatInv
  <1>4. ChatShape'
    BY <1>2, <1>3 DEF ChatInv, ChatShape
  <1>5. Written' /\ Chat!Shown' = Chat!Shown
    BY <1>1, <1>2, <1>3, WrittenKept DEF ChatInv
  <1>6. Spent'
    <2>1. Writing' \subseteq Writing \cup {c}
      BY <1>3 DEF Writing
    <2> QED
      BY <2>1, <1>2, SpentKept DEF ChatInv
  <1>7. Moved'
    BY <1>1, <1>2 DEF ChatInv, Moved
  <1>8. Withdrawn'
    BY <1>1, <1>2, <1>3, WithdrawnKept DEF ChatInv, Withdrawn
  <1>9. Trails' /\ NoGap'
    BY <1>2, <1>5, TrailsKept, NoGapKept DEF ChatInv
  <1> QED
    BY <1>4, <1>5, <1>6, <1>7, <1>8, <1>9 DEF ChatInv

\* The room, what was seen and the requests that change no message.
LEMMA RoomSteps ==
  ASSUME ChatInv,
         \/ \E u \in Users : Chat!CreateGroup(u) \/ Chat!JoinRoomByLink(u)
         \/ \E u \in Users, m \in Chat!Msgs : Chat!MarkSeen(u, m)
  PROVE  ChatInv'
  <1>1. /\ UNCHANGED <<c_msgs, c_next, c_reactions, c_texts, c_moved, c_call, c_view, c_copied, c_late,
                       c_overtaken, c_crossed, c_skipped>>
        /\ c_room' \in Room /\ c_room'.type = c_room.type /\ c_seen' \subseteq Chat!Msgs \X Users
        /\ c_acts' = c_acts \/ (c_acts < MaxActs /\ c_acts' = c_acts + 1)
    <2>1. ASSUME NEW u \in Users, Chat!CreateGroup(u) \/ Chat!JoinRoomByLink(u)
          PROVE  /\ c_room' \in Room /\ c_room'.type = c_room.type /\ c_seen' = c_seen /\ c_acts' = c_acts
                 /\ UNCHANGED <<c_msgs, c_next, c_reactions, c_texts, c_moved, c_call, c_view, c_copied, c_late,
                                c_overtaken, c_crossed, c_skipped>>
      <3>1. c_room \in Room
        BY DEF ChatInv, ChatShape
      <3>2. \A b \in BOOLEAN, S \in SUBSET Users :
              LET r == [c_room EXCEPT !.made = b, !.members = S] IN r \in Room /\ r.type = c_room.type
        BY <3>1 DEF Room
      <3>3. \A S \in SUBSET Users :
              LET r == [c_room EXCEPT !.members = S] IN r \in Room /\ r.type = c_room.type
        BY <3>1 DEF Room
      <3>4. {u} \in SUBSET Users /\ c_room.members \cup {u} \in SUBSET Users /\ TRUE \in BOOLEAN
        BY <3>1 DEF Room
      <3>5. \/ c_room' = [c_room EXCEPT !.made = TRUE, !.members = {u}]
            \/ c_room' = [c_room EXCEPT !.members = c_room.members \cup {u}]
        BY <2>1 DEF Chat!CreateGroup, Chat!JoinRoomByLink
      <3>6. c_room' \in Room /\ c_room'.type = c_room.type
        <4>1. CASE c_room' = [c_room EXCEPT !.made = TRUE, !.members = {u}]
          BY <3>2, <3>4, <4>1
        <4>2. CASE c_room' = [c_room EXCEPT !.members = c_room.members \cup {u}]
          BY <3>3, <3>4, <4>2
        <4> QED
          BY <3>5, <4>1, <4>2
      <3> QED
        BY <2>1, <3>6 DEF Chat!CreateGroup, Chat!JoinRoomByLink, Chat!history
    <2>2. ASSUME NEW u \in Users, NEW m \in Chat!Msgs, Chat!MarkSeen(u, m)
          PROVE  /\ UNCHANGED <<c_room, c_msgs, c_next, c_reactions, c_texts, c_moved, c_call, c_view, c_copied, c_late,
                                c_overtaken, c_crossed, c_skipped>>
                 /\ c_seen' \subseteq Chat!Msgs \X Users
                 /\ c_acts < MaxActs /\ c_acts' = c_acts + 1
      BY <2>2 DEF Chat!MarkSeen, Chat!Counted, Chat!history, ChatInv, ChatShape
    <2>3. c_room \in Room /\ c_seen \subseteq Chat!Msgs \X Users
      BY DEF ChatInv, ChatShape
    <2> QED
      BY <2>1, <2>2, <2>3
  <1>2. ChatShape'
    BY <1>1 DEF ChatInv, ChatShape
  <1>3. Written' /\ Chat!Shown' = Chat!Shown
    BY <1>1 DEF ChatInv, Written, Chat!Shown
  <1>4. Spent'
    <2>1. Writing' = Writing
      BY <1>1 DEF Writing
    <2>3. CASE c_acts' = c_acts
      BY <2>1, <2>3, <1>1, SpentKept DEF ChatInv
    <2>4. CASE c_acts < MaxActs /\ c_acts' = c_acts + 1
      <3>1. c_texts' + Cardinality(Writing') = c_texts + Cardinality(Writing)
        BY <2>1, <1>1
      <3>2. Cardinality(Writing) \in Nat
        BY ServicesAssumption, FS_Subset, FS_CardinalityType DEF Writing
      <3> QED
        BY <2>4, <3>1, <3>2, ServicesAssumption DEF ChatInv, Spent, ChatShape
    <2> QED
      BY <2>3, <2>4, <1>1
  <1>5. Moved' /\ Withdrawn' /\ Trails' /\ NoGap'
    BY <1>1, <1>3, WithdrawnKept, TrailsKept, NoGapKept DEF ChatInv, Moved, Withdrawn, Chat!Frozen
  <1> QED
    BY <1>2, <1>3, <1>4, <1>5 DEF ChatInv

\* A request ends that writes no text.
LEMMA EndSteps ==
  ASSUME ChatInv, NEW c \in Calls,
         Chat!FindOrCreatePrivateRoom(c) \/ Chat!SoftDelete(c) \/ Chat!WriteReaction(c)
  PROVE  ChatInv'
  <1>0. PICK m : m = c_call[c].m
    OBVIOUS
  <1>1. /\ c_call[c].op # "idle" /\ c_call' = [c_call EXCEPT ![c] = Chat!NoCall]
        /\ UNCHANGED <<c_next, c_seen, c_texts, c_acts, c_moved, c_view, c_copied, c_late,
                       c_overtaken, c_crossed, c_skipped>>
        /\ c_room' \in Room /\ c_room'.type = c_room.type
        /\ c_reactions' \subseteq Chat!Msgs \X Users
        /\ \/ c_msgs' = c_msgs
           \/ m \in Chat!Shown /\ c_msgs' = [c_msgs EXCEPT ![m].at = "DELETED", ![m].gone = TRUE]
    <2>0. c_room \in Room /\ c_reactions \subseteq Chat!Msgs \X Users
      BY DEF ChatInv, ChatShape
    <2>1. CASE Chat!FindOrCreatePrivateRoom(c)
      <3>1. \A b \in BOOLEAN, S \in SUBSET Users :
              LET r == [c_room EXCEPT !.made = b, !.members = S] IN r \in Room /\ r.type = c_room.type
        BY <2>0 DEF Room
      <3>2. PICK S \in SUBSET Users :
              S = IF c_call[c].found \/ ~c_room.made THEN c_room.members \cup Pair ELSE c_room.members
        BY <2>0, ServicesAssumption DEF Room
      <3>3. c_room' = [c_room EXCEPT !.made = TRUE, !.members = S]
        BY <2>1, <3>2 DEF Chat!FindOrCreatePrivateRoom
      <3>4. c_room' \in Room /\ c_room'.type = c_room.type
        BY <3>1, <3>3
      <3> QED
        BY <2>0, <2>1, <3>4 DEF Chat!FindOrCreatePrivateRoom, Chat!Answer, Chat!history
    <2>2. CASE Chat!SoftDelete(c)
      BY <2>0, <2>2, <1>0 DEF Chat!SoftDelete, Chat!Answer, Chat!history, ChatInv, Written
    <2>3. CASE Chat!WriteReaction(c)
      <3>1. c_call[c].m \in Chat!Msgs /\ c_call[c].by \in Users
        BY <2>3 DEF Chat!WriteReaction, ChatInv, Written, Chat!Shown
      <3> QED
        BY <2>0, <2>3, <3>1 DEF Chat!WriteReaction, Chat!Answer, Chat!history
    <2> QED
      BY <2>1, <2>2, <2>3
  <1>2. Fit(Chat!NoCall) /\ Chat!NoCall.op = "idle" /\ Chat!NoCall \in Job
    BY NoJob DEF Fit
  <1>3. /\ c_call' \in [Calls -> Job]
        /\ \A o \in Calls : c_call'[o] = IF o = c THEN Chat!NoCall ELSE c_call[o]
    BY <1>1, <1>2, JobMoves DEF ChatInv
  <1>4. /\ c_msgs' \in [Chat!Msgs -> Message]
        /\ \A x \in Chat!Msgs :
             \/ c_msgs'[x] = c_msgs[x]
             \/ /\ x \in Chat!Shown /\ c_msgs'[x].at = "DELETED"
                /\ c_msgs'[x].text = c_msgs[x].text /\ c_msgs'[x].trail = c_msgs[x].trail
    <2>1. c_msgs \in [Chat!Msgs -> Message]
      BY DEF ChatInv, ChatShape
    <2>2. CASE m \in Chat!Shown /\ c_msgs' = [c_msgs EXCEPT ![m].at = "DELETED", ![m].gone = TRUE]
      <3> DEFINE v == [c_msgs[m] EXCEPT !.at = "DELETED", !.gone = TRUE]
      <3>1. m \in Chat!Msgs /\ c_msgs[m] \in Message
        BY <2>1, <2>2 DEF Chat!Shown
      <3>2. v \in Message /\ v.at = "DELETED" /\ v.text = c_msgs[m].text /\ v.trail = c_msgs[m].trail
        BY <3>1 DEF Message
      <3>3. c_msgs' = [c_msgs EXCEPT ![m] = v]
        BY <2>1, <2>2, <3>1
      <3> HIDE DEF v
      <3> QED
        BY <2>1, <2>2, <3>1, <3>2, <3>3
    <2> QED
      BY <2>1, <2>2, <1>1
  <1>5. ChatShape'
    BY <1>1, <1>3, <1>4 DEF ChatInv, ChatShape
  <1>6. Written' /\ Chat!Shown' = Chat!Shown
    BY <1>1, <1>2, <1>3, <1>4, WrittenKept DEF ChatInv
  <1>7. Spent'
    <2>1. Writing' \subseteq Writing
      BY <1>2, <1>3 DEF Writing
    <2> QED
      BY <2>1, <1>1, SpentKept DEF ChatInv
  <1>8. Moved'
    BY <1>1 DEF ChatInv, Moved, Chat!Frozen
  <1>9. Withdrawn'
    BY <1>1, <1>2, <1>3, <1>4, <1>6 DEF ChatInv, Withdrawn, Chat!WithdrawnStays, Chat!Shown
  <1>10. Trails'
    BY <1>1, <1>4 DEF ChatInv, Trails
  <1>11. NoGap'
    BY <1>1, <1>6, NoGapKept DEF ChatInv
  <1> QED
    BY <1>5, <1>6, <1>7, <1>8, <1>9, <1>10, <1>11 DEF ChatInv

LEMMA NothingIsMessage ==
  /\ Chat!Nothing \in Message /\ Chat!Nothing.at = "none" /\ Chat!Nothing.text = 0
  /\ Chat!Nothing.trail = <<>> /\ ~Chat!Nothing.gone
  <1>1. <<>> \in Seq(Nat) /\ 0 \in Nat /\ 0 \in {0} \cup Chat!Msgs
    OBVIOUS
  <1>2. Chat!Nothing \in Message
    BY <1>1, Zenon DEF Chat!Nothing, Message
  <1>3. /\ Chat!Nothing.at = "none" /\ Chat!Nothing.text = 0
        /\ Chat!Nothing.trail = <<>> /\ ~Chat!Nothing.gone
    BY Zenon DEF Chat!Nothing
  <1> QED
    BY <1>2, <1>3

\* A message gets its number: it is nobody else's.
LEMMA InsertSteps ==
  ASSUME ChatInv, NEW c \in Calls, Chat!Insert(c)
  PROVE  ChatInv'
  <1>1. /\ c_call[c].op = "send" /\ c_call[c].by \in Users /\ c_next \in Chat!Msgs /\ c_next \in Nat
        /\ c_next' = c_next + 1 /\ c_texts' = c_texts + 1 /\ c_texts \in Nat
        /\ UNCHANGED <<c_room, c_reactions, c_seen, c_acts, c_moved, c_view, c_copied, c_late,
                       c_overtaken, c_crossed, c_skipped>>
    BY DEF Chat!Insert, Chat!history, ChatInv, ChatShape, Written, Chat!Msgs
  <1>2. PICK n \in Message : /\ c_msgs' = [c_msgs EXCEPT ![c_next] = n]
                             /\ n.at = "open" /\ n.text = c_texts + 1 /\ n.trail = <<>> /\ ~n.gone
    <2> DEFINE n == [Chat!Nothing EXCEPT !.at = "open", !.by = c_call[c].by, !.text = c_texts + 1, !.to = c_call[c].m]
    <2>1. \A t \in Nat, to \in {0} \cup Chat!Msgs :
            LET x == [Chat!Nothing EXCEPT !.at = "open", !.by = c_call[c].by, !.text = t, !.to = to] IN
              x \in Message /\ x.at = "open" /\ x.text = t /\ x.trail = <<>> /\ ~x.gone
      BY <1>1, NothingIsMessage DEF Message
    <2>2. c_texts + 1 \in Nat /\ c_call[c].m \in {0} \cup Chat!Msgs
      BY <1>1 DEF ChatInv, ChatShape, Job
    <2>3. n \in Message /\ n.at = "open" /\ n.text = c_texts + 1 /\ n.trail = <<>> /\ ~n.gone
      BY <2>1, <2>2
    <2>4. c_msgs' = [c_msgs EXCEPT ![c_next] = n]
      BY DEF Chat!Insert
    <2> HIDE DEF n
    <2> QED
      BY <2>3, <2>4
  <1>3. PICK v \in Job : c_call' = [c_call EXCEPT ![c] = v] /\ v.op = "insert" /\ v.m = c_next /\ v.by \in Users
    <2> DEFINE v == [c_call[c] EXCEPT !.op = "insert", !.m = c_next]
    <2>1. c_call[c] \in Job
      BY DEF ChatInv, ChatShape
    <2>2. v \in Job /\ v.op = "insert" /\ v.m = c_next /\ v.by = c_call[c].by
      BY <2>1, <1>1 DEF Job, Chat!Ops
    <2>3. c_call' = [c_call EXCEPT ![c] = v]
      BY DEF Chat!Insert, ChatInv, ChatShape
    <2> HIDE DEF v
    <2> QED
      BY <2>2, <2>3, <1>1
  <1>4. /\ c_call' \in [Calls -> Job]
        /\ \A o \in Calls : c_call'[o] = IF o = c THEN v ELSE c_call[o]
    BY <1>3, JobMoves DEF ChatInv
  <1>5. /\ c_msgs' \in [Chat!Msgs -> Message]
        /\ \A m \in Chat!Msgs : c_msgs'[m] = IF m = c_next THEN n ELSE c_msgs[m]
    BY <1>1, <1>2 DEF ChatInv, ChatShape
  <1>6. c_msgs[c_next].at = "none" /\ c_next \notin Chat!Shown
    BY <1>1 DEF ChatInv, Written, Chat!Shown
  <1>7. Chat!Shown' = Chat!Shown
    BY <1>2, <1>5, <1>6 DEF Chat!Shown
  <1>8. ChatShape'
    <2>1. c_next' \in 1..(MaxMsg + 1)
      BY <1>1, ServicesAssumption DEF Chat!Msgs
    <2> QED
      BY <1>1, <1>4, <1>5, <2>1 DEF ChatInv, ChatShape
  <1>9. Written'
    <2>1. \A m \in Chat!Msgs : m >= c_next' => c_msgs'[m].at = "none"
      <3> SUFFICES ASSUME NEW m \in Chat!Msgs, m >= c_next' PROVE c_msgs'[m].at = "none"
        OBVIOUS
      <3>1. m # c_next /\ m >= c_next
        BY <1>1 DEF Chat!Msgs
      <3> QED
        BY <3>1, <1>5 DEF ChatInv, Written
    <2>2. \A m \in Chat!Msgs \ Chat!Shown : ~c_msgs'[m].gone /\ c_msgs'[m].trail = <<>>
      BY <1>2, <1>5 DEF ChatInv, Written
    <2>3. \A o \in Calls : o # c /\ c_call[o].op = "insert" => c_call[o].m \in Chat!Msgs /\ c_call[o].m # c_next
      BY <1>6 DEF ChatInv, Written
    <2>4. \A o \in Calls : c_call'[o].op = "insert" =>
            /\ c_call'[o].m \in Chat!Msgs /\ c_msgs'[c_call'[o].m].at = "open"
            /\ \A x \in Calls : c_call'[x].op = "insert" /\ c_call'[x].m = c_call'[o].m => x = o
      BY <2>3, <1>1, <1>2, <1>3, <1>4, <1>5 DEF ChatInv, Written
    <2>5. \A o \in Calls :
            /\ c_call'[o].op \in {"edit", "delete", "react"} => c_call'[o].m \in Chat!Shown
            /\ c_call'[o].op = "react" => c_call'[o].by \in Users
            /\ c_call'[o].op \in {"send", "insert"} => c_call'[o].by \in Users
      BY <1>3, <1>4 DEF ChatInv, Written
    <2> QED
      BY <2>1, <2>2, <2>4, <2>5, <1>7 DEF Written
  <1>10. Spent'
    <2>1. c \in Writing /\ Writing' \subseteq Writing \ {c}
      BY <1>1, <1>3, <1>4 DEF Writing
    <2> QED
      BY <2>1, <1>1, SpentKept DEF ChatInv
  <1>11. Moved'
    BY <1>1 DEF ChatInv, Moved, Chat!Frozen
  <1>12. Withdrawn'
    <2>1. \A m \in Chat!Shown' \ c_overtaken' : c_msgs'[m].gone => c_msgs'[m].at = "DELETED"
      <3> SUFFICES ASSUME NEW m \in Chat!Shown \ c_overtaken, c_msgs'[m].gone PROVE c_msgs'[m].at = "DELETED"
        BY <1>1, <1>7
      <3>1. c_msgs'[m] = c_msgs[m]
        BY <1>5, <1>6 DEF Chat!Shown
      <3> QED
        BY <3>1 DEF ChatInv, Withdrawn, Chat!WithdrawnStays
    <2>2. \A o \in Calls : c_call'[o].op = "edit" /\ c_call'[o].found => c_call'[o].m \in c_overtaken'
      BY <1>1, <1>3, <1>4 DEF ChatInv, Withdrawn
    <2> QED
      BY <2>1, <2>2 DEF Withdrawn, Chat!WithdrawnStays
  <1>13. Trails'
    <2> SUFFICES ASSUME NEW m \in Chat!Msgs
                 PROVE  /\ c_msgs'[m].text <= c_texts'
                        /\ m \notin c_crossed => Rising(Append(c_msgs'[m].trail, c_msgs'[m].text))
      BY <1>1 DEF Trails
    <2>1. CASE m = c_next
      <3>1. c_msgs'[m].text = c_texts' /\ c_msgs'[m].trail = <<>> /\ c_texts' \in Nat
        BY <2>1, <1>1, <1>2, <1>5
      <3>2. Len(Append(<<>>, c_texts')) = 1
        BY <3>1
      <3> QED
        BY <3>1, <3>2 DEF Rising
    <2>2. CASE m # c_next
      <3>1. c_msgs'[m] = c_msgs[m] /\ c_msgs[m].text \in Nat
        BY <2>2, <1>5 DEF ChatInv, ChatShape, Message
      <3> QED
        BY <3>1, <1>1 DEF ChatInv, Trails
    <2> QED
      BY <2>1, <2>2
  <1>14. NoGap'
    BY <1>1, <1>7, NoGapKept DEF ChatInv
  <1> QED
    BY <1>8, <1>9, <1>10, <1>11, <1>12, <1>13, <1>14 DEF ChatInv

-----------------------------------------------------------------------------
(* The page. *)

\* Two listings with nothing in common, one after the other.
Once(s) == \A i, j \in 1..Len(s) : s[i] = s[j] => i = j
LEMMA Joined ==
  ASSUME NEW s \in Seq(Chat!Msgs), NEW t \in Seq(Chat!Msgs), Once(s), Once(t), PageOf(s) \cap PageOf(t) = {}
  PROVE  /\ s \o t \in Seq(Chat!Msgs) /\ Once(s \o t) /\ PageOf(s \o t) = PageOf(s) \cup PageOf(t)
         /\ s # <<>> => (s \o t)[1] = s[1] /\ s \o t # <<>>
         /\ s = <<>> => s \o t = t
         /\ t # <<>> => (s \o t)[Len(s \o t)] = t[Len(t)] /\ s \o t # <<>>
         /\ t = <<>> => s \o t = s
  <1> DEFINE u == s \o t
  <1>1. /\ u \in Seq(Chat!Msgs) /\ Len(u) = Len(s) + Len(t) /\ Len(s) \in Nat /\ Len(t) \in Nat
        /\ \A i \in 1..Len(u) : u[i] = IF i <= Len(s) THEN s[i] ELSE t[i - Len(s)]
    OBVIOUS
  <1>2. /\ s = <<>> => u = t
        /\ t = <<>> => u = s
        /\ s # <<>> <=> Len(s) > 0
        /\ t # <<>> <=> Len(t) > 0
    OBVIOUS
  <1> HIDE DEF u
  <1>3. \A i \in 1..Len(u) : IF i <= Len(s) THEN i \in 1..Len(s) /\ u[i] = s[i]
                             ELSE i - Len(s) \in 1..Len(t) /\ u[i] = t[i - Len(s)]
    BY <1>1
  <1>4. PageOf(u) = PageOf(s) \cup PageOf(t)
    <2>1. \A x \in PageOf(u) : x \in PageOf(s) \cup PageOf(t)
      BY <1>3 DEF PageOf
    <2>2. \A i \in 1..Len(s) : i \in 1..Len(u) /\ u[i] = s[i]
      BY <1>1
    <2>3. \A i \in 1..Len(t) : i + Len(s) \in 1..Len(u) /\ u[i + Len(s)] = t[i]
      <3> SUFFICES ASSUME NEW i \in 1..Len(t) PROVE i + Len(s) \in 1..Len(u) /\ u[i + Len(s)] = t[i]
        OBVIOUS
      <3>1. i + Len(s) \in 1..Len(u) /\ ~(i + Len(s) <= Len(s)) /\ (i + Len(s)) - Len(s) = i
        BY <1>1
      <3> QED
        BY <3>1, <1>1
    <2>4. \A x \in PageOf(s) \cup PageOf(t) : x \in PageOf(u)
      BY <2>2, <2>3 DEF PageOf
    <2> QED
      BY <2>1, <2>4
  <1>5. Once(u)
    <2> SUFFICES ASSUME NEW i \in 1..Len(u), NEW j \in 1..Len(u), u[i] = u[j] PROVE i = j
      BY DEF Once
    <2>1. CASE i <= Len(s) /\ j <= Len(s)
      BY <2>1, <1>3 DEF Once
    <2>2. CASE ~(i <= Len(s)) /\ ~(j <= Len(s))
      <3>1. i - Len(s) = j - Len(s)
        BY <2>2, <1>3 DEF Once
      <3> QED
        BY <3>1, <1>1
    <2>3. \A k, l \in 1..Len(u) : k <= Len(s) /\ ~(l <= Len(s)) => u[k] # u[l]
      <3> SUFFICES ASSUME NEW k \in 1..Len(u), NEW l \in 1..Len(u), k <= Len(s), ~(l <= Len(s)) PROVE u[k] # u[l]
        OBVIOUS
      <3>1. u[k] \in PageOf(s)
        BY <1>3 DEF PageOf
      <3>2. u[l] \in PageOf(t)
        BY <1>3 DEF PageOf
      <3> QED
        BY <3>1, <3>2
    <2> QED
      BY <2>1, <2>2, <2>3
  <1>6. s # <<>> => u[1] = s[1] /\ u # <<>>
    <2> SUFFICES ASSUME s # <<>> PROVE u[1] = s[1] /\ u # <<>>
      OBVIOUS
    <2>1. 1 \in 1..Len(u) /\ 1 <= Len(s)
      BY <1>1, <1>2
    <2> QED
      BY <2>1, <1>1
  <1>7. t # <<>> => u[Len(u)] = t[Len(t)] /\ u # <<>>
    <2> SUFFICES ASSUME t # <<>> PROVE u[Len(u)] = t[Len(t)] /\ u # <<>>
      OBVIOUS
    <2>1. Len(u) \in 1..Len(u) /\ ~(Len(u) <= Len(s)) /\ Len(u) - Len(s) = Len(t)
      BY <1>1, <1>2
    <2>2. u[Len(u)] = t[Len(t)]
      BY <2>1, <1>1
    <2>3. u # <<>>
      BY <2>1
    <2> QED
      BY <2>2, <2>3
  <1> QED
    BY <1>1, <1>2, <1>4, <1>5, <1>6, <1>7 DEF u

\* The ends of the page.
LEMMA Ends ==
  ASSUME ChatShape, NoGap
  PROVE  /\ c_view.list \in Seq(Chat!Msgs) /\ c_view.more \in BOOLEAN
         /\ Once(c_view.list) /\ Chat!OnPage = PageOf(c_view.list)
         /\ Chat!LastId = (IF c_view.list = <<>> THEN 0 ELSE c_view.list[Len(c_view.list)])
         /\ Chat!FirstId = c_view.list[1]
         /\ c_view.list # <<>> => /\ c_view.list[Len(c_view.list)] \in PageOf(c_view.list)
                                  /\ c_view.list[1] \in PageOf(c_view.list)
         /\ PageOf(c_view.list) \subseteq Chat!Shown /\ Chat!Shown \subseteq Chat!Msgs /\ Chat!Msgs \subseteq Nat
  <1>1. c_view.list \in Seq(Chat!Msgs) /\ c_view.more \in BOOLEAN
    BY DEF ChatShape
  <1>2. Chat!OnPage = PageOf(c_view.list)
    BY <1>1 DEF Chat!OnPage, Chat!ToSet, PageOf
  <1>3. Chat!LastId = (IF c_view.list = <<>> THEN 0 ELSE c_view.list[Len(c_view.list)])
    BY DEF Chat!LastId, Chat!Last
  <1>4. c_view.list # <<>> => 1 \in 1..Len(c_view.list) /\ Len(c_view.list) \in 1..Len(c_view.list)
    BY <1>1
  <1>5. Chat!Shown \subseteq Chat!Msgs /\ Chat!Msgs \subseteq Nat
    BY DEF Chat!Shown, Chat!Msgs
  <1> QED
    BY <1>1, <1>2, <1>3, <1>4, <1>5 DEF NoGap, Once, PageOf, Chat!FirstId

LEMMA ViewMoves ==
  ASSUME ChatInv,
         UNCHANGED <<c_room, c_msgs, c_next, c_reactions, c_seen, c_texts, c_acts, c_moved, c_call, c_copied, c_late,
                     c_overtaken, c_crossed>>,
         c_view' \in [list : Seq(Chat!Msgs), more : BOOLEAN], NoGap'
  PROVE  ChatInv'
  <1>1. ChatShape'
    BY DEF ChatInv, ChatShape
  <1>2. Written' /\ Spent' /\ Moved' /\ Withdrawn' /\ Trails'
    BY WithdrawnKept, TrailsKept
       DEF ChatInv, Written, Chat!Shown, Spent, Writing, Moved, Chat!Frozen, Withdrawn
  <1> QED
    BY <1>1, <1>2 DEF ChatInv

LEMMA LoadLatestSteps ==
  ASSUME ChatInv, Chat!LoadLatest
  PROVE  ChatInv'
  <1> DEFINE ids == Chat!Highest(Chat!Shown)
             list == Chat!InOrder(ids)
             b == Chat!Cardinality(ids) = PageSize
  <1>1. /\ UNCHANGED <<c_room, c_msgs, c_next, c_reactions, c_seen, c_texts, c_acts, c_moved, c_call, c_copied, c_late,
                       c_overtaken, c_crossed>>
        /\ c_view' = [list |-> list, more |-> b]
    BY DEF Chat!LoadLatest, Chat!Look, Chat!roomVars
  <1>2. Chat!Shown \in SUBSET Chat!Msgs /\ ids \in SUBSET Chat!Shown
    BY DEF Chat!Shown, Chat!Highest
  <1>3. /\ list \in Seq(Chat!Msgs) /\ PageOf(list) = ids /\ Once(list) /\ (list = <<>> <=> ids = {})
        /\ ids # {} => /\ \A m \in ids : list[1] <= m
                       /\ \A m \in ids : m <= list[Len(list)]
    BY <1>2, ListedInOrder DEF Once
  <1>4. b \in BOOLEAN /\ (~b => ids = Chat!Shown)
    BY <1>2, HighestAreAll
  <1>5. \A m \in ids, x \in Chat!Shown : m <= x => x \in ids
    BY <1>2, HighestAreLast
  <1> HIDE DEF ids, list, b
  <1>6. c_view' \in [list : Seq(Chat!Msgs), more : BOOLEAN] /\ c_view'.list = list /\ c_view'.more = b
    BY <1>1, <1>3, <1>4
  <1>7. Chat!Shown' = Chat!Shown
    BY <1>1 DEF Chat!Shown
  <1>8. list # <<>> => list[1] \in ids
    BY <1>3 DEF PageOf
  <1>9. ASSUME list # <<>>, NEW m \in Chat!Shown, b => m >= list[1] PROVE m \in ids
    <2>1. CASE ~b
      BY <2>1, <1>4
    <2>2. CASE b
      <3>1. list[1] \in Nat /\ m \in Nat
        BY <1>2, <1>8, <1>9, MsgsFinite
      <3>2. list[1] <= m
        BY <2>2, <3>1, <1>9
      <3> QED
        BY <3>2, <1>5, <1>8, <1>9
    <2> QED
      BY <2>1, <2>2, <1>4
  <1>10. NoGap'
    BY <1>2, <1>3, <1>6, <1>7, <1>9 DEF NoGap, Once
  <1> QED
    BY <1>1, <1>6, <1>10, ViewMoves

LEMMA PollSteps ==
  ASSUME ChatInv, Chat!PollNew
  PROVE  ChatInv'
  <1> DEFINE old == c_view.list
             after == {m \in Chat!Shown : m > Chat!LastId}
             ids == Chat!Lowest(after)
             new == ids \ Chat!OnPage
             list == old \o Chat!InOrder(new)
  <1>1. /\ UNCHANGED <<c_room, c_msgs, c_next, c_reactions, c_seen, c_texts, c_acts, c_moved, c_call, c_copied, c_late,
                       c_overtaken, c_crossed>>
        /\ c_view' = [c_view EXCEPT !.list = list] /\ old # <<>> /\ c_skipped \subseteq c_skipped'
    BY DEF Chat!PollNew, Chat!Look, Chat!roomVars
  <1>2. /\ old \in Seq(Chat!Msgs) /\ Once(old) /\ Chat!OnPage = PageOf(old) /\ PageOf(old) \subseteq Chat!Shown
        /\ Chat!LastId = old[Len(old)] /\ Chat!LastId \in Nat /\ old[Len(old)] \in PageOf(old)
        /\ Chat!Shown \subseteq Chat!Msgs /\ Chat!Msgs \subseteq Nat
    BY <1>1, Ends DEF ChatInv
  <1>3. after \in SUBSET Chat!Msgs /\ ids \in SUBSET after /\ new \in SUBSET Chat!Msgs
    BY <1>2 DEF Chat!Lowest
  <1>4. \A m \in ids, x \in after : x <= m => x \in ids
    BY <1>3, LowestAreFirst
  <1> DEFINE add == Chat!InOrder(new)
  <1>5. /\ add \in Seq(Chat!Msgs) /\ PageOf(add) = new /\ Once(add) /\ (add = <<>> <=> new = {})
    BY <1>3, ListedInOrder DEF Once
  <1>6. PageOf(old) \cap PageOf(add) = {}
    BY <1>2, <1>5
  <1>7. \A x \in after : x \in Chat!Shown /\ x > Chat!LastId
    OBVIOUS
  <1>8. \A x \in Chat!Shown : x > Chat!LastId => x \in after
    OBVIOUS
  <1>9. list = old \o add /\ new = ids \ PageOf(old)
    BY <1>2
  <1>10. add # <<>> => add[Len(add)] \in new
    <2>1. add # <<>> => Len(add) \in 1..Len(add)
      BY <1>5
    <2> HIDE DEF add, new
    <2> QED
      BY <2>1, <1>5 DEF PageOf
  <1> HIDE DEF old, after, ids, new, list, add
  <1>11. /\ list \in Seq(Chat!Msgs) /\ Once(list) /\ PageOf(list) = PageOf(old) \cup new
         /\ list[1] = old[1] /\ list # <<>>
         /\ (add = <<>> => list = old) /\ (add # <<>> => list[Len(list)] = add[Len(add)])
    <2>1. /\ old \o add \in Seq(Chat!Msgs) /\ Once(old \o add)
          /\ PageOf(old \o add) = PageOf(old) \cup PageOf(add)
          /\ (old \o add)[1] = old[1] /\ old \o add # <<>>
          /\ add = <<>> => old \o add = old
          /\ add # <<>> => (old \o add)[Len(old \o add)] = add[Len(add)]
      <3>1. old \in Seq(Chat!Msgs) /\ add \in Seq(Chat!Msgs) /\ Once(old) /\ Once(add) /\ old # <<>>
        BY <1>1, <1>2, <1>5
      <3> QED
        BY <3>1, <1>6, Joined
    <2> QED
      BY <2>1, <1>5, <1>9
  <1>12. /\ c_view' \in [list : Seq(Chat!Msgs), more : BOOLEAN] /\ c_view'.list = list
         /\ c_view'.more = c_view.more
    BY <1>1, <1>11 DEF ChatInv, ChatShape
  <1>13. Chat!Shown' = Chat!Shown
    BY <1>1 DEF Chat!Shown
  <1>14. ASSUME NEW m \in Chat!Shown \ c_skipped', m <= list[Len(list)], c_view.more => m >= old[1]
         PROVE  m \in PageOf(list)
    <2>1. m \in Nat /\ m \notin c_skipped
      BY <1>1, <1>2, <1>14
    <2>2. CASE m <= Chat!LastId
      <3>1. m \in PageOf(old)
        BY <2>1, <2>2, <1>1, <1>2, <1>14 DEF ChatInv, NoGap, old
      <3> QED
        BY <3>1, <1>11
    <2>3. CASE m > Chat!LastId
      <3>1. add # <<>>
        BY <2>1, <2>3, <1>2, <1>11, <1>14
      <3>2. add[Len(add)] \in ids /\ m <= add[Len(add)]
        BY <3>1, <1>9, <1>10, <1>11, <1>14
      <3>3. m \in ids
        BY <3>2, <2>3, <1>4, <1>8
      <3> QED
        BY <3>3, <1>9, <1>11
    <2> QED
      BY <2>1, <2>2, <2>3, <1>2
  <1>15. PageOf(list) \subseteq Chat!Shown
    BY <1>2, <1>3, <1>7, <1>9, <1>11
  <1>16. NoGap'
    BY <1>11, <1>12, <1>13, <1>14, <1>15 DEF NoGap, Once
  <1> QED
    BY <1>1, <1>12, <1>16, ViewMoves

LEMMA LoadOlderSteps ==
  ASSUME ChatInv, Chat!LoadOlder
  PROVE  ChatInv'
  <1> DEFINE old == c_view.list
             before == {m \in Chat!Shown : m < Chat!FirstId}
             ids == Chat!Highest(before)
             new == ids \ Chat!OnPage
             add == Chat!InOrder(new)
             list == add \o old
             b == Chat!Cardinality(ids) = PageSize
  <1>1. /\ UNCHANGED <<c_room, c_msgs, c_next, c_reactions, c_seen, c_texts, c_acts, c_moved, c_call, c_copied, c_late,
                       c_overtaken, c_crossed, c_skipped>>
        /\ c_view' = [list |-> list, more |-> b] /\ old # <<>>
    BY DEF Chat!LoadOlder, Chat!Look, Chat!roomVars
  <1>2. /\ old \in Seq(Chat!Msgs) /\ Once(old) /\ Chat!OnPage = PageOf(old) /\ PageOf(old) \subseteq Chat!Shown
        /\ Chat!FirstId = old[1] /\ Chat!FirstId \in Nat /\ old[1] \in PageOf(old)
        /\ Chat!Shown \subseteq Chat!Msgs /\ Chat!Msgs \subseteq Nat
    BY <1>1, Ends DEF ChatInv
  <1>3. before \in SUBSET Chat!Msgs /\ ids \in SUBSET before /\ new \in SUBSET Chat!Msgs
    BY <1>2 DEF Chat!Highest
  <1>4. \A m \in ids, x \in before : m <= x => x \in ids
    BY <1>3, HighestAreLast
  <1>5. b \in BOOLEAN /\ (~b => ids = before)
    BY <1>3, HighestAreAll
  <1>6. /\ add \in Seq(Chat!Msgs) /\ PageOf(add) = new /\ Once(add) /\ (add = <<>> <=> new = {})
    BY <1>3, ListedInOrder DEF Once
  <1>7. PageOf(add) \cap PageOf(old) = {}
    BY <1>2, <1>6
  <1>8. \A x \in before : x \in Chat!Shown
    OBVIOUS
  <1>9. \A x \in Chat!Shown : x < Chat!FirstId => x \in before
    OBVIOUS
  <1>10. list = add \o old /\ new = ids \ PageOf(old)
    BY <1>2
  <1>11. add # <<>> => add[1] \in new
    <2>1. add # <<>> => 1 \in 1..Len(add)
      BY <1>6
    <2> HIDE DEF add, new
    <2> QED
      BY <2>1, <1>6 DEF PageOf
  <1>12. c_view.list = old
    OBVIOUS
  <1> HIDE DEF old, before, ids, new, list, add, b
  <1>13. /\ list \in Seq(Chat!Msgs) /\ Once(list) /\ PageOf(list) = PageOf(old) \cup new
         /\ list[Len(list)] = old[Len(old)] /\ list # <<>>
         /\ (add = <<>> => list = old) /\ (add # <<>> => list[1] = add[1])
    <2>1. /\ add \o old \in Seq(Chat!Msgs) /\ Once(add \o old)
          /\ PageOf(add \o old) = PageOf(add) \cup PageOf(old)
          /\ (add \o old)[Len(add \o old)] = old[Len(old)] /\ add \o old # <<>>
          /\ add = <<>> => add \o old = old
          /\ add # <<>> => (add \o old)[1] = add[1]
      <3>1. old \in Seq(Chat!Msgs) /\ add \in Seq(Chat!Msgs) /\ Once(old) /\ Once(add) /\ old # <<>>
        BY <1>1, <1>2, <1>6
      <3> QED
        BY <3>1, <1>7, Joined
    <2> QED
      BY <2>1, <1>6, <1>10
  <1>14. /\ c_view' \in [list : Seq(Chat!Msgs), more : BOOLEAN] /\ c_view'.list = list /\ c_view'.more = b
    BY <1>1, <1>5, <1>13
  <1>15. Chat!Shown' = Chat!Shown
    BY <1>1 DEF Chat!Shown
  <1>16. ASSUME NEW m \in Chat!Shown \ c_skipped, m <= list[Len(list)], b => m >= list[1]
         PROVE  m \in PageOf(list)
    <2>1. m \in Nat
      BY <1>2, <1>16
    <2>2. CASE m >= old[1]
      <3>1. m \in PageOf(old)
        BY <2>1, <2>2, <1>1, <1>12, <1>13, <1>16 DEF ChatInv, NoGap
      <3> QED
        BY <3>1, <1>13
    <2>3. CASE m < old[1]
      <3>1. m \in before
        BY <2>3, <1>2, <1>9, <1>16
      <3>2. m \in ids
        <4>1. CASE ~b
          BY <4>1, <3>1, <1>5
        <4>2. CASE b
          <5>1. add # <<>>
            BY <4>2, <2>1, <2>3, <1>2, <1>13, <1>16
          <5>2. add[1] \in ids /\ add[1] \in Nat
            BY <5>1, <1>2, <1>3, <1>10, <1>11
          <5>3. add[1] <= m
            BY <5>1, <5>2, <4>2, <2>1, <1>13, <1>16
          <5> QED
            BY <5>2, <5>3, <3>1, <1>4
        <4> QED
          BY <4>1, <4>2, <1>5
      <3> QED
        BY <3>2, <1>10, <1>13
    <2> QED
      BY <2>1, <2>2, <2>3, <1>2
  <1>17. PageOf(list) \subseteq Chat!Shown
    BY <1>2, <1>3, <1>8, <1>10, <1>13
  <1>18. NoGap'
    BY <1>1, <1>13, <1>14, <1>15, <1>16, <1>17 DEF NoGap, Once
  <1> QED
    BY <1>1, <1>14, <1>18, ViewMoves

-----------------------------------------------------------------------------
(* Messages are committed, edited, moved. *)

LEMMA AppendIsJoin ==
  ASSUME NEW t \in Seq(Chat!Msgs), NEW m \in Chat!Msgs
  PROVE  Append(t, m) = t \o <<m>>
  <1>1. <<m>> \in Seq(Chat!Msgs) /\ Len(<<m>>) = 1 /\ <<m>>[1] = m
    OBVIOUS
  <1>2. t \o <<m>> \in Seq(Chat!Msgs) /\ Append(t, m) \in Seq(Chat!Msgs)
    OBVIOUS
  <1>3. Len(t \o <<m>>) = Len(Append(t, m))
    OBVIOUS
  <1>4. \A i \in 1..Len(Append(t, m)) : (t \o <<m>>)[i] = Append(t, m)[i]
    OBVIOUS
  <1> QED
    BY <1>2, <1>3, <1>4, SeqEqual

LEMMA CommitSteps ==
  ASSUME ChatInv, NEW c \in Calls, Chat!Commit(c)
  PROVE  ChatInv'
  <1>0. PICK m : m = c_call[c].m
    OBVIOUS
  <1> DEFINE mine == c_call[c].by = Reader
             old == c_view.list
             list == IF mine THEN Append(old, m) ELSE old
  <1>1. /\ c_call[c].op = "insert" /\ m \in Chat!Msgs /\ c_msgs[m].at = "open" /\ m \notin Chat!Shown
        /\ c_call' = [c_call EXCEPT ![c] = Chat!NoCall]
        /\ c_msgs' = [c_msgs EXCEPT ![m].at = "SENT"] /\ c_room' = [c_room EXCEPT !.last = m]
        /\ c_view' = [c_view EXCEPT !.list = list]
        /\ UNCHANGED <<c_next, c_reactions, c_seen, c_texts, c_acts, c_moved, c_copied, c_late, c_overtaken, c_crossed>>
    BY <1>0 DEF Chat!Commit, Chat!Answer, ChatInv, Written, Chat!Shown
  <1>2. /\ c_call' \in [Calls -> Job]
        /\ \A o \in Calls : c_call'[o] = IF o = c THEN Chat!NoCall ELSE c_call[o]
    BY <1>1, NoJob, JobMoves DEF ChatInv
  <1>3. /\ c_msgs' \in [Chat!Msgs -> Message] /\ c_msgs'[m].at = "SENT"
        /\ c_msgs'[m].text = c_msgs[m].text /\ c_msgs'[m].trail = c_msgs[m].trail /\ c_msgs'[m].gone = c_msgs[m].gone
        /\ \A x \in Chat!Msgs : x # m => c_msgs'[x] = c_msgs[x]
    <2> DEFINE v == [c_msgs[m] EXCEPT !.at = "SENT"]
    <2>1. c_msgs \in [Chat!Msgs -> Message] /\ c_msgs[m] \in Message
      BY <1>1 DEF ChatInv, ChatShape
    <2>2. v \in Message /\ v.at = "SENT" /\ v.text = c_msgs[m].text /\ v.trail = c_msgs[m].trail /\ v.gone = c_msgs[m].gone
      BY <2>1 DEF Message
    <2>3. c_msgs' = [c_msgs EXCEPT ![m] = v]
      BY <1>1
    <2> HIDE DEF v
    <2> QED
      BY <2>1, <2>2, <2>3, <1>1
  <1>4. c_room' \in Room /\ c_room'.type = c_room.type
    BY <1>1 DEF ChatInv, ChatShape, Room
  <1>5. Chat!Shown' = Chat!Shown \cup {m}
    BY <1>1, <1>3 DEF Chat!Shown
  <1>6. /\ old \in Seq(Chat!Msgs) /\ c_view.more \in BOOLEAN
        /\ Once(old) /\ PageOf(old) \subseteq Chat!Shown /\ Chat!Shown \subseteq Chat!Msgs /\ Chat!Msgs \subseteq Nat
        /\ Chat!LastId = (IF old = <<>> THEN 0 ELSE old[Len(old)])
        /\ old # <<>> => /\ old[Len(old)] \in PageOf(old)
                         /\ old[1] \in PageOf(old)
    BY Ends DEF ChatInv
  <1>7. /\ list \in Seq(Chat!Msgs) /\ Once(list)
        /\ mine => /\ PageOf(list) = PageOf(old) \cup {m} /\ list # <<>> /\ list[Len(list)] = m
                   /\ list[1] = IF old = <<>> THEN m ELSE old[1]
        /\ ~mine => list = old
    <2>1. CASE mine
      <3>1. <<m>> \in Seq(Chat!Msgs) /\ Once(<<m>>) /\ PageOf(<<m>>) = {m} /\ <<m>> # <<>> /\ <<m>>[Len(<<m>>)] = m /\ <<m>>[1] = m
        BY <1>1 DEF Once, PageOf
      <3>2. PageOf(old) \cap PageOf(<<m>>) = {}
        BY <1>1, <1>6, <3>1
      <3>3. list = old \o <<m>>
        BY <2>1, <1>1, <1>6, AppendIsJoin
      <3> DEFINE u == old \o <<m>>
      <3>4. u \in Seq(Chat!Msgs) /\ Once(u) /\ PageOf(u) = PageOf(old) \cup PageOf(<<m>>)
        BY <1>6, <3>1, <3>2, Joined
      <3>5. u # <<>> /\ u[Len(u)] = m /\ u[1] = (IF old = <<>> THEN m ELSE old[1])
        BY <1>6, <3>1, Joined
      <3>6. PageOf(u) = PageOf(old) \cup {m}
        BY <3>1, <3>4
      <3> HIDE DEF u, list
      <3>7. list = u
        BY <3>3 DEF u
      <3> QED
        BY <2>1, <3>4, <3>5, <3>6, <3>7
    <2>2. CASE ~mine
      BY <2>2, <1>6
    <2> QED
      BY <2>1, <2>2
  <1>8. c_view' \in [list : Seq(Chat!Msgs), more : BOOLEAN] /\ c_view'.list = list /\ c_view'.more = c_view.more
    <2> HIDE DEF list
    <2> QED
      BY <1>1, <1>7 DEF ChatInv, ChatShape
  <1>9. ChatShape'
    BY <1>1, <1>2, <1>3, <1>4, <1>8 DEF ChatInv, ChatShape
  <1>10. Written'
    <2>1. \A x \in Chat!Msgs : x >= c_next => c_msgs'[x].at = "none"
      BY <1>1, <1>3 DEF ChatInv, Written
    <2>2. \A x \in Chat!Msgs \ (Chat!Shown \cup {m}) : ~c_msgs'[x].gone /\ c_msgs'[x].trail = <<>>
      BY <1>3 DEF ChatInv, Written
    <2>3. \A o \in Calls : o # c /\ c_call[o].op = "insert" => c_call[o].m \in Chat!Msgs /\ c_call[o].m # m
      BY <1>0, <1>1 DEF ChatInv, Written
    <2>4. \A o \in Calls : c_call'[o].op = "insert" =>
            /\ c_call'[o].m \in Chat!Msgs /\ c_msgs'[c_call'[o].m].at = "open"
            /\ \A x \in Calls : c_call'[x].op = "insert" /\ c_call'[x].m = c_call'[o].m => x = o
      BY <2>3, <1>2, <1>3, NoJob DEF ChatInv, Written
    <2>5. \A o \in Calls :
            /\ c_call'[o].op \in {"edit", "delete", "react"} => c_call'[o].m \in Chat!Shown
            /\ c_call'[o].op = "react" => c_call'[o].by \in Users
            /\ c_call'[o].op \in {"send", "insert"} => c_call'[o].by \in Users
      BY <1>2, NoJob DEF ChatInv, Written
    <2> QED
      BY <2>1, <2>2, <2>4, <2>5, <1>1, <1>5 DEF Written
  <1>11. Spent'
    <2>1. Writing' \subseteq Writing
      BY <1>2, NoJob DEF Writing
    <2> QED
      BY <2>1, <1>1, SpentKept DEF ChatInv
  <1>12. Moved'
    BY <1>1, <1>4 DEF ChatInv, Moved, Chat!Frozen
  <1>13. Withdrawn'
    <2>1. \A x \in (Chat!Shown \cup {m}) \ c_overtaken : c_msgs'[x].gone => c_msgs'[x].at = "DELETED"
      <3>1. ~c_msgs'[m].gone
        BY <1>1, <1>3 DEF ChatInv, Written
      <3>2. \A x \in Chat!Shown : x \in Chat!Msgs /\ x # m
        BY <1>1, <1>6
      <3> QED
        BY <1>3, <3>1, <3>2 DEF ChatInv, Withdrawn, Chat!WithdrawnStays
    <2>2. \A o \in Calls : c_call'[o].op = "edit" /\ c_call'[o].found => c_call'[o].m \in c_overtaken
      BY <1>2, NoJob DEF ChatInv, Withdrawn
    <2> QED
      BY <2>1, <2>2, <1>1, <1>5 DEF Withdrawn, Chat!WithdrawnStays
  <1>14. Trails'
    <2>1. \A x \in Chat!Msgs : c_msgs'[x].text = c_msgs[x].text /\ c_msgs'[x].trail = c_msgs[x].trail
      BY <1>3
    <2> QED
      BY <2>1, <1>1 DEF ChatInv, Trails
  <1>15. NoGap'
    <2>1. /\ ~mine => c_skipped' = c_skipped \cup (IF m < Chat!LastId THEN {m} ELSE {})
          /\ mine => c_skipped' = c_skipped \cup Chat!Passed({m})
      BY <1>0 DEF Chat!Commit
    <2>2. \A x \in Chat!Shown : x > Chat!LastId /\ x < m => x \in Chat!Passed({m})
      <3>1. Chat!Max({m}) = m
        BY <1>1, <1>6 DEF Chat!Max
      <3>2. Chat!Passed({m}) = {x \in (Chat!LastId + 1)..m : x \notin {m} /\ c_msgs[x].at # "void"}
        BY <3>1 DEF Chat!Passed
      <3> SUFFICES ASSUME NEW x \in Chat!Shown, x > Chat!LastId, x < m PROVE x \in Chat!Passed({m})
        OBVIOUS
      <3>3. x \in Nat /\ m \in Nat /\ Chat!LastId \in Nat /\ c_msgs[x].at # "void"
        BY <1>1, <1>6 DEF Chat!Shown
      <3>4. x \in (Chat!LastId + 1)..m /\ x # m
        BY <3>3
      <3> QED
        BY <3>2, <3>3, <3>4
    <2> HIDE DEF mine, list
    <2>3. PageOf(list) \subseteq Chat!Shown \cup {m}
      BY <1>6, <1>7
    <2>4. ASSUME NEW x \in (Chat!Shown \cup {m}) \ c_skipped', list # <<>>,
                 x <= list[Len(list)], c_view.more => x >= list[1]
          PROVE  x \in PageOf(list)
      <3>1. x \in Nat /\ m \in Nat /\ x \notin c_skipped /\ Chat!LastId \in Nat
        BY <1>1, <1>6, <2>1, <2>4
      <3>2. CASE ~mine
        <4>1. list = old /\ Chat!LastId = old[Len(old)] /\ old # <<>> /\ c_skipped' = c_skipped \cup (IF m < Chat!LastId THEN {m} ELSE {})
          BY <3>2, <2>1, <1>6, <1>7, <2>4
        <4>2. CASE x = m
          <5>1. ~(m < Chat!LastId)
            BY <4>1, <4>2, <2>4
          <5>2. m = Chat!LastId
            BY <5>1, <4>1, <4>2, <3>1, <2>4
          <5> QED
            BY <5>2, <4>1, <1>1, <1>6
        <4>3. CASE x # m
          BY <4>1, <4>3, <3>1, <2>4 DEF ChatInv, NoGap
        <4> QED
          BY <4>2, <4>3
      <3>3. CASE mine
        <4>1. /\ PageOf(list) = PageOf(old) \cup {m} /\ list[Len(list)] = m
              /\ list[1] = (IF old = <<>> THEN m ELSE old[1]) /\ c_skipped' = c_skipped \cup Chat!Passed({m})
          BY <3>3, <2>1, <1>7
        <4>2. CASE x = m
          BY <4>1, <4>2
        <4>3. CASE x # m
          <5>1. x \in Chat!Shown /\ x < m /\ x \notin Chat!Passed({m})
            BY <4>1, <4>3, <3>1, <2>4
          <5>2. ~(x > Chat!LastId)
            BY <5>1, <2>2
          <5>3. old # <<>>
            <6>1. Chat!LastId # 0 \/ x = 0
              BY <5>2, <3>1
            <6>2. x # 0
              BY <5>1 DEF Chat!Shown, Chat!Msgs
            <6> QED
              BY <6>1, <6>2, <1>6
          <5>4. x <= old[Len(old)] /\ (c_view.more => x >= old[1])
            BY <5>2, <5>3, <4>1, <3>1, <1>6, <2>4
          <5>5. x \in PageOf(old)
            BY <5>1, <5>3, <5>4, <3>1 DEF ChatInv, NoGap
          <5> QED
            BY <5>5, <4>1
        <4> QED
          BY <4>2, <4>3
      <3> QED
        BY <3>2, <3>3
    <2> QED
      BY <2>3, <2>4, <1>5, <1>7, <1>8 DEF NoGap, Once
  <1> QED
    BY <1>9, <1>10, <1>11, <1>12, <1>13, <1>14, <1>15 DEF ChatInv

\* A trail goes on where it ended.
LEMMA RisesOn ==
  ASSUME NEW t \in Seq(Nat), NEW x \in Nat, NEW y \in Nat, Rising(Append(t, x)), x < y
  PROVE  Rising(Append(Append(t, x), y))
  <1> DEFINE s == Append(t, x)
             u == Append(s, y)
  <1>1. /\ s \in Seq(Nat) /\ Len(s) = Len(t) + 1 /\ Len(t) \in Nat /\ s[Len(s)] = x
    OBVIOUS
  <1>2. Rising(s)
    OBVIOUS
  <1> HIDE DEF s
  <1>3. /\ Len(u) = Len(s) + 1 /\ u[Len(s) + 1] = y
        /\ \A i \in 1..Len(s) : u[i] = s[i]
    BY <1>1
  <1> HIDE DEF u
  <1>4. Rising(u)
    <2> SUFFICES ASSUME NEW i \in 2..Len(u) PROVE u[i - 1] < u[i]
      BY DEF Rising
    <2>1. CASE i \in 2..Len(s)
      <3>1. i \in 1..Len(s) /\ i - 1 \in 1..Len(s)
        BY <2>1, <1>1
      <3> QED
        BY <2>1, <3>1, <1>2, <1>3 DEF Rising
    <2>2. CASE i = Len(s) + 1
      <3>1. i - 1 = Len(s) /\ Len(s) \in 1..Len(s)
        BY <2>2, <1>1
      <3> QED
        BY <3>1, <2>2, <1>1, <1>3
    <2> QED
      BY <2>1, <2>2, <1>1, <1>3
  <1> QED
    BY <1>4 DEF s, u

LEMMA EditMessageSteps ==
  ASSUME ChatInv, NEW c \in Calls, Chat!WriteEdit(c)
  PROVE  ChatInv'
  <1>0. PICK m : m = c_call[c].m
    OBVIOUS
  <1>1. /\ c_call[c].op = "edit" /\ m \in Chat!Shown /\ m \in Chat!Msgs
        /\ c_call' = [c_call EXCEPT ![c] = Chat!NoCall]
        /\ c_texts' = c_texts + 1 /\ c_texts \in Nat
        /\ UNCHANGED <<c_room, c_next, c_reactions, c_seen, c_acts, c_moved, c_view, c_copied, c_late, c_skipped>>
    BY <1>0 DEF Chat!WriteEdit, Chat!Answer, ChatInv, ChatShape, Written, Chat!Shown
  <1>2. PICK v \in Message : /\ c_msgs' = [c_msgs EXCEPT ![m] = v]
                             /\ v.at = "EDITED" /\ v.text = c_texts + 1 /\ v.gone = c_msgs[m].gone
                             /\ v.trail = Append(c_msgs[m].trail, c_call[c].text)
    <2>1. c_msgs[m] \in Message /\ c_msgs \in [Chat!Msgs -> Message] /\ c_call[c].text \in Nat
      BY <1>1 DEF ChatInv, ChatShape, Job
    <2>a. c_msgs[m].trail \in Seq(Nat)
      BY <2>1 DEF Message
    <2>b. Append(c_msgs[m].trail, c_call[c].text) \in Seq(Nat)
      BY <2>1, <2>a, AppendProperties
    <2>2. PICK t \in Seq(Nat) : t = Append(c_msgs[m].trail, c_call[c].text)
      BY <2>b
    <2>3. PICK x \in Nat : x = c_texts + 1
      BY <1>1
    <2> DEFINE v == [c_msgs[m] EXCEPT !.at = "EDITED", !.text = x, !.trail = t]
    <2>4. v \in Message /\ v.at = "EDITED" /\ v.text = x /\ v.trail = t /\ v.gone = c_msgs[m].gone
      BY <2>1 DEF Message
    <2>5. c_msgs' = [c_msgs EXCEPT ![m].at = "EDITED", ![m].text = x, ![m].trail = t]
      BY <2>2, <2>3, <1>0 DEF Chat!WriteEdit
    <2>6. c_msgs' = [c_msgs EXCEPT ![m] = v]
      BY <2>1, <2>5, <1>1
    <2> HIDE DEF v
    <2> QED
      BY <2>2, <2>3, <2>4, <2>6
  <1>3. Fit(Chat!NoCall) /\ Chat!NoCall.op = "idle" /\ Chat!NoCall \in Job
    BY NoJob DEF Fit
  <1>4. /\ c_call' \in [Calls -> Job]
        /\ \A o \in Calls : c_call'[o] = IF o = c THEN Chat!NoCall ELSE c_call[o]
    BY <1>1, <1>3, JobMoves DEF ChatInv
  <1>5. /\ c_msgs' \in [Chat!Msgs -> Message]
        /\ \A x \in Chat!Msgs : c_msgs'[x] = IF x = m THEN v ELSE c_msgs[x]
    BY <1>1, <1>2 DEF ChatInv, ChatShape
  <1>6. ChatShape'
    BY <1>1, <1>4, <1>5 DEF ChatInv, ChatShape
  <1>7. Written' /\ Chat!Shown' = Chat!Shown
    BY <1>1, <1>2, <1>3, <1>4, <1>5, WrittenKept DEF ChatInv
  <1>8. Spent'
    <2>1. c \in Writing /\ Writing' \subseteq Writing \ {c}
      BY <1>1, <1>3, <1>4 DEF Writing
    <2> QED
      BY <2>1, <1>1, SpentKept DEF ChatInv
  <1>9. Moved'
    BY <1>1 DEF ChatInv, Moved, Chat!Frozen
  <1>10. /\ c_overtaken' = c_overtaken \cup (IF c_msgs[m].gone /\ ~c_call[c].found THEN {m} ELSE {})
         /\ c_crossed' = c_crossed \cup (IF c_msgs[m].text # c_call[c].text THEN {m} ELSE {})
    BY <1>0 DEF Chat!WriteEdit
  <1>11. Withdrawn'
    <2>1. ASSUME NEW x \in Chat!Shown \ c_overtaken', c_msgs'[x].gone PROVE c_msgs'[x].at = "DELETED"
      <3>1. x \in Chat!Msgs
        BY DEF Chat!Shown
      <3>2. CASE x = m
        <4>1. c_msgs[m].gone
          BY <2>1, <3>1, <3>2, <1>2, <1>5
        <4>2. c_call[c].found
          BY <4>1, <2>1, <3>2, <1>10
        <4> QED
          BY <4>2, <2>1, <3>2, <1>0, <1>1, <1>10 DEF ChatInv, Withdrawn
      <3>3. CASE x # m
        BY <2>1, <3>1, <3>3, <1>5, <1>10 DEF ChatInv, Withdrawn, Chat!WithdrawnStays
      <3> QED
        BY <3>2, <3>3
    <2>2. \A o \in Calls : c_call'[o].op = "edit" /\ c_call'[o].found => c_call'[o].m \in c_overtaken'
      BY <1>3, <1>4, <1>10 DEF ChatInv, Withdrawn
    <2> QED
      BY <2>1, <2>2, <1>7 DEF Withdrawn, Chat!WithdrawnStays
  <1>12. Trails'
    <2> SUFFICES ASSUME NEW x \in Chat!Msgs
                 PROVE  /\ c_msgs'[x].text <= c_texts'
                        /\ x \notin c_crossed' => Rising(Append(c_msgs'[x].trail, c_msgs'[x].text))
      BY DEF Trails
    <2>1. CASE x = m
      <3>1. c_msgs'[x].text = c_texts + 1 /\ c_msgs'[x].trail = Append(c_msgs[m].trail, c_call[c].text)
        BY <2>1, <1>2, <1>5
      <3>2. c_msgs[m].trail \in Seq(Nat) /\ c_msgs[m].text \in Nat /\ c_msgs[m].text <= c_texts
        BY <1>1 DEF ChatInv, ChatShape, Message, Trails
      <3>3. x \notin c_crossed' => m \notin c_crossed /\ c_msgs[m].text = c_call[c].text
        BY <2>1, <1>10
      <3>4. x \notin c_crossed' => Rising(Append(c_msgs[m].trail, c_msgs[m].text))
        BY <3>3, <1>1 DEF ChatInv, Trails
      <3>5. c_texts + 1 \in Nat /\ c_msgs[m].text < c_texts + 1
        BY <3>2, <1>1
      <3>6. x \notin c_crossed' => Rising(Append(Append(c_msgs[m].trail, c_msgs[m].text), c_texts + 1))
        BY <3>2, <3>4, <3>5, RisesOn
      <3> QED
        BY <3>1, <3>3, <3>6, <1>1
    <2>2. CASE x # m
      <3>1. c_msgs'[x] = c_msgs[x] /\ c_msgs[x].text \in Nat /\ c_crossed \subseteq c_crossed'
        BY <2>2, <1>5, <1>10 DEF ChatInv, ChatShape, Message
      <3> QED
        BY <3>1, <1>1 DEF ChatInv, Trails
    <2> QED
      BY <2>1, <2>2
  <1>13. NoGap'
    BY <1>1, <1>7, NoGapKept DEF ChatInv
  <1> QED
    BY <1>6, <1>7, <1>8, <1>9, <1>11, <1>12, <1>13 DEF ChatInv

\* The deploy refuses what comes after it; the import takes over what shows.
LEMMA MoveSteps ==
  ASSUME ChatInv, Chat!MovePrivateChats \/ Chat!Import
  PROVE  ChatInv'
  <1>1. UNCHANGED <<c_room, c_msgs, c_next, c_reactions, c_seen, c_texts, c_acts, c_call, c_view,
                    c_overtaken, c_crossed, c_skipped>>
    BY DEF Chat!MovePrivateChats, Chat!Import, Chat!roomVars, Chat!history
  <1>2. c_moved' \in BOOLEAN /\ (Chat!Frozen => Chat!Frozen')
    BY <1>1 DEF Chat!MovePrivateChats, Chat!Import, Chat!Frozen, ChatInv, ChatShape
  <1>3. Chat!Shown' = Chat!Shown
    BY <1>1 DEF Chat!Shown
  <1>4. ChatShape' /\ Spent'
    BY <1>1, <1>2 DEF ChatInv, ChatShape, Spent, Writing
  <1>5. Written' /\ Withdrawn' /\ Trails' /\ NoGap'
    BY <1>1, <1>3 DEF ChatInv, Written, Withdrawn, Chat!WithdrawnStays, Trails, NoGap
  <1>6. Moved'
    <2>1. CASE Chat!MovePrivateChats
      <3>1. c_copied' = c_copied /\ c_late' = c_late
        BY <2>1 DEF Chat!MovePrivateChats, Chat!history
      <3> QED
        BY <3>1, <1>1, <1>2 DEF ChatInv, Moved
    <2>2. CASE Chat!Import
      <3>1. Chat!Frozen /\ c_copied' = <<c_msgs, c_reactions>> /\ c_late' = {c \in Calls : c_call[c] # Chat!NoCall}
        BY <2>2 DEF Chat!Import
      <3>2. c_late' = {} => \A c \in Calls : c_call[c].op = "idle"
        BY <3>1, NoJob
      <3> QED
        BY <3>1, <3>2, <1>1, <1>2 DEF Moved
    <2> QED
      BY <2>1, <2>2
  <1> QED
    BY <1>4, <1>5, <1>6 DEF ChatInv

\* A request is cut off: the message it has open is void.
LEMMA KilledSteps ==
  ASSUME ChatInv, NEW c \in Calls, Chat!Killed(c)
  PROVE  ChatInv'
  <1>0. PICK m : m = c_call[c].m
    OBVIOUS
  <1>1. /\ c_call[c] # Chat!NoCall /\ c_call' = [c_call EXCEPT ![c] = Chat!NoCall]
        /\ UNCHANGED <<c_room, c_next, c_reactions, c_seen, c_texts, c_acts, c_moved, c_view, c_copied, c_late,
                       c_overtaken, c_crossed, c_skipped>>
    BY DEF Chat!Killed, Chat!Answer, Chat!history
  <1>2. PICK v \in Message : v = [Chat!Nothing EXCEPT !.at = "void"] /\ v.at = "void" /\ v.text = 0 /\ v.trail = <<>> /\ ~v.gone
    <2> DEFINE v == [Chat!Nothing EXCEPT !.at = "void"]
    <2>1. v \in Message /\ v.at = "void" /\ v.text = 0 /\ v.trail = <<>> /\ ~v.gone
      BY NothingIsMessage DEF Message
    <2> HIDE DEF v
    <2>2. v = [Chat!Nothing EXCEPT !.at = "void"]
      BY DEF v
    <2> QED
      BY <2>1, <2>2
  <1>3. /\ c_msgs' \in [Chat!Msgs -> Message]
        /\ \A x \in Chat!Msgs : c_msgs'[x] = IF c_call[c].op = "insert" /\ m = x THEN v ELSE c_msgs[x]
    <2>1. c_msgs' = [x \in Chat!Msgs |-> IF c_call[c].op = "insert" /\ m = x THEN v ELSE c_msgs[x]]
      BY <1>0, <1>2 DEF Chat!Killed
    <2> QED
      BY <2>1 DEF ChatInv, ChatShape
  <1>4. /\ c_call' \in [Calls -> Job]
        /\ \A o \in Calls : c_call'[o] = IF o = c THEN Chat!NoCall ELSE c_call[o]
    BY <1>1, NoJob, JobMoves DEF ChatInv
  <1>5. c_call[c].op = "insert" => m \in Chat!Msgs /\ c_msgs[m].at = "open" /\ m \notin Chat!Shown
    BY <1>0 DEF ChatInv, Written, Chat!Shown
  <1>6. Chat!Shown' = Chat!Shown /\ Chat!Shown \subseteq Chat!Msgs /\ \A x \in Chat!Shown : c_msgs'[x] = c_msgs[x]
    BY <1>2, <1>3, <1>5 DEF Chat!Shown
  <1>7. ChatShape'
    BY <1>1, <1>3, <1>4 DEF ChatInv, ChatShape
  <1>8. Written'
    <2>1. \A x \in Chat!Msgs : x >= c_next => c_msgs'[x].at = "none"
      BY <1>3, <1>5 DEF ChatInv, Written
    <2>2. \A x \in Chat!Msgs \ Chat!Shown : ~c_msgs'[x].gone /\ c_msgs'[x].trail = <<>>
      BY <1>2, <1>3 DEF ChatInv, Written
    <2>3. ASSUME NEW o \in Calls
          PROVE  /\ c_call'[o].op = "insert" =>
                      /\ c_call'[o].m \in Chat!Msgs /\ c_msgs'[c_call'[o].m].at = "open"
                      /\ \A u \in Calls : c_call'[u].op = "insert" /\ c_call'[u].m = c_call'[o].m => u = o
                 /\ c_call'[o].op \in {"edit", "delete", "react"} => c_call'[o].m \in Chat!Shown
                 /\ c_call'[o].op = "react" => c_call'[o].by \in Users
                 /\ c_call'[o].op \in {"send", "insert"} => c_call'[o].by \in Users
      <3>1. CASE o = c
        BY <3>1, <1>4, NoJob
      <3>2. CASE o # c
        <4>1. c_call'[o] = c_call[o] /\ \A u \in Calls : c_call'[u].op = "insert" => c_call'[u] = c_call[u]
          BY <3>2, <1>4, NoJob
        <4>2. c_call[o].op = "insert" /\ c_call[c].op = "insert" => c_call[o].m # m
          BY <3>2, <1>0 DEF ChatInv, Written
        <4> QED
          BY <4>1, <4>2, <1>3 DEF ChatInv, Written
      <3> QED
        BY <3>1, <3>2
    <2> QED
      BY <2>1, <2>2, <2>3, <1>1, <1>6 DEF Written
  <1>9. Spent'
    <2>1. Writing' \subseteq Writing
      BY <1>4, NoJob DEF Writing
    <2> QED
      BY <2>1, <1>1, SpentKept DEF ChatInv
  <1>10. Moved'
    <2>1. c_call[c].op # "idle" \/ c_copied = <<>> \/ c_late # {} \/ c_msgs' = c_msgs
      <3> SUFFICES ASSUME c_call[c].op = "idle" PROVE c_msgs' = c_msgs
        OBVIOUS
      <3>1. \A x \in Chat!Msgs : c_msgs'[x] = c_msgs[x]
        BY <1>3
      <3> QED
        BY <3>1, <1>3 DEF ChatInv, ChatShape
    <2> QED
      BY <2>1, <1>1, <1>4, NoJob DEF ChatInv, Moved, Chat!Frozen
  <1>11. Withdrawn'
    BY <1>1, <1>4, <1>6, NoJob DEF ChatInv, Withdrawn, Chat!WithdrawnStays
  <1>12. Trails'
    <2>1. ASSUME NEW x \in Chat!Msgs
          PROVE  /\ c_msgs'[x].text <= c_texts
                 /\ x \notin c_crossed => Rising(Append(c_msgs'[x].trail, c_msgs'[x].text))
      <3>1. CASE c_call[c].op = "insert" /\ m = x
        <4>1. c_msgs'[x].text = 0 /\ c_msgs'[x].trail = <<>> /\ c_texts \in Nat
          BY <3>1, <1>2, <1>3 DEF ChatInv, ChatShape
        <4>2. Rising(Append(<<>>, 0))
          BY DEF Rising
        <4> QED
          BY <4>1, <4>2
      <3>2. CASE ~(c_call[c].op = "insert" /\ m = x)
        BY <3>2, <1>3 DEF ChatInv, Trails
      <3> QED
        BY <3>1, <3>2
    <2> QED
      BY <2>1, <1>1 DEF Trails
  <1>13. NoGap'
    BY <1>1, <1>6, NoGapKept DEF ChatInv
  <1> QED
    BY <1>7, <1>8, <1>9, <1>10, <1>11, <1>12, <1>13 DEF ChatInv

LEMMA InitChat == Chat!Init => ChatInv
  <1> SUFFICES ASSUME Chat!Init PROVE ChatInv
    OBVIOUS
  <1>1. /\ c_room \in Room /\ c_msgs \in [Chat!Msgs -> Message] /\ c_call \in [Calls -> Job]
        /\ \A m \in Chat!Msgs : c_msgs[m] = Chat!Nothing
        /\ \A c \in Calls : c_call[c] = Chat!NoCall
    BY NoJob, NothingIsMessage DEF Chat!Init, Room
  <1>2. /\ c_next = 1 /\ c_reactions = {} /\ c_seen = {} /\ c_texts = 0 /\ c_acts = 0 /\ c_moved = FALSE /\ c_copied = <<>>
        /\ c_view = [list |-> <<>>, more |-> TRUE]
    BY DEF Chat!Init
  <1>3. c_view \in [list : Seq(Chat!Msgs), more : BOOLEAN] /\ c_view.list = <<>>
    BY <1>2
  <1>4. ChatShape
    <2>1. c_next \in 1..(MaxMsg + 1)
      BY <1>2, ServicesAssumption
    <2> QED
      BY <1>1, <1>2, <1>3, <2>1 DEF ChatShape
  <1>5. Chat!Shown = {}
    BY <1>1, NothingIsMessage DEF Chat!Shown
  <1>6. Written
    BY <1>1, <1>5, NoJob, NothingIsMessage DEF Written
  <1>7. Spent
    <2>1. Cardinality(Writing) = 0
      <3>1. Writing = {}
        BY <1>1, NoJob DEF Writing
      <3> QED
        BY <3>1, FS_EmptySet
    <2> QED
      BY <2>1, <1>2, ServicesAssumption DEF Spent
  <1>8. Moved
    BY <1>2 DEF Moved
  <1>9. Withdrawn
    BY <1>1, <1>5, NoJob DEF Withdrawn, Chat!WithdrawnStays
  <1>10. Trails
    <2>1. Rising(Append(<<>>, 0))
      BY DEF Rising
    <2>2. ASSUME NEW m \in Chat!Msgs PROVE c_msgs[m].text = 0 /\ c_msgs[m].trail = <<>>
      BY <1>1, NothingIsMessage
    <2>3. \A m \in Chat!Msgs : c_msgs[m].text <= c_texts
      BY <2>2, <1>2
    <2>4. \A m \in Chat!Msgs : Rising(Append(c_msgs[m].trail, c_msgs[m].text))
      BY <2>1, <2>2, Zenon
    <2> QED
      BY <2>3, <2>4 DEF Trails
  <1>11. NoGap
    BY <1>3 DEF NoGap, PageOf
  <1> QED
    BY <1>4, <1>6, <1>7, <1>8, <1>9, <1>10, <1>11 DEF ChatInv

LEMMA NextChat ==
  ASSUME ChatInv, Chat!Next
  PROVE  ChatInv'
  <1>1. ASSUME NEW u \in Users,
               \/ Chat!CreateGroup(u) \/ Chat!JoinRoomByLink(u)
               \/ \E m \in Chat!Msgs : Chat!MarkSeen(u, m)
        PROVE  ChatInv'
    BY <1>1, RoomSteps
  <1>2. ASSUME NEW c \in Calls,
               \/ Chat!FindOrCreatePrivateRoom(c) \/ Chat!Insert(c) \/ Chat!Commit(c) \/ Chat!WriteEdit(c)
               \/ Chat!SoftDelete(c) \/ Chat!WriteReaction(c) \/ Chat!Killed(c)
        PROVE  ChatInv'
    BY <1>2, KilledSteps, EndSteps, InsertSteps, CommitSteps, EditMessageSteps
  <1>3. ASSUME NEW c \in Calls,
               \/ \E u \in Users : Chat!StartPrivate(c, u) \/ \E to \in {0} \cup Chat!Msgs : Chat!CreateMessage(c, u, to)
               \/ \E m \in Chat!Msgs : Chat!UpdateMessage(c, m)
               \/ \E m \in Chat!Msgs, u \in Users : Chat!DeleteMessage(c, u, m) \/ Chat!ToggleReaction(c, u, m)
        PROVE  ChatInv'
    BY <1>3, BeginSteps
  <1>4. ASSUME Chat!LoadLatest \/ Chat!PollNew \/ Chat!LoadOlder \/ Chat!MovePrivateChats \/ Chat!Import
        PROVE  ChatInv'
    BY <1>4, LoadLatestSteps, PollSteps, LoadOlderSteps, MoveSteps
  <1> QED
    BY <1>1, <1>2, <1>3, <1>4 DEF Chat!Next

LEMMA OthersLeaveChat ==
  ASSUME [NextOfOne]_allVars
  PROVE  Chat!Next \/ UNCHANGED chatVars
  BY DEF NextOfOne, allVars, FeedOnly, WallOnly, SiteOnly

LEMMA StillChat ==
  ASSUME ChatInv, UNCHANGED chatVars
  PROVE  ChatInv'
  <1>1. UNCHANGED <<c_room, c_msgs, c_next, c_reactions, c_seen, c_texts, c_acts, c_moved, c_call, c_view, c_copied, c_late,
                    c_overtaken, c_crossed, c_skipped>>
    BY DEF chatVars
  <1>2. Chat!Shown' = Chat!Shown
    BY <1>1 DEF Chat!Shown
  <1>3. ChatShape' /\ Written' /\ Spent' /\ Moved' /\ Withdrawn' /\ Trails' /\ NoGap'
    <2>1. ChatShape' /\ Spent' /\ Moved'
      BY <1>1 DEF ChatInv, ChatShape, Spent, Writing, Moved, Chat!Frozen
    <2>2. Written' /\ Withdrawn' /\ Trails' /\ NoGap'
      BY <1>1, <1>2 DEF ChatInv, Written, Withdrawn, Chat!WithdrawnStays, Trails, NoGap
    <2> QED
      BY <2>1, <2>2
  <1> QED
    BY <1>3 DEF ChatInv

LEMMA ChatKeeps ==
  ASSUME ChatInv
  PROVE  Chat!ChatKept
  <1>1. Chat!MovedAgrees
    BY DEF ChatInv, Moved, Chat!MovedAgrees
  <1>2. Chat!WithdrawnStays
    BY DEF ChatInv, Withdrawn
  <1>3. Chat!TrailWhole
    <2>1. \A m \in Chat!Shown \ c_crossed : Rising(Append(c_msgs[m].trail, c_msgs[m].text))
      BY DEF ChatInv, Trails, Chat!Shown
    <2> QED
      BY <2>1 DEF Chat!TrailWhole, Rising
  <1>4. Chat!PageWhole
    <2> SUFFICES ASSUME c_view.list # <<>>, NEW m \in Chat!Shown \ c_skipped, m <= Chat!LastId,
                        c_view.more => m >= Chat!FirstId
                 PROVE  m \in Chat!OnPage
      BY DEF Chat!PageWhole
    <2>1. /\ Chat!LastId = c_view.list[Len(c_view.list)] /\ Chat!FirstId = c_view.list[1]
          /\ Chat!OnPage = PageOf(c_view.list)
      BY Ends DEF ChatInv
    <2> QED
      BY <2>1 DEF ChatInv, NoGap
  <1> QED
    BY <1>1, <1>2, <1>3, <1>4 DEF Chat!ChatKept

LEMMA ChatHasShape ==
  ASSUME ChatInv
  PROVE  Chat!TypeOK
  <1>1. c_room.members \subseteq Users /\ c_room.last \in {0} \cup Chat!Msgs
    BY DEF ChatInv, ChatShape, Room
  <1>2. \A m \in Chat!Msgs : c_msgs[m].at \in {"none", "open", "void", "SENT", "EDITED", "DELETED"}
    BY DEF ChatInv, ChatShape, Message
  <1>3. \A c \in Calls : c_call[c].op \in Chat!Ops /\ c_call[c].m \in {0} \cup Chat!Msgs
    BY DEF ChatInv, ChatShape, Job
  <1>4. Chat!OnPage \subseteq Chat!Msgs
    BY Ends DEF ChatInv
  <1>5. Chat!IsInjective(c_view.list)
    <2>1. c_view.list \in Seq(Chat!Msgs) /\ Once(c_view.list)
      BY Ends DEF ChatInv
    <2>2. DOMAIN c_view.list = 1..Len(c_view.list)
      BY <2>1
    <2> QED
      BY <2>1, <2>2 DEF Chat!IsInjective, Once
  <1>6. c_texts \in 0..MaxActs /\ c_acts \in 0..MaxActs
    <2>1. Cardinality(Writing) \in Nat
      <3>1. Writing \subseteq Calls
        BY DEF Writing
      <3> QED
        BY <3>1, ServicesAssumption, FS_Subset, FS_CardinalityType
    <2>2. c_texts \in Nat /\ c_acts \in 0..MaxActs /\ MaxActs \in Nat /\ c_texts + Cardinality(Writing) <= c_acts
      BY ServicesAssumption DEF ChatInv, ChatShape, Spent
    <2>3. PICK n \in Nat : n = Cardinality(Writing)
      BY <2>1
    <2>4. c_texts + n <= c_acts
      BY <2>2, <2>3
    <2> QED
      BY <2>2, <2>4
  <1> QED
    BY <1>1, <1>2, <1>3, <1>4, <1>5, <1>6 DEF Chat!TypeOK, ChatInv, ChatShape

\* ChatKept: a moved room stays as it was copied, a withdrawn message stays
\* withdrawn, the history of edits is whole and the page has no gap, for any
\* number of messages and requests.
THEOREM ChatIsKept == SpecOfOne => []ChatKept
  <1>1. InitOfOne => ChatInv
    BY InitChat DEF InitOfOne
  <1>2. ChatInv /\ [NextOfOne]_allVars => ChatInv'
    BY NextChat, OthersLeaveChat, StillChat
  <1>3. ChatInv => ChatKept
    BY ChatKeeps DEF ChatKept
  <1> QED
    BY <1>1, <1>2, <1>3, PTL DEF SpecOfOne

-----------------------------------------------------------------------------
(* The shapes. *)

LEMMA WallHasShape ==
  ASSUME WallInv, Bounded
  PROVE  Wall!TypeOK
  <1>1. /\ \A p \in Wall!Posts : w_post[p].at \in {"none", "visible", "held", "deleted"}
        /\ w_liked \subseteq Wall!Posts /\ w_paid \subseteq Wall!Keys /\ w_doubled \subseteq Wall!Posts
        /\ w_row \in BOOLEAN /\ w_overlap \subseteq Wall!Accounts
    BY DEF WallInv, WallShape
  <1>2. \A c \in Calls : w_call[c].at \in Wall!Steps /\ w_call[c].post \in {0} \cup Wall!Posts
    BY DEF WallInv, WallShape, Request
  <1>3. w_contrib \in 0..1
    BY DEF WallInv, WallShape, CountedOnce
  <1>4. w_count \in 0..MaxPost
    <2>1. Ups \subseteq Wall!Posts /\ w_count \in Nat /\ w_count <= Cardinality(Ups)
      BY DEF Ups, WallInv, WallShape, Bounded
    <2>2. IsFiniteSet(Wall!Posts) /\ Cardinality(Wall!Posts) = MaxPost
      BY FS_Interval, ServicesAssumption DEF Wall!Posts
    <2>3. Cardinality(Ups) \in Nat /\ Cardinality(Ups) <= MaxPost
      BY <2>1, <2>2, FS_Subset, FS_CardinalityType
    <2> QED
      BY <2>1, <2>3, ServicesAssumption
  <1> QED
    BY <1>1, <1>2, <1>3, <1>4 DEF Wall!TypeOK, Bounded

LEMMA StillFeed ==
  ASSUME FeedInv, [NextOfOne]_allVars
  PROVE  FeedInv'
  <1>1. [Next]_vars
    BY DEF NextOfOne, allVars, ChatOnly, WallOnly, SiteOnly
  <1> QED
    BY <1>1, NextFeed

\* Shapes: the state of the component that runs is of its type, the counters of
\* a wall and of a room within their bounds.
THEOREM ServicesHaveShapes == SpecOfOne => []Shapes
  <1>1. InitOfOne => FeedInv /\ ChatInv /\ WallInv /\ Bounded
    BY InitFeed, InitChat, InitWall DEF InitOfOne
  <1>2. FeedInv /\ ChatInv /\ WallInv /\ Bounded /\ [NextOfOne]_allVars => (FeedInv /\ ChatInv /\ WallInv /\ Bounded)'
    BY StillFeed, NextChat, OthersLeaveChat, StillChat, NextWall, OthersLeaveWall, StillWall
  <1>3. FeedInv /\ ChatInv /\ WallInv /\ Bounded => Shapes
    BY ChatHasShape, WallHasShape DEF FeedInv, Shapes
  <1> QED
    BY <1>1, <1>2, <1>3, PTL DEF SpecOfOne
===============================================================================
