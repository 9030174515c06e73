------------------------------ MODULE ChangeFeed ------------------------------
(***************************************************************************)
(* The change feed of the developer face: a log that triggers write in the *)
(* transaction of every change of a resource, served after a cursor, and   *)
(* the site that follows it and reads what changed again.  internal/face   *)
(* and migrations 048 and 053.                                             *)
(*                                                                         *)
(* A log row has the id of its transaction and a sequence number drawn     *)
(* when it is written; it shows when the transaction commits.  The feed is *)
(* in the order of the two, and stops before the oldest transaction that   *)
(* is still open.                                                          *)
(*                                                                         *)
(* Abstractions.  Of a resource the status, the page it is on and its      *)
(* content, a number; of a kind whether it says the resource is public.    *)
(* A delete of a page is a delete of each resource in one transaction.     *)
(* History variables: served, overlapped, muddled.                         *)
(***************************************************************************)
EXTENDS Naturals, FiniteSets, Functions

CONSTANTS
  Resources,
  Pages,
  Txs,       \* transactions that may be open at once
  PageSize,  \* changes asked for at once
  MaxXid,    \* bound: transactions that write
  MaxSeq     \* bound: changes

\* A page has a positive number: 0 is none.
ASSUME FeedAssumption == Pages \subseteq Nat \ {0} /\ IsFiniteSet(Resources)

VARIABLES
  row,         \* patch_resource, as committed
  gone,        \* pages of a work catalog deleted, as committed
  tx,          \* the open transactions: what they wrote
  log,         \* patch_resource_change, as committed
  nextXid,
  nextSeq,
  cursor,      \* where the follower resumes
  todo,        \* resources the follower has to read again
  copy,        \* what the follower has of each
  served,      \* changes the feed has answered
  overlapped,  \* resources written while their page was being stamped
  muddled      \* resources written on a page that was deleted or being stamped

database == <<row, gone, tx, log, nextXid, nextSeq>>
follower == <<cursor, todo, copy, served>>
vars == <<database, follower, overlapped, muddled>>

Row == [status : {"absent", "public", "off"}, page : {0} \cup Pages, content : Nat]
Change == [xid : Nat, seq : Nat, res : Resources, shown : BOOLEAN]
Transaction == [xid : Nat, rows : SUBSET Resources, row : [Resources -> Row],
                stamped : SUBSET Pages, wrote : SUBSET Change]
Absent == [status |-> "absent", page |-> 0, content |-> 0]
Closed == [xid |-> 0, rows |-> {}, row |-> [r \in Resources |-> Absent], stamped |-> {}, wrote |-> {}]
Public(r) == row[r].status = "public" /\ row[r].page \notin gone
View(r) == IF Public(r) THEN row[r] ELSE Absent

Open == {t \in Txs : tx[t].xid # 0}
LockedBy(t, r) == r \in tx[t].rows

-----------------------------------------------------------------------------
(* Transactions. *)

\* A transaction has an id from its first write on.
Begin(t) ==
  /\ tx[t] = Closed /\ nextXid <= MaxXid
  /\ tx' = [tx EXCEPT ![t].xid = nextXid] /\ nextXid' = nextXid + 1
  /\ UNCHANGED <<row, gone, log, nextSeq, follower, overlapped, muddled>>

\* What a transaction sees of a row: its own write, or what is committed.
Seen(t, r) == IF LockedBy(t, r) THEN tx[t].row[r] ELSE row[r]

\* Mutant of Told: that a resource stopped being public is not told.
ToldUnlessHidden(old, new) == new.status = "public" \/ new.status = "absent"

\* patch_resource_record_change: whether the change is told, and as public.
Told(old, new) == old.status = "public" \/ new.status = "public" \/ new.status = "absent"

\* A write waits for another's to end.
Writes(t, r, new) ==
  LET old == Seen(t, r)
      change == [xid |-> tx[t].xid, seq |-> nextSeq, res |-> r, shown |-> new.status = "public"]
      stampers == {o \in Open \ {t} : tx[o].stamped \cap {old.page, new.page} # {}} IN
  /\ t \in Open /\ old # new /\ nextSeq <= MaxSeq
  /\ \A o \in Txs \ {t} : ~LockedBy(o, r)
  /\ tx' = [tx EXCEPT ![t].rows = @ \cup {r}, ![t].row[r] = new,
                      ![t].wrote = IF Told(old, new) THEN @ \cup {change} ELSE @]
  /\ nextSeq' = nextSeq + 1
  /\ overlapped' = overlapped \cup IF stampers = {} THEN {} ELSE {r}
  /\ muddled' = muddled \cup IF new.page \in gone \/ tx[t].stamped # {} \/ stampers # {}
                             THEN {r} ELSE {}
  /\ UNCHANGED <<row, gone, log, nextXid, follower>>

Insert(t, r, page, status) ==
  Seen(t, r) = Absent /\ Writes(t, r, [status |-> status, page |-> page, content |-> nextSeq])

Update(t, r, page, status) ==
  Seen(t, r) # Absent /\ Writes(t, r, [status |-> status, page |-> page, content |-> nextSeq])

Delete(t, r) == Seen(t, r) # Absent /\ Writes(t, r, Absent)

\* patch_catalog_deleted_record_change: a page is stamped, or its stamp cleared,
\* and each public resource it sees there has a change.
Stamp(t, page) ==
  LET set == page \notin gone
      there == {r \in Resources : Seen(t, r).status = "public" /\ Seen(t, r).page = page}
      seqs == nextSeq..(nextSeq + Cardinality(there) - 1)
      others == {r \in Resources : \E o \in Open \ {t} : LockedBy(o, r)} IN
  /\ t \in Open /\ nextSeq + Cardinality(there) <= MaxSeq + 1
  /\ \A o \in Txs : page \notin tx[o].stamped
  /\ \E seq \in Bijection(there, seqs) :
       tx' = [tx EXCEPT ![t].stamped = @ \cup {page},
                        ![t].wrote = @ \cup {[xid |-> tx[t].xid, seq |-> seq[r], res |-> r,
                                              shown |-> ~set] : r \in there}]
  /\ nextSeq' = nextSeq + Cardinality(there)
  /\ overlapped' = overlapped \cup others
  /\ muddled' = muddled \cup others
  /\ UNCHANGED <<row, gone, log, nextXid, follower>>

Commit(t) ==
  /\ t \in Open
  /\ row' = [r \in Resources |-> Seen(t, r)]
  /\ gone' = (gone \ tx[t].stamped) \cup (tx[t].stamped \ gone)
  /\ log' = log \cup tx[t].wrote
  /\ tx' = [tx EXCEPT ![t] = Closed]
  /\ UNCHANGED <<nextXid, nextSeq, follower, overlapped, muddled>>

Rollback(t) ==
  /\ t \in Open /\ tx' = [tx EXCEPT ![t] = Closed]
  /\ UNCHANGED <<row, gone, log, nextXid, nextSeq, follower, overlapped, muddled>>

-----------------------------------------------------------------------------
(* The feed and its follower. *)

Before(a, b) == a.xid < b.xid \/ (a.xid = b.xid /\ a.seq < b.seq)

\* pg_snapshot_xmin: older transactions have all ended.
Ended(xid) == xid < nextXid /\ \A t \in Open : xid < tx[t].xid

Ready == {e \in log : Before(cursor, e) /\ Ended(e.xid)}

\* Mutant of ListChanges: the feed does not wait for open transactions.
ListAll ==
  LET ready == {e \in log : Before(cursor, e)} IN
  \E last \in ready :
    LET page == {e \in ready : ~Before(last, e)} IN
    /\ Cardinality(page) <= PageSize /\ (page = ready \/ Cardinality(page) = PageSize)
    /\ cursor' = [xid |-> last.xid, seq |-> last.seq]
    /\ todo' = todo \cup {e.res : e \in page}
    /\ served' = served \cup page
    /\ UNCHANGED <<database, copy, overlapped, muddled>>

\* One page of the feed, and the cursor after its last change.
ListChanges ==
  \E last \in Ready :
    LET page == {e \in Ready : ~Before(last, e)} IN
    /\ Cardinality(page) <= PageSize /\ (page = Ready \/ Cardinality(page) = PageSize)
    /\ cursor' = [xid |-> last.xid, seq |-> last.seq]
    /\ todo' = todo \cup {e.res : e \in page}
    /\ served' = served \cup page
    /\ UNCHANGED <<database, copy, overlapped, muddled>>

\* GetResource: a live row of a live page, or not found.
GetResource(r) ==
  /\ r \in todo /\ todo' = todo \ {r}
  /\ copy' = [copy EXCEPT ![r] = View(r)]
  /\ UNCHANGED <<database, cursor, served, overlapped, muddled>>

Init ==
  /\ row = [r \in Resources |-> Absent] /\ gone = {} /\ tx = [t \in Txs |-> Closed]
  /\ log = {} /\ nextXid = 1 /\ nextSeq = 1
  /\ cursor = [xid |-> 0, seq |-> 0] /\ todo = {} /\ copy = row
  /\ served = {} /\ overlapped = {} /\ muddled = {}

Next ==
  \/ \E t \in Txs :
       \/ Begin(t) \/ Commit(t) \/ Rollback(t)
       \/ \E r \in Resources :
            \/ Delete(t, r)
            \/ \E p \in Pages, s \in {"public", "off"} : Insert(t, r, p, s) \/ Update(t, r, p, s)
       \/ \E p \in Pages : Stamp(t, p)
  \/ ListChanges
  \/ \E r \in Resources : GetResource(r)

Spec == Init /\ [][Next]_vars

-----------------------------------------------------------------------------
\* Every variable has its shape.
TypeOK ==
  /\ row \in [Resources -> Row] /\ gone \subseteq Pages
  /\ tx \in [Txs -> Transaction]
  /\ log \subseteq Change /\ served \subseteq Change
  /\ nextXid \in Nat /\ nextSeq \in Nat /\ cursor \in [xid : Nat, seq : Nat]
  /\ todo \subseteq Resources /\ copy \in [Resources -> Row]
  /\ overlapped \subseteq Resources /\ muddled \subseteq Resources

\* The cursor steps past no change: what is in the log up to it has been
\* answered, although a change may commit after later ones were written.
FeedGapless == {e \in log : ~Before(cursor, e)} = served

\* When the feed is read to its end the follower has what is public, but for a
\* resource that was written while its page was being stamped.
FollowerAgrees ==
  Open = {} /\ Ready = {} /\ todo = {} =>
    \A r \in Resources \ overlapped : copy[r] = View(r)

\* The last change written for a resource tells whether it is public, unless it
\* was written on a page that was deleted or being stamped.
LastWord ==
  \A r \in Resources \ muddled :
    LET mine == {e \in log : e.res = r} IN
    /\ mine = {} => ~Public(r)
    /\ \A e \in mine : (\A f \in mine : f.seq <= e.seq) => (e.shown <=> Public(r))

\* Following the feed is enough to know what this site offers.
FeedFollowed == FeedGapless /\ FollowerAgrees /\ LastWord
=============================================================================
