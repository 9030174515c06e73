------------------------------- MODULE StoreLink -------------------------------
(***************************************************************************)
(* The purchase links of internal/infrastructure/storelink: readers that   *)
(* resolve a product to its short link or put it in a bounded queue, and   *)
(* the minter of each instance, which asks the store for one link after    *)
(* the other and keeps them in a table of the database and in memory.      *)
(*                                                                         *)
(* A product is marked as queued under a lock and put into the channel     *)
(* after it, so that each can be seen without the other; a mark that       *)
(* outlived its product would keep the product from ever being minted.     *)
(*                                                                         *)
(* Abstractions.  The store pins one alias per product: a link is the      *)
(* product it is for.  The pace of the minter is not in the state, nor is  *)
(* the coupon, which every answer restates.  History variable: refused.    *)
(***************************************************************************)
EXTENDS Naturals, Sequences, FiniteSets

CONSTANTS
  Instances,  \* processes of the API
  Products,
  NoProduct,
  Readers,    \* requests for a game page in flight
  QueueSize,  \* queueSize
  MaxReq,     \* bound: pages read
  MaxRestart, \* bound: instances started again
  MaxAsk      \* bound: calls of the store

VARIABLES
  table,    \* dlsite_store_link
  links,    \* links of an instance
  queue,    \* its channel
  queued, bad, halted,
  minter,   \* what its minter is at
  reader,   \* what a request is at
  reqs, restarts, asks,
  refused   \* products the store refused in this life of the instance

memory == <<links, queued, bad, halted>>
bounds == <<reqs, restarts, asks>>
vars == <<table, memory, queue, minter, reader, bounds, refused>>

Resting == [at |-> "idle", p |-> NoProduct]
Gone == [at |-> "idle", i |-> CHOOSE i \in Instances : TRUE, p |-> NoProduct]
In(q) == {q[n] : n \in 1..Len(q)}

-----------------------------------------------------------------------------
(* Readers. *)

\* Resolve answers a link it has; for another it goes to enqueue.
Resolve(r, i, p) ==
  /\ reader[r] = Gone /\ reqs < MaxReq /\ reqs' = reqs + 1
  /\ p \notin links[i]
  /\ reader' = [reader EXCEPT ![r] = [at |-> "mark", i |-> i, p |-> p]]
  /\ UNCHANGED <<table, memory, queue, minter, restarts, asks, refused>>

Mark(r) ==
  LET i == reader[r].i
      p == reader[r].p IN
  /\ reader[r].at = "mark"
  /\ IF halted[i] \/ p \in bad[i] \cup queued[i]
     THEN reader' = [reader EXCEPT ![r] = Gone] /\ UNCHANGED queued
     ELSE /\ reader' = [reader EXCEPT ![r].at = "send"]
          /\ queued' = [queued EXCEPT ![i] = @ \cup {p}]
  /\ UNCHANGED <<table, links, bad, halted, queue, minter, bounds, refused>>

\* Mutant of Send: a product that finds the queue full keeps its mark.
SendOrForget(r) ==
  LET i == reader[r].i IN
  /\ reader[r].at = "send"
  /\ queue' = [queue EXCEPT ![i] = IF Len(@) < QueueSize THEN Append(@, reader[r].p) ELSE @]
  /\ reader' = [reader EXCEPT ![r] = Gone]
  /\ UNCHANGED <<table, memory, minter, bounds, refused>>

\* A full queue drops the product.
Send(r) ==
  LET i == reader[r].i IN
  /\ reader[r].at = "send"
  /\ IF Len(queue[i]) < QueueSize
     THEN /\ queue' = [queue EXCEPT ![i] = Append(@, reader[r].p)]
          /\ reader' = [reader EXCEPT ![r] = Gone]
     ELSE reader' = [reader EXCEPT ![r].at = "drop"] /\ UNCHANGED queue
  /\ UNCHANGED <<table, memory, minter, bounds, refused>>

Drop(r) ==
  /\ reader[r].at = "drop" /\ reader' = [reader EXCEPT ![r] = Gone]
  /\ queued' = [queued EXCEPT ![reader[r].i] = @ \ {reader[r].p}]
  /\ UNCHANGED <<table, links, bad, halted, queue, minter, bounds, refused>>

-----------------------------------------------------------------------------
(* The minter. *)

At(i, step) == minter' = [minter EXCEPT ![i].at = step]

\* run takes a product; one that has halted only releases what is left.
Take(i) ==
  /\ minter[i].at = "idle" /\ queue[i] # <<>>
  /\ minter' = [minter EXCEPT ![i] = [at |-> IF halted[i] THEN "release" ELSE "ask",
                                      p |-> Head(queue[i])]]
  /\ queue' = [queue EXCEPT ![i] = Tail(@)]
  /\ UNCHANGED <<table, memory, reader, bounds, refused>>

\* The store answers a link, refuses the product, refuses everything (no quota,
\* no scope), or is late, limited or down.
PurchaseLinks(i) ==
  /\ minter[i].at = "ask" /\ asks < MaxAsk /\ asks' = asks + 1
  /\ \E next \in {"store", "bad", "halt", "release"} : At(i, next)
  /\ refused' = IF minter'[i].at = "bad" THEN [refused EXCEPT ![i] = @ \cup {minter[i].p}]
                ELSE refused
  /\ UNCHANGED <<table, memory, queue, reader, reqs, restarts>>

MarkBad(i) ==
  /\ minter[i].at = "bad" /\ At(i, "release")
  /\ bad' = [bad EXCEPT ![i] = @ \cup {minter[i].p}]
  /\ UNCHANGED <<table, links, queued, halted, queue, reader, bounds, refused>>

Halt(i) ==
  /\ minter[i].at = "halt" /\ At(i, "release")
  /\ halted' = [halted EXCEPT ![i] = TRUE]
  /\ UNCHANGED <<table, links, queued, bad, queue, reader, bounds, refused>>

\* An insert that does nothing where there is a row; or the database fails.
Store(i) ==
  /\ minter[i].at = "store"
  /\ \/ table' = table \cup {minter[i].p} /\ At(i, "remember")
     \/ UNCHANGED table /\ At(i, "release")
  /\ UNCHANGED <<memory, queue, reader, bounds, refused>>

Remember(i) ==
  /\ minter[i].at = "remember" /\ At(i, "release")
  /\ links' = [links EXCEPT ![i] = @ \cup {minter[i].p}]
  /\ UNCHANGED <<table, queued, bad, halted, queue, reader, bounds, refused>>

Release(i) ==
  /\ minter[i].at = "release" /\ minter' = [minter EXCEPT ![i] = Resting]
  /\ queued' = [queued EXCEPT ![i] = @ \ {minter[i].p}]
  /\ UNCHANGED <<table, links, bad, halted, queue, reader, bounds, refused>>

-----------------------------------------------------------------------------
\* Start loads the table, if it can, and nothing else outlives the instance.
Restart(i) ==
  /\ restarts < MaxRestart /\ restarts' = restarts + 1
  /\ \E loaded \in {table, {}} : links' = [links EXCEPT ![i] = loaded]
  /\ queue' = [queue EXCEPT ![i] = <<>>] /\ queued' = [queued EXCEPT ![i] = {}]
  /\ bad' = [bad EXCEPT ![i] = {}] /\ halted' = [halted EXCEPT ![i] = FALSE]
  /\ minter' = [minter EXCEPT ![i] = Resting] /\ refused' = [refused EXCEPT ![i] = {}]
  /\ reader' = [r \in Readers |-> IF reader[r].i = i THEN Gone ELSE reader[r]]
  /\ UNCHANGED <<table, reqs, asks>>

Init ==
  /\ table \in SUBSET Products
  /\ links = [i \in Instances |-> table]
  /\ queue = [i \in Instances |-> <<>>] /\ queued = [i \in Instances |-> {}]
  /\ bad = [i \in Instances |-> {}] /\ halted = [i \in Instances |-> FALSE]
  /\ minter = [i \in Instances |-> Resting] /\ reader = [r \in Readers |-> Gone]
  /\ reqs = 0 /\ restarts = 0 /\ asks = 0 /\ refused = [i \in Instances |-> {}]

Next ==
  \/ \E r \in Readers :
       \/ Mark(r) \/ Send(r) \/ Drop(r)
       \/ \E i \in Instances, p \in Products : Resolve(r, i, p)
  \/ \E i \in Instances :
       \/ Take(i) \/ PurchaseLinks(i) \/ MarkBad(i) \/ Halt(i) \/ Store(i) \/ Remember(i)
       \/ Release(i) \/ Restart(i)

Spec == Init /\ [][Next]_vars

-----------------------------------------------------------------------------
\* Every variable has its shape.
TypeOK ==
  /\ table \subseteq Products
  /\ \A i \in Instances :
       /\ links[i] \cup queued[i] \cup bad[i] \cup refused[i] \subseteq Products
       /\ halted[i] \in BOOLEAN /\ Len(queue[i]) <= QueueSize
       /\ minter[i].p \in Products \cup {NoProduct}
  /\ \A r \in Readers : reader[r].p \in Products \cup {NoProduct}
  /\ reqs \in 0..MaxReq /\ restarts \in 0..MaxRestart /\ asks \in 0..MaxAsk

\* What an instance has on the way: in the channel, with a request that will
\* send or drop it, or with the minter.
OnTheWay(i) ==
  In(queue[i]) \cup {minter[i].p}
    \cup {reader[r].p : r \in {q \in Readers : reader[q].i = i /\ reader[q].at \in {"send", "drop"}}}

\* A mark lasts exactly as long as its product is on the way, which it is once;
\* so a product that was dropped or failed can be queued by the next reader.
MarkedIsOnTheWay ==
  \A i \in Instances :
    /\ queued[i] = OnTheWay(i) \ {NoProduct}
    /\ Cardinality(In(queue[i])) = Len(queue[i])
    /\ minter[i].p \notin In(queue[i])

\* A product the store refused is not asked for again, and a minter that has
\* halted asks for nothing.
RefusedIsFinal ==
  \A i \in Instances :
    /\ refused[i] \cap In(queue[i]) = {}
    /\ minter[i].at = "ask" => ~halted[i] /\ minter[i].p \notin refused[i]

\* A link that is shown is in the table.
ShownIsStored == \A i \in Instances : links[i] \subseteq table

\* The links of an instance are kept, and what is missing can still be minted.
LinksKept == MarkedIsOnTheWay /\ RefusedIsFinal /\ ShownIsStored
=============================================================================
