----------------------------- MODULE RequestsProofs -----------------------------
(***************************************************************************)
(* Proofs about components of MCRequests: dispositions (TrustEnforce),     *)
(* purchase links (StoreLink), permissions (RoleOverrides), the cached     *)
(* shelf (FavoriteShelf), uploads (UploadQuota) and the inbox              *)
(* (InboxMirror).                                                          *)
(*                                                                         *)
(* NewestRules is not inductive alone: a call between its write and its    *)
(* commit must be the only one on its subject, newer than the watermark it *)
(* will set, and its write still in force.  Nor is LinksKept: a product is *)
(* with one request, in the channel once or with the minter, and what the  *)
(* store refused is remembered or about to be.  SavesSerialised needs that *)
(* the one save that has judged judged by what is stored still.            *)
(* ShelfFollows needs that what may still come into a slot, from a flight  *)
(* or a walk, shows all that the slot's readers have to see; QuotasHeld    *)
(* that the one call that may charge a file holds its mark, and what a     *)
(* charge does to the sum of a day; InboxSettled that a page leaves out    *)
(* nothing up to its end.                                                  *)
(***************************************************************************)
EXTENDS MCRequests, SequenceTheorems, FiniteSetTheorems, TLAPS

-----------------------------------------------------------------------------
(* Dispositions. *)

\* Calls that hold the rows of one subject exclude one another.
Exclusive ==
  \A c, o \in Calls : c # o /\ Holds(c) /\ Holds(o) => ~Conflict(call[c].id, call[o].id)

\* A claimed decision is newer than its subject's watermark until it commits.
Ahead ==
  \A c \in Calls : Holds(c) /\ SetsVisibility(call[c].id) => call[c].id > mark[Subject(call[c].id)]

\* What a call wrote is in force until it commits, but for an edit's late save.
InForce ==
  \A c \in Calls : call[c].at = "acted" /\ SetsVisibility(call[c].id) /\ Subject(call[c].id) \notin torn
    => Obeys(status[Subject(call[c].id)], Action(call[c].id))

IInv == TypeOK /\ Exclusive /\ Ahead /\ InForce /\ NewestRules

-----------------------------------------------------------------------------
\* An enforced subject obeys the decision just enforced, and a decision that
\* does not set visibility leaves it alone.
LEMMA EnforcedObeys ==
  ASSUME NEW st \in Statuses, NEW a \in Actions
  PROVE  /\ Enforced(st, a) \in Statuses
         /\ Obeys(Enforced(st, a), a)
         /\ a = "other" => Enforced(st, a) = st
  BY DEF Enforced, Obeys, Statuses, Actions

\* What the owner switches or deletes breaks no decision, and what an edit saves
\* breaks none if only the owner's switch was at the row since it was read.
LEMMA OwnerObeys ==
  ASSUME NEW st \in Statuses, NEW a \in Actions, Obeys(st, a)
  PROVE  /\ st \in {"live", "disabled"} => Obeys(Toggled(st), a)
         /\ Obeys("gone", a)
         /\ \A new \in Statuses : Switched(st, new) => Obeys(new, a)
  <1>1. \A new \in Statuses : Switched(st, new) =>
          new = st \/ (st \in {"live", "disabled"} /\ new \in {"live", "disabled"})
    BY DEF Switched
  <1> QED
    BY <1>1 DEF Toggled, Obeys, Statuses, Actions

\* A decision is about a resource and is one of the four actions.
LEMMA DecisionTypes ==
  ASSUME TypeOK
  PROVE  /\ Len(decisions) \in Nat
         /\ \A d \in Ids : d \in Nat /\ Subject(d) \in Subjects /\ Action(d) \in Actions
  <1> DEFINE D == [on : Subjects, action : Actions]
  <1>1. decisions \in Seq(D)
    BY DEF TypeOK
  <1>2. Len(decisions) \in Nat /\ decisions \in [1..Len(decisions) -> D]
    BY <1>1, LenProperties, ElementOfSeq
  <1>3. \A d \in 1..Len(decisions) : d \in Nat /\ decisions[d] \in D
    BY <1>2
  <1>4. \A d \in 1..Len(decisions) : decisions[d].on \in Subjects /\ decisions[d].action \in Actions
    BY <1>3
  <1> QED
    BY <1>2, <1>3, <1>4 DEF Ids, Subject, Action

\* The initial states satisfy the invariant.
LEMMA InitInv == Init => IInv
  <1> SUFFICES ASSUME Init PROVE IInv
    OBVIOUS
  <1>1. TypeOK
    BY DEF Init, TypeOK, NoCall, Statuses, Ids
  <1>2. \A c \in Calls : ~Holds(c) /\ call[c].at # "acted"
    BY DEF Init, NoCall, Holds
  <1> QED
    BY <1>1, <1>2 DEF Init, IInv, Exclusive, Ahead, InForce, NewestRules

\* A decision of infra changes nothing the site holds.
LEMMA DecideInv ==
  ASSUME IInv, NEW s \in Subjects, NEW a \in Actions, Decide(s, a)
  PROVE  IInv'
  <1>1. decisions \in Seq([on : Subjects, action : Actions])
    BY DEF IInv, TypeOK
  <1>2. /\ Len(decisions') = Len(decisions) + 1 /\ Len(decisions) \in Nat
        /\ \A d \in Ids : decisions'[d] = decisions[d]
        /\ decisions' \in Seq([on : Subjects, action : Actions])
    BY <1>1 DEF Decide, Ids
  <1>3. /\ Ids \subseteq Ids'
        /\ \A d \in Ids : /\ Subject(d)' = Subject(d) /\ Action(d)' = Action(d)
                          /\ SetsVisibility(d)' = SetsVisibility(d)
    BY <1>2 DEF Ids, Subject, Action, SetsVisibility
  <1>4. \A c \in Calls : Holds(c)' = Holds(c) /\ (Holds(c) => call[c].id \in Ids)
    BY DEF Decide, Holds, IInv, TypeOK
  <1>5. TypeOK'
    BY <1>2, <1>3 DEF IInv, TypeOK, Decide
  <1>6. Exclusive'
    BY <1>3, <1>4 DEF IInv, Exclusive, Conflict, Decide
  <1>7. Ahead' /\ InForce'
    BY <1>3, <1>4 DEF IInv, Ahead, InForce, Decide, Holds
  <1>8. NewestRules'
    BY <1>3 DEF IInv, NewestRules, Decide
  <1> QED
    BY <1>5, <1>6, <1>7, <1>8 DEF IInv

\* A delivery, an answer without effect and a failure only release a handler.
LEMMA ReleaseInv ==
  ASSUME IInv, NEW c \in Calls,
         UNCHANGED <<decisions, mark, status, torn>>,
         \A o \in Calls \ {c} : call'[o] = call[o],
         ~Holds(c)', TypeOK'
  PROVE  IInv'
  <1>1. \A o \in Calls : Holds(o)' => o # c /\ Holds(o) /\ call'[o] = call[o]
    BY DEF Holds
  <1>2. \A o \in Calls : call'[o].at = "acted" => Holds(o)'
    BY DEF Holds
  <1>3. Exclusive' /\ Ahead'
    BY <1>1 DEF IInv, Exclusive, Ahead, Conflict, Subject, Action, SetsVisibility
  <1>4. InForce'
    BY <1>1, <1>2 DEF IInv, InForce, Subject, Action, SetsVisibility
  <1>5. NewestRules'
    BY DEF IInv, NewestRules, Ids, Subject, Action, SetsVisibility
  <1> QED
    BY <1>3, <1>4, <1>5 DEF IInv

\* A claim takes rows nobody holds, for a decision newer than the watermark.
LEMMA ClaimInv ==
  ASSUME IInv, NEW c \in Calls, Claim(c)
  PROVE  IInv'
  <1>1. /\ call[c].id \in Ids /\ call'[c].id = call[c].id /\ call'[c].at = "claimed"
        /\ \A o \in Calls \ {c} : call'[o] = call[o]
    BY DEF IInv, TypeOK, Claim
  <1>2. TypeOK'
    BY <1>1 DEF IInv, TypeOK, Claim, Ids
  <1>3. \A o \in Calls \ {c} : Holds(o)' = Holds(o)
    BY <1>1 DEF Holds
  <1>4. Exclusive'
    <2> SUFFICES ASSUME NEW x \in Calls, NEW o \in Calls, x # o, Holds(x)', Holds(o)'
                 PROVE  ~Conflict(call[x].id, call[o].id)'
      BY DEF Exclusive
    <2>1. CASE x # c /\ o # c
      BY <2>1, <1>1, <1>3 DEF IInv, Exclusive, Conflict, Subject, SetsVisibility, Action, Claim
    <2>2. CASE x = c \/ o = c
      BY <2>2, <1>1, <1>3 DEF Claim, Unlocked, Conflict, Subject, SetsVisibility, Action
    <2> QED
      BY <2>1, <2>2
  <1>5. Ahead'
    BY <1>1, <1>3 DEF IInv, Ahead, Claim, Newer, Subject, SetsVisibility, Action
  <1>6. InForce'
    BY <1>1 DEF IInv, InForce, Claim, Subject, SetsVisibility, Action
  <1>7. NewestRules'
    BY DEF IInv, NewestRules, Claim, Ids, Subject, SetsVisibility, Action
  <1> QED
    BY <1>2, <1>4, <1>5, <1>6, <1>7 DEF IInv

\* What the adapter writes obeys a decision newer than the watermark.
LEMMA ActInv ==
  ASSUME IInv, NEW c \in Calls, Act(c)
  PROVE  IInv'
  <1> DEFINE d == call[c].id
             s == Subject(d)
  <1>1. /\ d \in Ids /\ call'[c] = [id |-> d, at |-> "acted"] /\ Holds(c)
        /\ \A o \in Calls \ {c} : call'[o] = call[o]
    BY DEF IInv, TypeOK, Act, Holds
  <1>2. s \in Subjects /\ Action(d) \in Actions /\ Len(decisions) \in Nat
    BY <1>1, DecisionTypes DEF IInv
  <1>3. /\ status[s] \in Statuses
        /\ status'[s] = Enforced(status[s], Action(d))
        /\ \A x \in Subjects \ {s} : status'[x] = status[x]
        /\ torn' = IF SetsVisibility(d) THEN torn \ {s} ELSE torn
        /\ UNCHANGED <<decisions, mark>>
    BY <1>2 DEF IInv, TypeOK, Act
  <1>4. /\ status'[s] \in Statuses /\ Obeys(status'[s], Action(d))
        /\ ~SetsVisibility(d) => status'[s] = status[s]
    BY <1>2, <1>3, EnforcedObeys DEF SetsVisibility
  <1>5. TypeOK'
    BY <1>1, <1>2, <1>3, <1>4 DEF IInv, TypeOK, Act, Ids
  <1>6. \A o \in Calls : Holds(o)' = Holds(o) /\ call'[o].id = call[o].id
    BY <1>1 DEF Holds
  <1>7. Exclusive' /\ Ahead'
    BY <1>3, <1>6 DEF IInv, Exclusive, Ahead, Conflict, Subject, SetsVisibility, Action
  <1>8. InForce'
    <2> SUFFICES ASSUME NEW o \in Calls, call'[o].at = "acted", SetsVisibility(call[o].id),
                        Subject(call[o].id) \notin torn'
                 PROVE  Obeys(status'[Subject(call[o].id)], Action(call[o].id))
      BY <1>3, <1>6 DEF InForce, Subject, SetsVisibility, Action
    <2>1. CASE o = c
      BY <2>1, <1>4
    <2>2. CASE o # c
      <3>1. call[o].at = "acted" /\ Holds(o) /\ Subject(call[o].id) \in Subjects
        <4>1. call[o].at = "acted" /\ Holds(o) /\ call[o].id \in Ids
          BY <2>2, <1>1 DEF Holds, IInv, TypeOK
        <4> QED
          BY <4>1, DecisionTypes DEF IInv
      <3>2. Subject(call[o].id) = s => ~SetsVisibility(d)
        BY <3>1, <2>2, <1>1 DEF IInv, Exclusive, Conflict
      <3>3. Subject(call[o].id) \notin torn
        BY <3>2, <1>3
      <3>4. Obeys(status[Subject(call[o].id)], Action(call[o].id))
        BY <3>1, <3>3 DEF IInv, InForce
      <3> QED
        BY <3>1, <3>2, <3>4, <1>3, <1>4
    <2> QED
      BY <2>1, <2>2
  <1>9. NewestRules'
    <2> SUFFICES ASSUME NEW x \in Subjects \ torn', mark[x] # 0
                 PROVE  \E e \in Ids : /\ e >= mark[x] /\ Subject(e) = x /\ SetsVisibility(e)
                                       /\ Obeys(status'[x], Action(e))
      BY <1>3 DEF NewestRules, Ids, Subject, SetsVisibility, Action
    <2>1. CASE x = s /\ SetsVisibility(d)
      <3>1. d > mark[s] /\ mark[s] \in Nat /\ d \in Nat
        BY <2>1, <1>1, <1>2 DEF IInv, Ahead, TypeOK, Ids
      <3> QED
        BY <3>1, <2>1, <1>1, <1>4
    <2>2. CASE ~(x = s /\ SetsVisibility(d))
      BY <2>2, <1>3, <1>4 DEF IInv, NewestRules
    <2> QED
      BY <2>1, <2>2
  <1> QED
    BY <1>5, <1>7, <1>8, <1>9 DEF IInv

\* The watermark moves to a decision whose write is in force.
LEMMA CommitInv ==
  ASSUME IInv, NEW c \in Calls, Commit(c)
  PROVE  IInv'
  <1> DEFINE d == call[c].id
             s == Subject(d)
  <1>1. /\ d \in Ids /\ Holds(c) /\ call'[c] = NoCall
        /\ \A o \in Calls \ {c} : call'[o] = call[o]
        /\ UNCHANGED <<decisions, status, torn>>
    BY DEF IInv, TypeOK, Commit, Answer, Holds
  <1>2. s \in Subjects /\ Len(decisions) \in Nat /\ d \in Nat
    BY <1>1, DecisionTypes DEF IInv
  <1>3. /\ SetsVisibility(d) => mark'[s] = d /\ \A x \in Subjects \ {s} : mark'[x] = mark[x]
        /\ ~SetsVisibility(d) => mark' = mark
        /\ mark' \in [Subjects -> Nat]
    BY <1>2 DEF IInv, TypeOK, Commit
  <1>4. TypeOK'
    <2>1. applied' \subseteq Ids
      BY <1>1 DEF IInv, TypeOK, Commit
    <2>2. call' \in [Calls -> [id : Nat, at : {"idle", "claim", "claimed", "acted"}]]
      BY DEF IInv, TypeOK, Commit, Answer, NoCall
    <2>3. NoCall.at = "idle" /\ NoCall.id = 0
      BY DEF NoCall
    <2>4. \A o \in Calls : IF call[o].at = "idle" THEN call[o].id = 0 ELSE call[o].id \in Ids
      BY DEF IInv, TypeOK
    <2>5. \A o \in Calls : IF call'[o].at = "idle" THEN call'[o].id = 0 ELSE call'[o].id \in Ids
      BY <1>1, <2>3, <2>4
    <2> QED
      BY <2>1, <2>2, <2>5, <1>1, <1>3 DEF IInv, TypeOK, Commit, Ids
  <1>5. \A o \in Calls : Holds(o)' => o # c /\ Holds(o) /\ call'[o] = call[o] /\ call[o].id \in Ids
    BY <1>1 DEF Holds, NoCall, IInv, TypeOK
  <1>6. Exclusive'
    BY <1>1, <1>5 DEF IInv, Exclusive, Conflict, Subject, SetsVisibility, Action
  <1>7. Ahead'
    <2> SUFFICES ASSUME NEW o \in Calls, Holds(o)', SetsVisibility(call[o].id)
                 PROVE  call[o].id > mark'[Subject(call[o].id)]
      BY <1>1, <1>5 DEF Ahead, Subject, SetsVisibility, Action
    <2>1. /\ o # c /\ Holds(o) /\ Subject(call[o].id) \in Subjects
          /\ call[o].id > mark[Subject(call[o].id)]
      BY <1>5, DecisionTypes DEF IInv, Ahead
    <2>2. SetsVisibility(d) => Subject(call[o].id) # s
      BY <2>1, <1>1 DEF IInv, Exclusive, Conflict
    <2> QED
      BY <2>1, <2>2, <1>3
  <1>8. InForce'
    BY <1>1, <1>5 DEF IInv, InForce, Holds, NoCall, Subject, SetsVisibility, Action
  <1>9. NewestRules'
    <2> SUFFICES ASSUME NEW x \in Subjects \ torn, mark'[x] # 0
                 PROVE  \E e \in Ids : /\ e >= mark'[x] /\ Subject(e) = x /\ SetsVisibility(e)
                                       /\ Obeys(status[x], Action(e))
      BY <1>1 DEF NewestRules, Ids, Subject, SetsVisibility, Action
    <2>1. CASE x = s /\ SetsVisibility(d)
      <3>1. Obeys(status[s], Action(d))
        BY <2>1 DEF IInv, InForce, Commit
      <3> QED
        BY <3>1, <2>1, <1>1, <1>2, <1>3
    <2>2. CASE ~(x = s /\ SetsVisibility(d))
      BY <2>2, <1>3 DEF IInv, NewestRules
    <2> QED
      BY <2>1, <2>2
  <1> QED
    BY <1>4, <1>6, <1>7, <1>8, <1>9 DEF IInv

\* Switching or deleting takes a resource further away, never back from a hide.
LEMMA OwnerInv ==
  ASSUME IInv, NEW s \in Subjects, Toggle(s) \/ Delete(s)
  PROVE  IInv'
  <1>1. /\ UNCHANGED <<decisions, call, applied, mark, edits, torn>>
        /\ \A x \in Subjects \ {s} : status'[x] = status[x]
        /\ status' \in [Subjects -> Statuses]
    BY DEF IInv, TypeOK, Toggle, Delete, Toggled, Statuses
  <1>2. \A x \in Subjects, a \in Actions : Obeys(status[x], a) => Obeys(status'[x], a)
    BY <1>1, OwnerObeys DEF IInv, TypeOK, Toggle, Delete
  <1>3. \A d \in Ids : Subject(d) \in Subjects /\ Action(d) \in Actions
    BY DecisionTypes DEF IInv
  <1>4. TypeOK' /\ Exclusive' /\ Ahead'
    BY <1>1 DEF IInv, TypeOK, Exclusive, Ahead, Conflict, Holds, Ids, Subject, SetsVisibility, Action
  <1>5. InForce'
    <2>1. \A c \in Calls : call[c].at = "acted" => call[c].id \in Ids
      BY DEF IInv, TypeOK
    <2> QED
      BY <2>1, <1>1, <1>2, <1>3 DEF IInv, InForce, Subject, SetsVisibility, Action
  <1>6. NewestRules'
    BY <1>1, <1>2, <1>3 DEF IInv, NewestRules, Ids, Subject, SetsVisibility, Action
  <1> QED
    BY <1>4, <1>5, <1>6 DEF IInv

\* An edit that saves what it read breaks decisions only where that is noted.
LEMMA SaveInv ==
  ASSUME IInv, NEW e \in edits, SaveRow(e)
  PROVE  IInv'
  <1> DEFINE s == e.on
  <1>1. s \in Subjects /\ e.read \in Statuses
    BY DEF IInv, TypeOK
  <1>2. /\ UNCHANGED <<decisions, call, applied, mark, edits>>
        /\ status' \in [Subjects -> Statuses] /\ status'[s] = e.read
        /\ \A x \in Subjects \ {s} : status'[x] = status[x]
        /\ torn' = IF Switched(status[s], e.read) THEN torn ELSE torn \cup {s}
    BY <1>1 DEF IInv, TypeOK, SaveRow
  <1>3. \A x \in Subjects \ torn', a \in Actions : x \notin torn /\ (Obeys(status[x], a) => Obeys(status'[x], a))
    BY <1>1, <1>2, OwnerObeys DEF IInv, TypeOK
  <1>4. \A d \in Ids : Subject(d) \in Subjects /\ Action(d) \in Actions
    BY DecisionTypes DEF IInv
  <1>5. TypeOK' /\ Exclusive' /\ Ahead'
    BY <1>1, <1>2 DEF IInv, TypeOK, Exclusive, Ahead, Conflict, Holds, Ids, Subject, SetsVisibility, Action
  <1>6. InForce'
    <2>1. \A c \in Calls : call[c].at = "acted" => call[c].id \in Ids
      BY DEF IInv, TypeOK
    <2> QED
      BY <2>1, <1>2, <1>3, <1>4 DEF IInv, InForce, Subject, SetsVisibility, Action
  <1>7. NewestRules'
    BY <1>2, <1>3, <1>4 DEF IInv, NewestRules, Ids, Subject, SetsVisibility, Action
  <1> QED
    BY <1>5, <1>6, <1>7 DEF IInv

\* Reading a row changes nothing else.
LEMMA ReadInv ==
  ASSUME IInv, NEW s \in Subjects, ReadRow(s)
  PROVE  IInv'
  <1>1. TypeOK'
    BY DEF IInv, TypeOK, ReadRow, Ids
  <1> QED
    BY <1>1 DEF ReadRow, IInv, Exclusive, Ahead, InForce, NewestRules, Ids, Holds, Conflict, Subject,
       Action, SetsVisibility

\* Every step preserves the invariant.
LEMMA StepInv == IInv /\ [Next]_vars => IInv'
  <1> SUFFICES ASSUME IInv, [Next]_vars PROVE IInv'
    OBVIOUS
  <1>1. CASE UNCHANGED vars
    BY <1>1 DEF IInv, TypeOK, Exclusive, Ahead, InForce, NewestRules, vars, Ids, Holds,
       Conflict, Subject, Action, SetsVisibility
  <1>2. ASSUME NEW c \in Calls, NEW d \in Ids, Deliver(c, d) PROVE IInv'
    <2>1. ~Holds(c)' /\ \A o \in Calls \ {c} : call'[o] = call[o]
      BY <1>2 DEF Deliver, Holds, IInv, TypeOK
    <2>2. TypeOK'
      BY <1>2 DEF Deliver, IInv, TypeOK, Ids
    <2> QED
      BY <2>1, <2>2, <1>2, ReleaseInv DEF Deliver
  <1>3. ASSUME NEW c \in Calls, Replayed(c) \/ Superseded(c) \/ Fail(c) PROVE IInv'
    <2>1. call'[c] = NoCall /\ ~Holds(c)' /\ \A o \in Calls \ {c} : call'[o] = call[o]
      BY <1>3 DEF Replayed, Superseded, Fail, Answer, Holds, NoCall, IInv, TypeOK
    <2>2. call' \in [Calls -> [id : Nat, at : {"idle", "claim", "claimed", "acted"}]]
      <3>1. call' = [call EXCEPT ![c] = NoCall]
        BY <1>3 DEF Replayed, Superseded, Fail, Answer
      <3> QED
        BY <3>1 DEF NoCall, IInv, TypeOK
    <2>3. \A o \in Calls : IF call'[o].at = "idle" THEN call'[o].id = 0 ELSE call'[o].id \in Ids
      <3>1. NoCall.at = "idle" /\ NoCall.id = 0
        BY DEF NoCall
      <3>2. \A o \in Calls : IF call[o].at = "idle" THEN call[o].id = 0 ELSE call[o].id \in Ids
        BY DEF IInv, TypeOK
      <3> QED
        BY <2>1, <3>1, <3>2
    <2>4. applied' \subseteq Ids /\ UNCHANGED edits
      BY <1>3 DEF Replayed, Superseded, Fail, Answer, NoCall, IInv, TypeOK
    <2>5. UNCHANGED <<decisions, mark, status, torn>>
      BY <1>3 DEF Replayed, Superseded, Fail
    <2>6. TypeOK'
      BY <2>2, <2>3, <2>4, <2>5 DEF IInv, TypeOK, Ids
    <2> QED
      BY <2>1, <2>5, <2>6, ReleaseInv
  <1> QED
    BY <1>1, <1>2, <1>3, DecideInv, ClaimInv, ActInv, CommitInv, OwnerInv, SaveInv, ReadInv
       DEF Next, Apply

\* An older decision, delayed, repeated or retried after a failure, never undoes
\* what a newer one did to the subject (internal/trust/enforce, Apply), and of what
\* the owner does only the save of a row read before does (UpdateResource).
THEOREM NewestDecisionRules == Spec => []NewestRules
  <1>1. IInv => NewestRules
    BY DEF IInv
  <1> QED
    BY InitInv, StepInv, <1>1, PTL DEF Spec

\* The types of the handlers' state, the ledger and the watermarks.
THEOREM EnforceTypeCorrect == Spec => []TypeOK
  <1>1. IInv => TypeOK
    BY DEF IInv
  <1> QED
    BY InitInv, StepInv, <1>1, PTL DEF Spec

-----------------------------------------------------------------------------
(* Purchase links. *)

\* A queue holds a product once.
Once(q) == \A m, n \in 1..Len(q) : q[m] = q[n] => m = n

\* The requests that have marked a product and not yet sent or dropped it.
Riders(i) == {r \in Readers : l_reader[r].i = i /\ l_reader[r].at \in {"send", "drop"}}
Queued(i) == Shop!In(l_queue[i])
Minting(i) == l_minter[i].p

LinkShape ==
  /\ l_table \subseteq Products
  /\ l_links \in [Instances -> SUBSET Products] /\ l_queued \in [Instances -> SUBSET Products]
  /\ l_bad \in [Instances -> SUBSET Products] /\ l_refused \in [Instances -> SUBSET Products]
  /\ l_halted \in [Instances -> BOOLEAN] /\ l_queue \in [Instances -> Seq(Products)]
  /\ l_minter \in [Instances ->
       {Shop!Resting}
       \cup [at : {"ask", "store", "bad", "halt", "remember", "release"}, p : Products]]
  /\ l_reader \in [Readers ->
       {Shop!Gone} \cup [at : {"mark", "send", "drop"}, i : Instances, p : Products]]

\* A product on the way is in one place.
OnePlace(i) ==
  /\ Once(l_queue[i]) /\ Minting(i) \notin Queued(i)
  /\ \A r \in Riders(i) : l_reader[r].p \notin Queued(i) \cup {Minting(i)}
  /\ \A r, o \in Riders(i) : l_reader[r].p = l_reader[o].p => r = o

\* The marks are those of the products on the way.
MarkedOnly(i) ==
  \A p \in Products :
    p \in l_queued[i]
      <=> p \in Queued(i) \/ p = Minting(i) \/ \E r \in Riders(i) : l_reader[r].p = p

\* What the store refused is in bad or about to be, and on no way but that.
RefusedIsKnown(i) ==
  /\ l_refused[i] \subseteq l_bad[i] \cup (IF l_minter[i].at = "bad" THEN {Minting(i)} ELSE {})
  /\ l_refused[i] \cap Queued(i) = {}
  /\ \A r \in Riders(i) : l_reader[r].p \notin l_refused[i]
  /\ l_minter[i].at = "ask" => ~l_halted[i] /\ Minting(i) \notin l_refused[i]

\* A link in memory, or about to be, is in the table.
LinkIsStored(i) ==
  /\ l_links[i] \subseteq l_table
  /\ l_minter[i].at = "remember" => Minting(i) \in l_table

LinkAt(i) == OnePlace(i) /\ MarkedOnly(i) /\ RefusedIsKnown(i) /\ LinkIsStored(i)

LinkInv == LinkShape /\ \A i \in Instances : LinkAt(i)

-----------------------------------------------------------------------------
\* What a queue holds after a product was put into it.
LEMMA AppendIn ==
  ASSUME NEW q \in Seq(Products), NEW p \in Products
  PROVE  /\ Append(q, p) \in Seq(Products)
         /\ Shop!In(Append(q, p)) = Shop!In(q) \cup {p}
         /\ Once(q) /\ p \notin Shop!In(q) => Once(Append(q, p))
  <1> DEFINE a == Append(q, p)
  <1>1. /\ a \in Seq(Products) /\ Len(q) \in Nat /\ Len(a) = Len(q) + 1
        /\ \A n \in 1..Len(q) : a[n] = q[n]
        /\ a[Len(a)] = p
    BY AppendProperties, LenProperties
  <1>2. \A n \in 1..Len(a) : n \in 1..Len(q) \/ n = Len(a)
    BY <1>1
  <1>3. 1..Len(q) \subseteq 1..Len(a) /\ Len(a) \in 1..Len(a) /\ Len(a) \notin 1..Len(q)
    BY <1>1
  <1>4. Shop!In(a) = Shop!In(q) \cup {p}
    BY <1>1, <1>2, <1>3 DEF Shop!In
  <1>5. ASSUME Once(q), p \notin Shop!In(q) PROVE Once(a)
    BY <1>1, <1>2, <1>5 DEF Once, Shop!In
  <1> QED
    BY <1>1, <1>4, <1>5

\* What a queue holds after its first product was taken.
LEMMA TailIn ==
  ASSUME NEW q \in Seq(Products), q # <<>>, Once(q)
  PROVE  /\ Tail(q) \in Seq(Products) /\ Head(q) \in Products
         /\ Shop!In(q) = Shop!In(Tail(q)) \cup {Head(q)}
         /\ Head(q) \notin Shop!In(Tail(q)) /\ Once(Tail(q))
  <1> DEFINE t == Tail(q)
  <1>1. /\ t \in Seq(Products) /\ Head(q) \in Products /\ Head(q) = q[1]
        /\ Len(q) \in Nat \ {0} /\ Len(t) = Len(q) - 1
        /\ \A n \in 1..Len(t) : t[n] = q[n + 1]
    BY HeadTailProperties, LenProperties, EmptySeq
  <1>2. \A n \in 1..Len(t) : n + 1 \in 1..Len(q) /\ n + 1 # 1
    BY <1>1
  <1>3. \A n \in 1..Len(q) : n = 1 \/ (n - 1 \in 1..Len(t) /\ q[n] = t[n - 1])
    BY <1>1
  <1>4. 1 \in 1..Len(q)
    BY <1>1
  <1>5. Shop!In(q) = Shop!In(t) \cup {Head(q)}
    <2>1. ASSUME NEW x \in Shop!In(q) PROVE x \in Shop!In(t) \cup {Head(q)}
      <3>1. PICK n \in 1..Len(q) : q[n] = x
        BY <2>1 DEF Shop!In
      <3> QED
        BY <3>1, <1>1, <1>3 DEF Shop!In
    <2>2. ASSUME NEW x \in Shop!In(t) PROVE x \in Shop!In(q)
      <3>1. PICK n \in 1..Len(t) : t[n] = x
        BY <2>2 DEF Shop!In
      <3> QED
        BY <3>1, <1>1, <1>2 DEF Shop!In
    <2>3. Head(q) \in Shop!In(q)
      BY <1>1, <1>4 DEF Shop!In
    <2> QED
      BY <2>1, <2>2, <2>3
  <1>6. Head(q) \notin Shop!In(t)
    BY <1>1, <1>2, <1>4 DEF Shop!In, Once
  <1>7. Once(t)
    <2> SUFFICES ASSUME NEW m \in 1..Len(t), NEW n \in 1..Len(t), t[m] = t[n] PROVE m = n
      BY DEF Once
    <2>1. m + 1 = n + 1
      BY <1>1, <1>2 DEF Once
    <2> QED
      BY <2>1
  <1> QED
    BY <1>1, <1>5, <1>6, <1>7

\* A queue without repetitions is as long as what it holds.
LEMMA OnceCounts ==
  ASSUME NEW q \in Seq(Products), Once(q)
  PROVE  Cardinality(Shop!In(q)) = Len(q)
  <1>1. Len(q) \in Nat /\ q \in [1..Len(q) -> Products]
    BY LenProperties, ElementOfSeq
  <1>2. q \in Bijection(1..Len(q), Shop!In(q))
    BY <1>1 DEF Once, Shop!In, Bijection, Injection, Surjection, IsInjective
  <1> QED
    BY <1>1, <1>2, FS_CountingElements DEF ExistsBijection

-----------------------------------------------------------------------------
\* What is not touched stays as it is at the other instances.
LEMMA Elsewhere ==
  ASSUME LinkInv, NEW i \in Instances,
         l_table \subseteq l_table',
         Riders(i)' = Riders(i), \A r \in Riders(i) : l_reader'[r].p = l_reader[r].p,
         l_queue'[i] = l_queue[i], l_minter'[i] = l_minter[i], l_queued'[i] = l_queued[i],
         l_bad'[i] = l_bad[i], l_refused'[i] = l_refused[i], l_halted'[i] = l_halted[i],
         l_links'[i] = l_links[i]
  PROVE  LinkAt(i)'
  <1>1. LinkAt(i)
    BY DEF LinkInv
  <1>2. Queued(i)' = Queued(i) /\ Minting(i)' = Minting(i)
    BY DEF Queued, Minting
  <1>3. OnePlace(i)'
    BY <1>1, <1>2 DEF LinkAt, OnePlace
  <1>4. MarkedOnly(i)'
    BY <1>1, <1>2 DEF LinkAt, MarkedOnly
  <1>5. RefusedIsKnown(i)'
    BY <1>1, <1>2 DEF LinkAt, RefusedIsKnown
  <1>6. LinkIsStored(i)'
    BY <1>1, <1>2 DEF LinkAt, LinkIsStored
  <1> QED
    BY <1>3, <1>4, <1>5, <1>6 DEF LinkAt

\* A request at rest, and one that rides.
LEMMA ReaderTypes ==
  ASSUME LinkShape, NEW r \in Readers
  PROVE  /\ Shop!Gone.at = "idle"
         /\ l_reader[r].at # "idle" =>
              /\ l_reader[r].i \in Instances /\ l_reader[r].p \in Products
              /\ l_reader[r] = [at |-> l_reader[r].at, i |-> l_reader[r].i, p |-> l_reader[r].p]
         /\ l_reader[r].at \in {"idle", "mark", "send", "drop"}
  <1>1. Shop!Gone.at = "idle"
    BY DEF Shop!Gone
  <1>2. l_reader[r] \in {Shop!Gone} \cup [at : {"mark", "send", "drop"}, i : Instances, p : Products]
    BY DEF LinkShape
  <1> QED
    BY <1>1, <1>2

LEMMA MinterTypes ==
  ASSUME LinkShape, NEW i \in Instances
  PROVE  /\ Shop!Resting.at = "idle" /\ Shop!Resting.p \notin Products
         /\ l_minter[i].at # "idle" =>
              /\ l_minter[i].p \in Products
              /\ l_minter[i] = [at |-> l_minter[i].at, p |-> l_minter[i].p]
         /\ l_minter[i].at = "idle" => l_minter[i] = Shop!Resting
         /\ l_queue[i] \in Seq(Products) /\ Queued(i) \subseteq Products
  <1>1. Shop!Resting.at = "idle" /\ Shop!Resting.p \notin Products
    BY ProductAssumption DEF Shop!Resting
  <1>2. l_minter[i] \in {Shop!Resting}
          \cup [at : {"ask", "store", "bad", "halt", "remember", "release"}, p : Products]
    BY DEF LinkShape
  <1>3. l_queue[i] \in Seq(Products)
    BY DEF LinkShape
  <1>4. Queued(i) \subseteq Products
    BY <1>3, ElementOfSeq DEF Queued, Shop!In
  <1> QED
    BY <1>1, <1>2, <1>3, <1>4

LEMMA InitLinks == Shop!Init => LinkInv
  <1> SUFFICES ASSUME Shop!Init PROVE LinkInv
    OBVIOUS
  <1>1. LinkShape
    BY EmptySeq DEF Shop!Init, LinkShape
  <1>2. ASSUME NEW i \in Instances PROVE LinkAt(i)
    <2>1. Riders(i) = {}
      <3>1. Shop!Gone.at = "idle"
        BY DEF Shop!Gone
      <3> QED
        BY <3>1 DEF Riders, Shop!Init
    <2>2. /\ l_queue[i] = <<>> /\ l_queued[i] = {} /\ l_refused[i] = {} /\ l_links[i] = l_table
          /\ l_minter[i] = Shop!Resting
      BY DEF Shop!Init
    <2>3. Len(l_queue[i]) = 0 /\ Queued(i) = {} /\ Once(l_queue[i])
      BY <2>2, EmptySeq DEF Queued, Shop!In, Once
    <2>4. l_minter[i].at = "idle" /\ Minting(i) \notin Products
      BY <2>2, ProductAssumption DEF Minting, Shop!Resting
    <2> QED
      BY <2>1, <2>2, <2>3, <2>4 DEF LinkAt, OnePlace, MarkedOnly, RefusedIsKnown, LinkIsStored
  <1> QED
    BY <1>1, <1>2 DEF LinkInv

-----------------------------------------------------------------------------
\* A page that is read rides nowhere yet.
LEMMA ResolveLinks ==
  ASSUME LinkInv, NEW r \in Readers, NEW i \in Instances, NEW p \in Products, Shop!Resolve(r, i, p)
  PROVE  LinkInv'
  <1>1. /\ l_reader[r].at = "idle" /\ l_reader'[r] = [at |-> "mark", i |-> i, p |-> p]
        /\ \A o \in Readers \ {r} : l_reader'[o] = l_reader[o]
        /\ l_reader' \in [Readers ->
             {Shop!Gone} \cup [at : {"mark", "send", "drop"}, i : Instances, p : Products]]
    BY DEF LinkInv, LinkShape, Shop!Resolve, Shop!Gone
  <1>2. UNCHANGED <<l_table, l_links, l_queued, l_bad, l_halted, l_queue, l_minter, l_refused>>
    BY DEF Shop!Resolve, Shop!memory
  <1>3. \A j \in Instances : /\ Riders(j)' = Riders(j)
                             /\ \A o \in Riders(j) : l_reader'[o] = l_reader[o]
    BY <1>1 DEF Riders
  <1>4. LinkShape'
    <2>1. Shop!Gone' = Shop!Gone /\ Shop!Resting' = Shop!Resting
      BY DEF Shop!Gone, Shop!Resting
    <2> QED
      BY <2>1, <1>1, <1>2 DEF LinkInv, LinkShape
  <1>5. \A j \in Instances : LinkAt(j)'
    BY <1>2, <1>3, Elsewhere
  <1> QED
    BY <1>4, <1>5 DEF LinkInv

\* A request that starts to ride carries a product that was on no way.
LEMMA MarkLinks ==
  ASSUME LinkInv, NEW r \in Readers, Shop!Mark(r)
  PROVE  LinkInv'
  <1>1. PICK i \in Instances, p \in Products : l_reader[r] = [at |-> "mark", i |-> i, p |-> p]
    BY ReaderTypes DEF LinkInv, Shop!Mark
  <1>2. UNCHANGED <<l_table, l_links, l_bad, l_halted, l_queue, l_minter, l_refused>>
    BY DEF Shop!Mark
  <1>3. Shop!Gone' = Shop!Gone /\ Shop!Resting' = Shop!Resting /\ Shop!Gone.at = "idle"
    BY DEF Shop!Gone, Shop!Resting
  <1>4. \A o \in Readers \ {r} : l_reader'[o] = l_reader[o]
    BY DEF LinkInv, LinkShape, Shop!Mark
  <1>5. CASE l_halted[i] \/ p \in l_bad[i] \cup l_queued[i]
    <2>1. l_reader' = [l_reader EXCEPT ![r] = Shop!Gone] /\ UNCHANGED l_queued
      BY <1>1, <1>5 DEF Shop!Mark
    <2>2. LinkShape'
      BY <2>1, <1>2, <1>3 DEF LinkInv, LinkShape
    <2>3. l_reader'[r] = Shop!Gone
      BY <2>1 DEF LinkInv, LinkShape
    <2>4. \A j \in Instances : /\ Riders(j)' = Riders(j)
                               /\ \A o \in Riders(j) : l_reader'[o] = l_reader[o]
      BY <2>3, <1>1, <1>3, <1>4 DEF Riders
    <2>5. \A j \in Instances : LinkAt(j)'
      BY <2>1, <2>4, <1>2, Elsewhere
    <2> QED
      BY <2>2, <2>5 DEF LinkInv
  <1>6. CASE ~(l_halted[i] \/ p \in l_bad[i] \cup l_queued[i])
    <2>1. /\ l_reader' = [l_reader EXCEPT ![r].at = "send"]
          /\ l_queued' = [l_queued EXCEPT ![i] = @ \cup {p}]
      BY <1>1, <1>6 DEF Shop!Mark
    <2> DEFINE sends == [at |-> "send", i |-> i, p |-> p]
    <2>a. [l_reader[r] EXCEPT !.at = "send"] = sends
      BY <1>1
    <2>b. l_reader' = [l_reader EXCEPT ![r] = sends]
      BY <2>1, <2>a
    <2>2. l_reader'[r] = sends
      BY <2>b DEF LinkInv, LinkShape
    <2>3. LinkShape'
      <3>1. l_reader' \in [Readers ->
              {Shop!Gone} \cup [at : {"mark", "send", "drop"}, i : Instances, p : Products]]
        BY <2>b DEF LinkInv, LinkShape
      <3>2. l_queued' \in [Instances -> SUBSET Products]
        BY <2>1 DEF LinkInv, LinkShape
      <3> QED
        BY <3>1, <3>2, <1>2, <1>3 DEF LinkInv, LinkShape
    <2>4. /\ Riders(i)' = Riders(i) \cup {r} /\ r \notin Riders(i)
          /\ \A o \in Riders(i) : l_reader'[o] = l_reader[o]
      BY <2>2, <1>1, <1>4 DEF Riders
    <2>5. \A j \in Instances \ {i} : LinkAt(j)'
      <3>1. \A j \in Instances \ {i} : /\ Riders(j)' = Riders(j) /\ l_queued'[j] = l_queued[j]
                                       /\ \A o \in Riders(j) : l_reader'[o] = l_reader[o]
        BY <2>1, <2>2, <1>1, <1>4 DEF Riders, LinkInv, LinkShape
      <3> QED
        BY <3>1, <1>2, Elsewhere
    <2>6. LinkAt(i)'
      <3>1. LinkAt(i) /\ Queued(i)' = Queued(i) /\ Minting(i)' = Minting(i)
        BY <1>2 DEF LinkInv, Queued, Minting
      <3>2. /\ p \notin Queued(i) \cup {Minting(i)}
            /\ \A o \in Riders(i) : l_reader[o].p # p
        BY <3>1, <1>6 DEF LinkAt, MarkedOnly
      <3>3. l_queued'[i] = l_queued[i] \cup {p}
        BY <2>1 DEF LinkInv, LinkShape
      <3>4. OnePlace(i)'
        BY <3>1, <3>2, <2>2, <2>4, <1>2 DEF LinkAt, OnePlace
      <3>5. MarkedOnly(i)'
        BY <3>1, <3>3, <2>2, <2>4 DEF LinkAt, MarkedOnly
      <3>6. p \notin l_refused[i]
        BY <3>1, <3>2, <1>6 DEF LinkAt, RefusedIsKnown
      <3>7. RefusedIsKnown(i)'
        BY <3>1, <3>6, <2>2, <2>4, <1>2 DEF LinkAt, RefusedIsKnown
      <3>8. LinkIsStored(i)'
        BY <3>1, <1>2 DEF LinkAt, LinkIsStored
      <3> QED
        BY <3>4, <3>5, <3>7, <3>8 DEF LinkAt
    <2> QED
      BY <2>3, <2>5, <2>6 DEF LinkInv
  <1> QED
    BY <1>5, <1>6

\* A request that sent its product has put it where its mark says.
LEMMA SendLinks ==
  ASSUME LinkInv, NEW r \in Readers, Shop!Send(r)
  PROVE  LinkInv'
  <1>1. PICK i \in Instances, p \in Products : l_reader[r] = [at |-> "send", i |-> i, p |-> p]
    BY ReaderTypes DEF LinkInv, Shop!Send
  <1>2. UNCHANGED <<l_table, l_links, l_queued, l_bad, l_halted, l_minter, l_refused>>
    BY DEF Shop!Send, Shop!memory
  <1>3. Shop!Gone' = Shop!Gone /\ Shop!Resting' = Shop!Resting /\ Shop!Gone.at = "idle"
    BY DEF Shop!Gone, Shop!Resting
  <1>4. \A o \in Readers \ {r} : l_reader'[o] = l_reader[o]
    BY DEF LinkInv, LinkShape, Shop!Send
  <1>5. CASE ~(Len(l_queue[i]) < QueueSize)
    <2>1. l_reader' = [l_reader EXCEPT ![r].at = "drop"] /\ UNCHANGED l_queue
      BY <1>1, <1>5 DEF Shop!Send
    <2> DEFINE drops == [at |-> "drop", i |-> i, p |-> p]
    <2>a. [l_reader[r] EXCEPT !.at = "drop"] = drops
      BY <1>1
    <2>2. l_reader' = [l_reader EXCEPT ![r] = drops]
      BY <2>1, <2>a
    <2>3. LinkShape'
      <3>1. l_reader' \in [Readers ->
              {Shop!Gone} \cup [at : {"mark", "send", "drop"}, i : Instances, p : Products]]
        BY <2>2 DEF LinkInv, LinkShape
      <3> QED
        BY <2>1, <3>1, <1>2, <1>3 DEF LinkInv, LinkShape
    <2>4. l_reader'[r] = drops
      BY <2>2 DEF LinkInv, LinkShape
    <2>5. \A j \in Instances : /\ Riders(j)' = Riders(j)
                               /\ \A o \in Riders(j) : l_reader'[o].p = l_reader[o].p
      BY <2>4, <1>1, <1>4 DEF Riders
    <2>6. \A j \in Instances : LinkAt(j)'
      BY <2>1, <2>5, <1>2, Elsewhere
    <2> QED
      BY <2>3, <2>6 DEF LinkInv
  <1>6. CASE Len(l_queue[i]) < QueueSize
    <2>1. /\ l_reader' = [l_reader EXCEPT ![r] = Shop!Gone]
          /\ l_queue' = [l_queue EXCEPT ![i] = Append(@, p)]
      BY <1>1, <1>6 DEF Shop!Send
    <2>2. l_reader'[r] = Shop!Gone /\ l_queue'[i] = Append(l_queue[i], p)
      BY <2>1 DEF LinkInv, LinkShape
    <2>3. /\ l_queue[i] \in Seq(Products) /\ Append(l_queue[i], p) \in Seq(Products)
      BY AppendIn, MinterTypes DEF LinkInv
    <2>4. LinkShape'
      BY <2>1, <2>3, <1>2, <1>3 DEF LinkInv, LinkShape
    <2>5. /\ Riders(i)' = Riders(i) \ {r} /\ r \in Riders(i)
          /\ \A o \in Riders(i)' : l_reader'[o] = l_reader[o]
      BY <2>2, <1>1, <1>3, <1>4 DEF Riders
    <2>6. \A j \in Instances \ {i} : LinkAt(j)'
      <3>1. \A j \in Instances \ {i} : /\ Riders(j)' = Riders(j) /\ l_queue'[j] = l_queue[j]
                                       /\ \A o \in Riders(j) : l_reader'[o] = l_reader[o]
        BY <2>1, <2>2, <1>1, <1>3, <1>4 DEF Riders, LinkInv, LinkShape
      <3> QED
        BY <3>1, <1>2, Elsewhere
    <2>7. LinkAt(i)'
      <3>1. LinkAt(i) /\ Minting(i)' = Minting(i)
        BY <1>2 DEF LinkInv, Minting
      <3>2. /\ p \notin Queued(i) \cup {Minting(i)} /\ p \notin l_refused[i]
            /\ \A o \in Riders(i)' : l_reader[o].p # p
        BY <3>1, <2>5, <1>1 DEF LinkAt, OnePlace, RefusedIsKnown
      <3>3. Queued(i)' = Queued(i) \cup {p} /\ Once(l_queue[i])'
        BY <3>1, <3>2, <2>2, <2>3, AppendIn DEF LinkAt, OnePlace, Queued
      <3>4. OnePlace(i)'
        BY <3>1, <3>2, <3>3, <2>5 DEF LinkAt, OnePlace
      <3>5. MarkedOnly(i)'
        BY <3>1, <3>3, <2>5, <1>1, <1>2 DEF LinkAt, MarkedOnly
      <3>6. RefusedIsKnown(i)'
        BY <3>1, <3>2, <3>3, <2>5, <1>2 DEF LinkAt, RefusedIsKnown
      <3>7. LinkIsStored(i)'
        BY <3>1, <1>2 DEF LinkAt, LinkIsStored
      <3> QED
        BY <3>4, <3>5, <3>6, <3>7 DEF LinkAt
    <2> QED
      BY <2>4, <2>6, <2>7 DEF LinkInv
  <1> QED
    BY <1>5, <1>6

\* A request that drops its product takes its mark with it.
LEMMA DropLinks ==
  ASSUME LinkInv, NEW r \in Readers, Shop!Drop(r)
  PROVE  LinkInv'
  <1>1. PICK i \in Instances, p \in Products : l_reader[r] = [at |-> "drop", i |-> i, p |-> p]
    BY ReaderTypes DEF LinkInv, Shop!Drop
  <1>2. UNCHANGED <<l_table, l_links, l_bad, l_halted, l_queue, l_minter, l_refused>>
    BY DEF Shop!Drop
  <1>3. Shop!Gone' = Shop!Gone /\ Shop!Resting' = Shop!Resting /\ Shop!Gone.at = "idle"
    BY DEF Shop!Gone, Shop!Resting
  <1>4. /\ l_reader' = [l_reader EXCEPT ![r] = Shop!Gone]
        /\ l_queued' = [l_queued EXCEPT ![i] = @ \ {p}]
    BY <1>1 DEF Shop!Drop
  <1>5. /\ l_reader'[r] = Shop!Gone /\ l_queued'[i] = l_queued[i] \ {p}
        /\ \A o \in Readers \ {r} : l_reader'[o] = l_reader[o]
    BY <1>4 DEF LinkInv, LinkShape
  <1>6. LinkShape'
    BY <1>2, <1>3, <1>4 DEF LinkInv, LinkShape
  <1>7. /\ Riders(i)' = Riders(i) \ {r} /\ r \in Riders(i)
        /\ \A o \in Riders(i)' : l_reader'[o] = l_reader[o]
    BY <1>1, <1>3, <1>5 DEF Riders
  <1>8. \A j \in Instances \ {i} : LinkAt(j)'
    <2>1. \A j \in Instances \ {i} : /\ Riders(j)' = Riders(j) /\ l_queued'[j] = l_queued[j]
                                     /\ \A o \in Riders(j) : l_reader'[o] = l_reader[o]
      BY <1>1, <1>3, <1>4, <1>5 DEF Riders, LinkInv, LinkShape
    <2> QED
      BY <2>1, <1>2, Elsewhere
  <1>9. LinkAt(i)'
    <2>1. LinkAt(i) /\ Queued(i)' = Queued(i) /\ Minting(i)' = Minting(i)
      BY <1>2 DEF LinkInv, Queued, Minting
    <2>2. /\ p \notin Queued(i) \cup {Minting(i)}
          /\ \A o \in Riders(i)' : l_reader[o].p # p
      BY <2>1, <1>1, <1>7 DEF LinkAt, OnePlace
    <2>3. OnePlace(i)'
      BY <2>1, <1>2, <1>7 DEF LinkAt, OnePlace
    <2>4. MarkedOnly(i)'
      BY <2>1, <2>2, <1>1, <1>5, <1>7 DEF LinkAt, MarkedOnly
    <2>5. RefusedIsKnown(i)' /\ LinkIsStored(i)'
      BY <2>1, <1>2, <1>7 DEF LinkAt, RefusedIsKnown, LinkIsStored
    <2> QED
      BY <2>3, <2>4, <2>5 DEF LinkAt
  <1> QED
    BY <1>6, <1>8, <1>9 DEF LinkInv

-----------------------------------------------------------------------------
\* A step of a minter that changes what is said of its product, not where any
\* product is: it preserves the invariant if it keeps what was refused known and
\* what is linked stored.
LEMMA MinterSteps ==
  ASSUME LinkInv, NEW i \in Instances, LinkShape',
         \A j \in Instances \ {i} :
           /\ l_minter'[j] = l_minter[j] /\ l_refused'[j] = l_refused[j] /\ l_bad'[j] = l_bad[j]
           /\ l_halted'[j] = l_halted[j] /\ l_links'[j] = l_links[j],
         l_table \subseteq l_table', UNCHANGED <<l_queue, l_queued, l_reader>>,
         Minting(i)' = Minting(i), RefusedIsKnown(i)', LinkIsStored(i)'
  PROVE  LinkInv'
  <1>1. \A j \in Instances : /\ Riders(j)' = Riders(j)
                             /\ \A o \in Riders(j) : l_reader'[o].p = l_reader[o].p
    BY DEF Riders
  <1>2. \A j \in Instances \ {i} : LinkAt(j)'
    BY <1>1, Elsewhere
  <1>3. LinkAt(i) /\ Queued(i)' = Queued(i)
    BY DEF LinkInv, Queued
  <1>4. OnePlace(i)'
    BY <1>1, <1>3 DEF LinkAt, OnePlace
  <1>5. MarkedOnly(i)'
    BY <1>1, <1>3 DEF LinkAt, MarkedOnly
  <1> QED
    BY <1>2, <1>4, <1>5 DEF LinkInv, LinkAt

\* The store's answer, and what the minter does with it.
LEMMA AnswerLinks ==
  ASSUME LinkInv, NEW i \in Instances,
         Shop!PurchaseLinks(i) \/ Shop!MarkBad(i) \/ Shop!Halt(i) \/ Shop!Store(i)
           \/ Shop!Remember(i)
  PROVE  LinkInv'
  <1>1. l_minter[i].at \in {"ask", "store", "bad", "halt", "remember"}
    BY DEF Shop!PurchaseLinks, Shop!MarkBad, Shop!Halt, Shop!Store, Shop!Remember
  <1>2. PICK p \in Products : l_minter[i] = [at |-> l_minter[i].at, p |-> p]
    BY <1>1, MinterTypes DEF LinkInv
  <1>3. PICK to \in {"store", "bad", "halt", "remember", "release"} :
          l_minter' = [l_minter EXCEPT ![i].at = to]
    BY DEF Shop!At, Shop!PurchaseLinks, Shop!MarkBad, Shop!Halt, Shop!Store, Shop!Remember
  <1>4. [l_minter[i] EXCEPT !.at = to] = [at |-> to, p |-> p]
    BY <1>2
  <1>5. l_minter' = [l_minter EXCEPT ![i] = [at |-> to, p |-> p]]
    BY <1>3, <1>4
  <1>6. /\ l_minter'[i] = [at |-> to, p |-> p] /\ Minting(i) = p /\ Minting(i)' = p
        /\ \A j \in Instances \ {i} : l_minter'[j] = l_minter[j]
    BY <1>2, <1>5 DEF LinkInv, LinkShape, Minting
  <1>7. UNCHANGED <<l_queue, l_queued, l_reader>>
    BY DEF Shop!PurchaseLinks, Shop!MarkBad, Shop!Halt, Shop!Store, Shop!Remember, Shop!memory
  <1>8. Shop!Gone' = Shop!Gone /\ Shop!Resting' = Shop!Resting
    BY DEF Shop!Gone, Shop!Resting
  <1>9. l_minter' \in [Instances ->
          {Shop!Resting}
          \cup [at : {"ask", "store", "bad", "halt", "remember", "release"}, p : Products]]
    BY <1>5 DEF LinkInv, LinkShape
  <1>10. /\ LinkAt(i) /\ Queued(i)' = Queued(i) /\ p \notin Queued(i)
         /\ Riders(i)' = Riders(i) /\ \A r \in Riders(i) : l_reader'[r] = l_reader[r]
         /\ \A r \in Riders(i) : l_reader[r].p # p
    BY <1>6, <1>7 DEF LinkInv, LinkAt, OnePlace, Queued, Riders
  <1>a. ASSUME NEW x, Shop!At(i, x) PROVE x = to
    <2>1. l_minter'[i] = [l_minter[i] EXCEPT !.at = x]
      BY <1>a DEF Shop!At, LinkInv, LinkShape
    <2>2. [l_minter[i] EXCEPT !.at = x] = [at |-> x, p |-> p]
      BY <1>2
    <2> QED
      BY <2>1, <2>2, <1>6
  <1>b. l_minter[i].p = p /\ l_minter'[i].at = to
    BY <1>6 DEF Minting
  <1>11. CASE Shop!PurchaseLinks(i)
    <2>1. /\ UNCHANGED <<l_table, l_links, l_bad, l_halted>> /\ l_minter[i].at = "ask"
          /\ to # "remember"
          /\ IF to = "bad" THEN l_refused' = [l_refused EXCEPT ![i] = @ \cup {p}]
                           ELSE l_refused' = l_refused
      BY <1>11, <1>a, <1>b DEF Shop!PurchaseLinks, Shop!memory
    <2>2. LinkShape'
      BY <2>1, <1>7, <1>8, <1>9 DEF LinkInv, LinkShape
    <2>3. /\ l_refused'[i] = IF to = "bad" THEN l_refused[i] \cup {p} ELSE l_refused[i]
          /\ \A j \in Instances \ {i} : l_refused'[j] = l_refused[j]
      BY <2>1 DEF LinkInv, LinkShape
    <2>4. RefusedIsKnown(i)'
      BY <2>1, <2>3, <1>6, <1>10 DEF LinkAt, RefusedIsKnown
    <2>5. LinkIsStored(i)'
      BY <2>1, <1>6, <1>10 DEF LinkAt, LinkIsStored
    <2> QED
      BY <2>1, <2>2, <2>3, <2>4, <2>5, <1>6, <1>7, MinterSteps
  <1>12. CASE Shop!MarkBad(i)
    <2>1. /\ UNCHANGED <<l_table, l_links, l_refused, l_halted>> /\ l_minter[i].at = "bad"
          /\ to = "release" /\ l_bad' = [l_bad EXCEPT ![i] = @ \cup {p}]
      BY <1>12, <1>a, <1>b DEF Shop!MarkBad
    <2>2. LinkShape'
      BY <2>1, <1>7, <1>8, <1>9 DEF LinkInv, LinkShape
    <2>3. l_bad'[i] = l_bad[i] \cup {p} /\ \A j \in Instances \ {i} : l_bad'[j] = l_bad[j]
      BY <2>1 DEF LinkInv, LinkShape
    <2>4. RefusedIsKnown(i)'
      BY <2>1, <2>3, <1>6, <1>10 DEF LinkAt, RefusedIsKnown
    <2>5. LinkIsStored(i)'
      BY <2>1, <1>6, <1>10 DEF LinkAt, LinkIsStored
    <2> QED
      BY <2>1, <2>2, <2>3, <2>4, <2>5, <1>6, <1>7, MinterSteps
  <1>13. CASE Shop!Halt(i)
    <2>1. /\ UNCHANGED <<l_table, l_links, l_refused, l_bad>> /\ l_minter[i].at = "halt"
          /\ to = "release" /\ l_halted' = [l_halted EXCEPT ![i] = TRUE]
      BY <1>13, <1>a, <1>b DEF Shop!Halt
    <2>2. LinkShape'
      BY <2>1, <1>7, <1>8, <1>9 DEF LinkInv, LinkShape
    <2>3. \A j \in Instances \ {i} : l_halted'[j] = l_halted[j]
      BY <2>1 DEF LinkInv, LinkShape
    <2>4. RefusedIsKnown(i)'
      BY <2>1, <1>6, <1>10 DEF LinkAt, RefusedIsKnown
    <2>5. LinkIsStored(i)'
      BY <2>1, <1>6, <1>10 DEF LinkAt, LinkIsStored
    <2> QED
      BY <2>1, <2>2, <2>3, <2>4, <2>5, <1>6, <1>7, MinterSteps
  <1>14. CASE Shop!Store(i)
    <2>1. /\ UNCHANGED <<l_links, l_refused, l_bad, l_halted>> /\ l_minter[i].at = "store"
          /\ \/ to = "remember" /\ l_table' = l_table \cup {p}
             \/ to = "release" /\ l_table' = l_table
      BY <1>14, <1>a, <1>b DEF Shop!Store, Shop!memory
    <2>2. LinkShape'
      BY <2>1, <1>7, <1>8, <1>9 DEF LinkInv, LinkShape
    <2>3. RefusedIsKnown(i)'
      BY <2>1, <1>6, <1>10 DEF LinkAt, RefusedIsKnown
    <2>4. LinkIsStored(i)'
      BY <2>1, <1>6, <1>10 DEF LinkAt, LinkIsStored
    <2> QED
      BY <2>1, <2>2, <2>3, <2>4, <1>6, <1>7, MinterSteps
  <1>15. CASE Shop!Remember(i)
    <2>1. /\ UNCHANGED <<l_table, l_refused, l_bad, l_halted>> /\ l_minter[i].at = "remember"
          /\ to = "release" /\ l_links' = [l_links EXCEPT ![i] = @ \cup {p}]
      BY <1>15, <1>a, <1>b DEF Shop!Remember
    <2>2. LinkShape'
      BY <2>1, <1>7, <1>8, <1>9 DEF LinkInv, LinkShape
    <2>3. l_links'[i] = l_links[i] \cup {p} /\ \A j \in Instances \ {i} : l_links'[j] = l_links[j]
      BY <2>1 DEF LinkInv, LinkShape
    <2>4. RefusedIsKnown(i)'
      BY <2>1, <1>6, <1>10 DEF LinkAt, RefusedIsKnown
    <2>5. LinkIsStored(i)'
      BY <2>1, <2>3, <1>6, <1>10 DEF LinkAt, LinkIsStored
    <2> QED
      BY <2>1, <2>2, <2>3, <2>4, <2>5, <1>6, <1>7, MinterSteps
  <1> QED
    BY <1>11, <1>12, <1>13, <1>14, <1>15

\* A product that is taken from the channel is with the minter.
LEMMA TakeLinks ==
  ASSUME LinkInv, NEW i \in Instances, Shop!Take(i)
  PROVE  LinkInv'
  <1>1. /\ l_queue[i] \in Seq(Products) /\ l_queue[i] # <<>> /\ Once(l_queue[i]) /\ LinkAt(i)
        /\ l_minter[i] = Shop!Resting /\ Shop!Resting.p \notin Products
    BY MinterTypes DEF LinkInv, LinkAt, OnePlace, Shop!Take
  <1>2. PICK p \in Products, t \in Seq(Products) :
          /\ p = Head(l_queue[i]) /\ t = Tail(l_queue[i])
          /\ Queued(i) = Shop!In(t) \cup {p} /\ p \notin Shop!In(t) /\ Once(t)
    BY <1>1, TailIn DEF Queued
  <1>3. PICK to \in {"ask", "release"} :
          /\ to = "ask" => ~l_halted[i]
          /\ l_minter' = [l_minter EXCEPT ![i] = [at |-> to, p |-> p]]
          /\ l_queue' = [l_queue EXCEPT ![i] = t]
    BY <1>2 DEF Shop!Take
  <1>4. UNCHANGED <<l_table, l_links, l_queued, l_bad, l_halted, l_reader, l_refused>>
    BY DEF Shop!Take, Shop!memory
  <1>5. Shop!Gone' = Shop!Gone /\ Shop!Resting' = Shop!Resting
    BY DEF Shop!Gone, Shop!Resting
  <1>6. LinkShape'
    <2>1. l_minter' \in [Instances ->
            {Shop!Resting}
            \cup [at : {"ask", "store", "bad", "halt", "remember", "release"}, p : Products]]
      BY <1>3 DEF LinkInv, LinkShape
    <2>2. l_queue' \in [Instances -> Seq(Products)]
      BY <1>3 DEF LinkInv, LinkShape
    <2> QED
      BY <2>1, <2>2, <1>4, <1>5 DEF LinkInv, LinkShape
  <1>7. /\ l_minter'[i] = [at |-> to, p |-> p] /\ Minting(i)' = p /\ Queued(i)' = Shop!In(t)
        /\ l_queue'[i] = t
        /\ \A j \in Instances \ {i} : l_minter'[j] = l_minter[j] /\ l_queue'[j] = l_queue[j]
    BY <1>3 DEF LinkInv, LinkShape, Minting, Queued
  <1>8. \A j \in Instances : /\ Riders(j)' = Riders(j)
                             /\ \A o \in Riders(j) : l_reader'[o] = l_reader[o]
    BY <1>4 DEF Riders
  <1>9. \A j \in Instances \ {i} : LinkAt(j)'
    BY <1>4, <1>7, <1>8, Elsewhere
  <1>10. \A o \in Riders(i) : l_reader[o].p \notin Queued(i)
    BY <1>1 DEF LinkAt, OnePlace
  <1>11. OnePlace(i)'
    BY <1>1, <1>2, <1>7, <1>8, <1>10 DEF LinkAt, OnePlace
  <1>12. MarkedOnly(i)'
    <2>1. Minting(i) \notin Products
      BY <1>1 DEF Minting
    <2> QED
      BY <2>1, <1>1, <1>2, <1>4, <1>7, <1>8 DEF LinkAt, MarkedOnly
  <1>13. RefusedIsKnown(i)'
    <2>1. l_minter[i].at = "idle"
      BY <1>1 DEF Shop!Resting
    <2>2. l_refused[i] \subseteq l_bad[i] /\ l_refused[i] \cap Queued(i) = {}
      BY <2>1, <1>1 DEF LinkAt, RefusedIsKnown
    <2> QED
      BY <2>2, <1>1, <1>2, <1>3, <1>4, <1>7, <1>8 DEF LinkAt, RefusedIsKnown
  <1>14. LinkIsStored(i)'
    BY <1>1, <1>4, <1>7 DEF LinkAt, LinkIsStored
  <1> QED
    BY <1>6, <1>9, <1>11, <1>12, <1>13, <1>14 DEF LinkInv, LinkAt

\* A product that is released is marked no more, and was nowhere else.
LEMMA ReleaseLinks ==
  ASSUME LinkInv, NEW i \in Instances, Shop!Release(i)
  PROVE  LinkInv'
  <1>1. PICK p \in Products : l_minter[i] = [at |-> "release", p |-> p]
    BY MinterTypes DEF LinkInv, Shop!Release
  <1>2. /\ l_minter' = [l_minter EXCEPT ![i] = Shop!Resting]
        /\ l_queued' = [l_queued EXCEPT ![i] = @ \ {p}]
        /\ UNCHANGED <<l_table, l_links, l_bad, l_halted, l_queue, l_reader, l_refused>>
    BY <1>1 DEF Shop!Release
  <1>3. Shop!Gone' = Shop!Gone /\ Shop!Resting' = Shop!Resting
    BY DEF Shop!Gone, Shop!Resting
  <1>4. LinkShape'
    BY <1>2, <1>3 DEF LinkInv, LinkShape
  <1>5. /\ l_minter'[i] = Shop!Resting /\ l_queued'[i] = l_queued[i] \ {p}
        /\ \A j \in Instances \ {i} : l_minter'[j] = l_minter[j] /\ l_queued'[j] = l_queued[j]
    BY <1>2 DEF LinkInv, LinkShape
  <1>6. /\ Minting(i) = p /\ Minting(i)' \notin Products /\ Shop!Resting.at = "idle"
        /\ Queued(i)' = Queued(i) /\ Queued(i) \subseteq Products /\ LinkAt(i)
    BY <1>1, <1>2, <1>5, MinterTypes DEF LinkInv, Minting, Queued
  <1>7. \A j \in Instances : /\ Riders(j)' = Riders(j)
                             /\ \A o \in Riders(j) : l_reader'[o] = l_reader[o]
    BY <1>2 DEF Riders
  <1>8. \A j \in Instances \ {i} : LinkAt(j)'
    BY <1>2, <1>5, <1>7, Elsewhere
  <1>9. OnePlace(i)'
    <2>1. \A o \in Riders(i) : l_reader[o].p \in Products
      BY ReaderTypes DEF LinkInv, Riders
    <2> QED
      BY <2>1, <1>2, <1>6, <1>7 DEF LinkAt, OnePlace
  <1>10. MarkedOnly(i)'
    <2>1. p \notin Queued(i) /\ \A o \in Riders(i) : l_reader[o].p # p
      BY <1>6 DEF LinkAt, OnePlace
    <2> QED
      BY <2>1, <1>5, <1>6, <1>7 DEF LinkAt, MarkedOnly
  <1>11. RefusedIsKnown(i)'
    BY <1>1, <1>2, <1>5, <1>6, <1>7 DEF LinkAt, RefusedIsKnown
  <1>12. LinkIsStored(i)'
    BY <1>2, <1>5, <1>6 DEF LinkAt, LinkIsStored
  <1> QED
    BY <1>4, <1>8, <1>9, <1>10, <1>11, <1>12 DEF LinkInv, LinkAt

\* An instance that starts again has nothing on the way and nothing marked.
LEMMA RestartLinks ==
  ASSUME LinkInv, NEW i \in Instances, Shop!Restart(i)
  PROVE  LinkInv'
  <1>1. PICK loaded \in {l_table, {}} : l_links' = [l_links EXCEPT ![i] = loaded]
    BY DEF Shop!Restart
  <1>2. /\ l_queue' = [l_queue EXCEPT ![i] = <<>>] /\ l_queued' = [l_queued EXCEPT ![i] = {}]
        /\ l_bad' = [l_bad EXCEPT ![i] = {}] /\ l_halted' = [l_halted EXCEPT ![i] = FALSE]
        /\ l_minter' = [l_minter EXCEPT ![i] = Shop!Resting]
        /\ l_refused' = [l_refused EXCEPT ![i] = {}]
        /\ l_reader' = [r \in Readers |-> IF l_reader[r].i = i THEN Shop!Gone ELSE l_reader[r]]
        /\ UNCHANGED l_table
    BY DEF Shop!Restart
  <1>3. Shop!Gone' = Shop!Gone /\ Shop!Resting' = Shop!Resting /\ Shop!Gone.at = "idle"
    BY DEF Shop!Gone, Shop!Resting
  <1>4. LinkShape'
    <2>1. l_queue' \in [Instances -> Seq(Products)]
      BY <1>2, EmptySeq DEF LinkInv, LinkShape
    <2>2. l_links' \in [Instances -> SUBSET Products]
      BY <1>1 DEF LinkInv, LinkShape
    <2>3. l_reader' \in [Readers ->
            {Shop!Gone} \cup [at : {"mark", "send", "drop"}, i : Instances, p : Products]]
      BY <1>2 DEF LinkInv, LinkShape
    <2> QED
      BY <2>1, <2>2, <2>3, <1>2, <1>3 DEF LinkInv, LinkShape
  <1>5. /\ l_queue'[i] = <<>> /\ l_queued'[i] = {} /\ l_refused'[i] = {}
        /\ l_links'[i] \subseteq l_table /\ l_minter'[i] = Shop!Resting
        /\ \A j \in Instances \ {i} :
             /\ l_queue'[j] = l_queue[j] /\ l_queued'[j] = l_queued[j] /\ l_bad'[j] = l_bad[j]
             /\ l_halted'[j] = l_halted[j] /\ l_minter'[j] = l_minter[j]
             /\ l_refused'[j] = l_refused[j] /\ l_links'[j] = l_links[j]
    BY <1>1, <1>2 DEF LinkInv, LinkShape
  <1>6. Riders(i)' = {}
    BY <1>2, <1>3 DEF Riders
  <1>7. \A j \in Instances \ {i} : /\ Riders(j)' = Riders(j)
                                   /\ \A o \in Riders(j) : l_reader'[o] = l_reader[o]
    BY <1>2, <1>3 DEF Riders
  <1>8. \A j \in Instances \ {i} : LinkAt(j)'
    BY <1>2, <1>5, <1>7, Elsewhere
  <1>9. LinkAt(i)'
    <2>1. Len(l_queue'[i]) = 0 /\ Queued(i)' = {} /\ Once(l_queue[i])'
      BY <1>5, EmptySeq DEF Queued, Shop!In, Once
    <2>2. l_minter'[i].at = "idle" /\ Minting(i)' \notin Products
      BY <1>5, ProductAssumption DEF Minting, Shop!Resting
    <2> QED
      BY <1>2, <1>5, <1>6, <2>1, <2>2
      DEF LinkAt, OnePlace, MarkedOnly, RefusedIsKnown, LinkIsStored
  <1> QED
    BY <1>4, <1>8, <1>9 DEF LinkInv

\* Every step of the shop preserves the invariant.
LEMMA NextLinks == LinkInv /\ [Shop!Next]_shopVars => LinkInv'
  <1> SUFFICES ASSUME LinkInv, [Shop!Next]_shopVars PROVE LinkInv'
    OBVIOUS
  <1>1. CASE UNCHANGED shopVars
    <2>1. Shop!Gone' = Shop!Gone /\ Shop!Resting' = Shop!Resting
      BY DEF Shop!Gone, Shop!Resting
    <2>2. LinkShape'
      BY <2>1, <1>1 DEF LinkInv, LinkShape, shopVars
    <2>3. \A j \in Instances : /\ Riders(j)' = Riders(j)
                               /\ \A o \in Riders(j) : l_reader'[o] = l_reader[o]
      BY <1>1 DEF Riders, shopVars
    <2>4. \A j \in Instances : LinkAt(j)'
      BY <2>3, <1>1, Elsewhere DEF shopVars
    <2> QED
      BY <2>2, <2>4 DEF LinkInv
  <1> QED
    BY <1>1, ResolveLinks, MarkLinks, SendLinks, DropLinks, AnswerLinks, TakeLinks, ReleaseLinks,
       RestartLinks DEF Shop!Next

\* What LinksKept promises is part of the invariant.
LEMMA LinkInvKeeps == LinkInv => Shop!LinksKept
  <1> SUFFICES ASSUME LinkInv PROVE Shop!LinksKept
    OBVIOUS
  <1>1. ASSUME NEW i \in Instances PROVE l_queued[i] = Shop!OnTheWay(i) \ {NoProduct}
    <2>1. LinkAt(i) /\ l_queued[i] \subseteq Products /\ Queued(i) \subseteq Products
      BY MinterTypes DEF LinkInv, LinkShape
    <2>2. Minting(i) \in Products \cup {NoProduct}
      <3>1. Shop!Resting.p = NoProduct
        BY DEF Shop!Resting
      <3> QED
        BY <3>1, MinterTypes DEF LinkInv, Minting
    <2>3. \A r \in Riders(i) : l_reader[r].p \in Products
      BY ReaderTypes DEF LinkInv, Riders
    <2>4. \A p : p \in Shop!OnTheWay(i)
                   <=> p \in Queued(i) \/ p = Minting(i) \/ \E r \in Riders(i) : l_reader[r].p = p
      BY DEF Shop!OnTheWay, Riders, Queued, Minting
    <2> QED
      BY <2>1, <2>2, <2>3, <2>4, ProductAssumption DEF LinkAt, MarkedOnly
  <1>2. \A i \in Instances : /\ Cardinality(Shop!In(l_queue[i])) = Len(l_queue[i])
                             /\ l_minter[i].p \notin Shop!In(l_queue[i])
    BY OnceCounts, MinterTypes DEF LinkInv, LinkAt, OnePlace, Queued, Minting
  <1>3. Shop!MarkedIsOnTheWay
    <2>1. \A S : Shop!Cardinality(S) = Cardinality(S)
      BY DEF Cardinality, Shop!Cardinality, IsFiniteSet, Shop!IsFiniteSet
    <2> QED
      BY <1>1, <1>2, <2>1 DEF Shop!MarkedIsOnTheWay
  <1>4. Shop!RefusedIsFinal
    BY DEF LinkInv, LinkAt, RefusedIsKnown, Queued, Minting, Shop!RefusedIsFinal
  <1>5. Shop!ShownIsStored
    BY DEF LinkInv, LinkAt, LinkIsStored, Shop!ShownIsStored
  <1> QED
    BY <1>3, <1>4, <1>5 DEF Shop!LinksKept

\* A product is marked exactly while it is on its way to be minted, once; what the
\* store refused is never asked for again, and what a page shows is in the table
\* (internal/infrastructure/storelink).
THEOREM LinksStayKept == SpecOfOne => []LinksKept
  <1>1. InitOfOne => LinkInv
    BY InitLinks DEF InitOfOne
  <1>2. LinkInv /\ [NextOfOne]_allVars => LinkInv'
    <2> SUFFICES ASSUME LinkInv, [NextOfOne]_allVars PROVE LinkInv'
      OBVIOUS
    <2>1. [Shop!Next]_shopVars
      BY DEF NextOfOne, allVars, MergeOnly, TrustOnly, InboxOnly, UploadOnly, ShelfOnly, RolesOnly,
         LinksOnly, stores
    <2> QED
      BY <2>1, NextLinks
  <1>3. LinkInv => LinksKept
    BY LinkInvKeeps DEF LinksKept
  <1> QED
    BY <1>1, <1>2, <1>3, PTL DEF SpecOfOne

-----------------------------------------------------------------------------
(* Permissions. *)

Layers == Permissions!Layers
Change == UNION {[R -> SUBSET Perms] : R \in SUBSET Permissions!Roles}

Saved == [seen : Nat, version : Nat, before : Layers, after : Layers]
Desk == [at : {"out", "reading", "open", "saving"}, seen : Nat, version : Nat,
         want : {<<>>} \cup [layers : Change, before : Layers]]

RoleShape ==
  /\ p_stored \in Layers
  /\ p_trail \in Seq(Saved)
  /\ p_editor \in [Editors -> Desk]

\* Permissions!Changed, of any layers.
Changed(layers, changes) ==
  [r \in Permissions!Roles |-> IF r \in DOMAIN changes THEN changes[r] ELSE layers[r]]

Ordered(layers) ==
  Permissions!Apply(layers)["moderator"] \subseteq Permissions!Apply(layers)["admin"]

\* The save that has judged is the only one, and judged by what is stored, of
\* which its editor has the version.
SavingIsCurrent ==
  \A e \in Editors : p_editor[e].at = "saving" =>
    /\ p_editor[e].want \in [layers : Change, before : Layers]
    /\ p_editor[e].want.before = p_stored /\ p_editor[e].version = Len(p_trail)
    /\ Ordered(Changed(p_stored, p_editor[e].want.layers))
    /\ \A o \in Editors : p_editor[o].at = "saving" => o = e

RoleInv == RoleShape /\ SavingIsCurrent /\ Permissions!SavesSerialised

-----------------------------------------------------------------------------
\* The layers after a change are layers.
LEMMA ChangedTypes ==
  ASSUME RoleShape, NEW changes \in Change
  PROVE  /\ Permissions!Changed(changes) = Changed(p_stored, changes)
         /\ Changed(p_stored, changes) \in Layers
  <1>1. PICK R \in SUBSET Permissions!Roles : changes \in [R -> SUBSET Perms]
    BY DEF Change
  <1>2. \A r \in DOMAIN changes : changes[r] \in SUBSET Perms
    BY <1>1
  <1>3. \A r \in Permissions!Roles : p_stored[r] \in SUBSET Perms
    BY DEF RoleShape, Layers, Permissions!Layers
  <1> QED
    BY <1>2, <1>3 DEF Permissions!Changed, Changed, Layers, Permissions!Layers

LEMMA InitRoles == Permissions!Init => RoleInv
  <1> SUFFICES ASSUME Permissions!Init PROVE RoleInv
    OBVIOUS
  <1>1. /\ p_stored = [r \in Permissions!Roles |-> {}] /\ p_trail = <<>>
        /\ p_editor = [e \in Editors |-> Permissions!NoMatrix]
    BY DEF Permissions!Init
  <1>2. Permissions!NoMatrix = [at |-> "out", seen |-> 0, version |-> 0, want |-> <<>>]
    BY DEF Permissions!NoMatrix
  <1>3. RoleShape
    <2>1. p_stored \in Layers
      BY <1>1 DEF Layers, Permissions!Layers
    <2>2. p_trail \in Seq(Saved)
      BY <1>1, EmptySeq
    <2> QED
      BY <2>1, <2>2, <1>1, <1>2 DEF RoleShape, Desk
  <1>4. SavingIsCurrent
    BY <1>1, <1>2 DEF SavingIsCurrent
  <1>5. Permissions!SavesSerialised
    <2>1. \A r \in Permissions!Roles : Permissions!Apply(p_stored)[r] = Baseline[r]
      BY <1>1 DEF Permissions!Apply, Permissions!Toggle
    <2>2. "moderator" \in Permissions!Roles /\ "admin" \in Permissions!Roles
      BY DEF Permissions!Roles
    <2>3. DOMAIN p_trail = {}
      BY <1>1
    <2> QED
      BY <2>1, <2>2, <2>3, BaselineAssumption DEF Permissions!SavesSerialised
  <1> QED
    BY <1>3, <1>4, <1>5 DEF RoleInv

\* A step that stores nothing and starts no save.
LEMMA RolesRest ==
  ASSUME RoleInv, UNCHANGED <<p_stored, p_trail>>, RoleShape',
         \A e \in Editors : p_editor'[e].at = "saving" => p_editor'[e] = p_editor[e]
  PROVE  RoleInv'
  <1>1. SavingIsCurrent'
    <2>1. Change' = Change /\ Layers' = Layers
      BY DEF Change, Layers, Permissions!Layers
    <2>2. p_trail' = p_trail
      OBVIOUS
    <2> QED
      BY <2>1, <2>2 DEF RoleInv, SavingIsCurrent
  <1>2. Permissions!SavesSerialised'
    BY DEF RoleInv, Permissions!SavesSerialised, Permissions!Apply
  <1> QED
    BY <1>1, <1>2 DEF RoleInv

\* A save that judges does so alone and by what is stored.
LEMMA JudgeRoles ==
  ASSUME RoleInv, NEW e \in Editors, NEW changes \in Change, Permissions!Judge(e, changes)
  PROVE  RoleInv'
  <1> DEFINE asks == [layers |-> changes, before |-> p_stored]
  <1>1. /\ UNCHANGED <<p_stored, p_trail>> /\ Ordered(Changed(p_stored, changes))
        /\ \A o \in Editors : p_editor[o].at # "saving"
        /\ p_editor' = [p_editor EXCEPT ![e].at = "saving", ![e].want = asks]
        /\ p_editor[e].version = Len(p_trail)
    BY ChangedTypes DEF RoleInv, Permissions!Judge, Permissions!Valid, Permissions!Unlocked, Permissions!Current, Ordered
  <1>2. PICK was \in Desk : p_editor[e] = was
    BY DEF RoleInv, RoleShape
  <1>3. /\ p_editor'[e] = [at |-> "saving", seen |-> was.seen, version |-> was.version, want |-> asks]
        /\ was.version = Len(p_trail)
        /\ \A o \in Editors \ {e} : p_editor'[o] = p_editor[o]
    BY <1>1, <1>2 DEF RoleInv, RoleShape, Desk
  <1>4. asks \in [layers : Change, before : Layers]
    BY DEF RoleInv, RoleShape
  <1>5. RoleShape'
    <2>1. p_editor'[e] \in Desk
      BY <1>3, <1>4 DEF Desk
    <2>2. p_editor' \in [Editors -> Desk]
      BY <2>1, <1>1, <1>3 DEF RoleInv, RoleShape
    <2> QED
      BY <2>2, <1>1 DEF RoleInv, RoleShape, Saved, Desk, Layers, Permissions!Layers, Change
  <1>6. SavingIsCurrent'
    <2>1. \A o \in Editors : p_editor'[o].at = "saving" => o = e
      BY <1>1, <1>3
    <2>2. /\ p_editor'[e].want = asks /\ asks.before = p_stored /\ asks.layers = changes
          /\ p_editor'[e].version = Len(p_trail)
      BY <1>3
    <2>3. Change' = Change /\ Layers' = Layers
      BY DEF Change, Layers, Permissions!Layers
    <2> QED
      BY <2>1, <2>2, <2>3, <1>1, <1>4 DEF SavingIsCurrent
  <1>7. Permissions!SavesSerialised'
    BY <1>1 DEF RoleInv, Permissions!SavesSerialised, Permissions!Apply
  <1> QED
    BY <1>5, <1>6, <1>7 DEF RoleInv

\* A save that commits follows the one before it, and leaves the order of roles.
LEMMA WriteRoles ==
  ASSUME RoleInv, NEW e \in Editors, Permissions!Write(e)
  PROVE  RoleInv'
  <1>1. PICK layers \in Change : /\ p_editor[e].want = [layers |-> layers, before |-> p_stored]
                                 /\ Ordered(Changed(p_stored, layers))
    BY DEF RoleInv, SavingIsCurrent, Permissions!Write
  <1>2. PICK next \in Layers : next = Permissions!Changed(layers) /\ Ordered(next)
    BY <1>1, ChangedTypes DEF RoleInv
  <1> DEFINE saved == [seen |-> p_editor[e].seen, version |-> p_editor[e].version,
                       before |-> p_stored, after |-> next]
  <1>3. /\ p_stored' = next
        /\ p_trail' = Append(p_trail, saved)
        /\ p_editor' = [p_editor EXCEPT ![e] = Permissions!NoMatrix]
        /\ p_editor[e].at = "saving" /\ p_editor[e].version = Len(p_trail)
    BY <1>1, <1>2 DEF Permissions!Write, RoleInv, SavingIsCurrent
  <1>31. saved \in Saved
    BY DEF RoleInv, RoleShape, Desk, Saved
  <1>4. /\ p_stored \in Layers /\ Len(p_trail) \in Nat /\ Len(p_trail') = Len(p_trail) + 1
        /\ p_trail' \in Seq(Saved)
        /\ \A n \in 1..Len(p_trail) : p_trail'[n] = p_trail[n]
        /\ p_trail'[Len(p_trail) + 1] = saved
        /\ DOMAIN p_trail = 1..Len(p_trail) /\ DOMAIN p_trail' = 1..Len(p_trail) + 1
    BY <1>3, <1>31, AppendProperties, LenProperties DEF RoleInv, RoleShape
  <1>5. /\ p_editor'[e] = Permissions!NoMatrix /\ Permissions!NoMatrix.at = "out"
        /\ \A o \in Editors \ {e} : p_editor'[o] = p_editor[o] /\ p_editor[o].at # "saving"
    <2>1. Permissions!NoMatrix.at = "out"
      BY DEF Permissions!NoMatrix
    <2>2. \A o \in Editors : p_editor[o].at = "saving" => o = e
      BY <1>3 DEF RoleInv, SavingIsCurrent
    <2> QED
      BY <2>1, <2>2, <1>3 DEF RoleInv, RoleShape
  <1>6. RoleShape'
    <2>1. Layers' = Layers /\ Change' = Change
      BY DEF Layers, Permissions!Layers, Change
    <2>2. Saved' = Saved /\ Desk' = Desk
      BY <2>1 DEF Saved, Desk
    <2>3. p_editor' \in [Editors -> Desk]
      BY <1>3 DEF RoleInv, RoleShape, Permissions!NoMatrix, Desk
    <2> QED
      BY <2>1, <2>2, <2>3, <1>3, <1>4 DEF RoleShape
  <1>7. SavingIsCurrent'
    BY <1>5 DEF SavingIsCurrent
  <1>8. Permissions!SavesSerialised'
    <2>1. Ordered(p_stored)'
      BY <1>2, <1>3 DEF Ordered, Permissions!Apply
    <2>2. ASSUME NEW n \in DOMAIN p_trail' PROVE n = Len(p_trail') => p_trail'[n].after = p_stored'
      BY <2>2, <1>3, <1>4
    <2>3. ASSUME NEW n \in DOMAIN p_trail', n > 1
          PROVE  p_trail'[n].before = p_trail'[n - 1].after
      <3>1. CASE n = Len(p_trail')
        <4>1. Len(p_trail) \in 1..Len(p_trail) /\ n - 1 = Len(p_trail)
          BY <2>3, <3>1, <1>4
        <4>2. p_trail[Len(p_trail)].after = p_stored
          BY <4>1, <1>4 DEF RoleInv, Permissions!SavesSerialised
        <4> QED
          BY <4>1, <4>2, <3>1, <1>4
      <3>2. CASE n # Len(p_trail')
        <4>1. n \in 1..Len(p_trail) /\ n - 1 \in 1..Len(p_trail)
          BY <2>3, <3>2, <1>4
        <4> QED
          BY <4>1, <2>3, <1>4 DEF RoleInv, Permissions!SavesSerialised
      <3> QED
        BY <3>1, <3>2
    <2>4. ASSUME NEW n \in DOMAIN p_trail', p_trail'[n].seen = p_trail'[n].version
          PROVE  p_trail'[n].seen = n - 1
      <3>1. CASE n = Len(p_trail) + 1
        BY <2>4, <3>1, <1>3, <1>4
      <3>2. CASE n # Len(p_trail) + 1
        BY <2>4, <3>2, <1>4 DEF RoleInv, Permissions!SavesSerialised
      <3> QED
        BY <3>1, <3>2
    <2> QED
      BY <2>1, <2>2, <2>3, <2>4 DEF Permissions!SavesSerialised, Ordered
  <1> QED
    BY <1>6, <1>7, <1>8 DEF RoleInv

\* Every step of the permissions preserves the invariant.
LEMMA NextRoles == RoleInv /\ [Permissions!Next]_rolesVars => RoleInv'
  <1> SUFFICES ASSUME RoleInv, [Permissions!Next]_rolesVars PROVE RoleInv'
    OBVIOUS
  <1>1. Layers' = Layers /\ Change' = Change
    BY DEF Layers, Permissions!Layers, Change
  <1>2. CASE UNCHANGED rolesVars
    <2>1. RoleShape'
      BY <1>1, <1>2 DEF RoleInv, RoleShape, Saved, Desk, rolesVars
    <2> QED
      BY <2>1, <1>2, RolesRest DEF rolesVars
  <1>3. ASSUME NEW e \in Editors, Permissions!ReadLayers(e) \/ Permissions!ReadVersion(e) PROVE RoleInv'
    <2>1. Len(p_trail) \in Nat
      BY LenProperties DEF RoleInv, RoleShape
    <2>2. Permissions!NoMatrix \in [at : {"out"}, seen : Nat, version : Nat, want : {<<>>}]
      BY DEF Permissions!NoMatrix
    <2>3. PICK opens \in Desk : /\ p_editor' = [p_editor EXCEPT ![e] = opens] /\ opens.at # "saving"
                                /\ UNCHANGED <<p_stored, p_trail>>
      <3>1. CASE Permissions!ReadLayers(e)
        <4> DEFINE opens == [Permissions!NoMatrix EXCEPT !.at = "reading", !.seen = Len(p_trail)]
        <4>1. opens \in Desk /\ opens.at # "saving"
          BY <2>1, <2>2 DEF Desk
        <4> QED
          BY <4>1, <3>1 DEF Permissions!ReadLayers
      <3>2. CASE Permissions!ReadVersion(e)
        <4> DEFINE opens == [p_editor[e] EXCEPT !.at = "open", !.version = Len(p_trail)]
        <4>1. opens \in Desk /\ opens.at # "saving"
          BY <2>1 DEF Desk, RoleInv, RoleShape
        <4> QED
          BY <4>1, <3>2 DEF Permissions!ReadVersion, RoleInv, RoleShape
      <3> QED
        BY <1>3, <3>1, <3>2
    <2>4. RoleShape'
      BY <2>1, <2>3, <1>1 DEF RoleInv, RoleShape, Saved, Desk
    <2>5. \A o \in Editors : p_editor'[o].at = "saving" => p_editor'[o] = p_editor[o]
      BY <2>3 DEF RoleInv, RoleShape
    <2> QED
      BY <2>3, <2>4, <2>5, RolesRest
  <1>4. ASSUME NEW e \in Editors, Permissions!RollBack(e) PROVE RoleInv'
    <2>1. p_editor' = [p_editor EXCEPT ![e] = Permissions!NoMatrix]
            /\ UNCHANGED <<p_stored, p_trail>>
      BY <1>4 DEF Permissions!RollBack
    <2>2. Permissions!NoMatrix = [at |-> "out", seen |-> 0, version |-> 0, want |-> <<>>]
      BY DEF Permissions!NoMatrix
    <2>3. RoleShape'
      BY <2>1, <2>2, <1>1 DEF RoleInv, RoleShape, Saved, Desk
    <2>4. \A o \in Editors : p_editor'[o].at = "saving" => p_editor'[o] = p_editor[o]
      BY <2>1, <2>2 DEF RoleInv, RoleShape
    <2> QED
      BY <2>1, <2>3, <2>4, RolesRest
  <1>5. ASSUME NEW e \in Editors, NEW R \in SUBSET Permissions!Roles,
               NEW changes \in [R -> SUBSET Perms], Permissions!Judge(e, changes)
        PROVE  RoleInv'
    BY <1>5, JudgeRoles DEF Change
  <1>6. ASSUME NEW i \in Instances, NEW l,
               Permissions!Refresh(i) \/ Permissions!Load(i, l) \/ Permissions!LoadFails(i, l)
        PROVE  RoleInv'
    <2>1. UNCHANGED <<p_stored, p_trail, p_editor>>
      BY <1>6 DEF Permissions!Refresh, Permissions!Load, Permissions!LoadFails
    <2>2. RoleShape'
      BY <2>1, <1>1 DEF RoleInv, RoleShape, Saved, Desk
    <2> QED
      BY <2>1, <2>2, RolesRest
  <1> QED
    BY <1>2, <1>3, <1>4, <1>5, <1>6, WriteRoles DEF Permissions!Next

\* Whatever editors save on whatever instances, no moderator holds what no admin
\* does, and each recorded save starts where the one before it ended, which is
\* what its editor saw unless the matrix was read on either side of another save
\* (internal/permission, ApplyRoles).
THEOREM SavesAreSerial == SpecOfOne => []SavesSerialised
  <1>1. InitOfOne => RoleInv
    BY InitRoles DEF InitOfOne
  <1>2. RoleInv /\ [NextOfOne]_allVars => RoleInv'
    <2> SUFFICES ASSUME RoleInv, [NextOfOne]_allVars PROVE RoleInv'
      OBVIOUS
    <2>1. [Permissions!Next]_rolesVars
      BY DEF NextOfOne, allVars, MergeOnly, TrustOnly, InboxOnly, UploadOnly, ShelfOnly, RolesOnly,
         LinksOnly, stores
    <2> QED
      BY <2>1, NextRoles
  <1>3. RoleInv => SavesSerialised
    BY DEF RoleInv, SavesSerialised
  <1> QED
    BY <1>1, <1>2, <1>3, PTL DEF SpecOfOne

-----------------------------------------------------------------------------
(* The cached shelf and the counter of favourites. *)

Steps == {"idle", "toggle", "set", "folders", "create", "move", "settle", "forget"}
Asked == [at : Steps, held : SUBSET Folders, want : SUBSET Folders, was : BOOLEAN,
          seen : SUBSET Folders]
Views == {"idle", "peek", "fetch", "fill", "shown", "walk"}
Kept == Nat \cup {Shelf!Absent}

ShelfShape ==
  /\ f_folders \in [made : SUBSET Folders, default : Folders \cup {Shelf!None}]
  /\ f_holds \in SUBSET Folders /\ f_count \in Nat
  /\ \A k \in DOMAIN f_keys : f_keys[k] \in Folders
  /\ f_req \in [Requests -> Asked]
  /\ \A c \in Requests : f_req[c].at = "idle" => f_req[c] = Shelf!NoReq

CacheShape ==
  /\ f_writes \in Nat /\ f_floor \in 0..f_writes
  /\ f_gen \in 0..f_gens
  /\ f_slot \in [Shelf!Gens -> Kept] /\ f_flight \in [Shelf!Gens -> Kept]
  /\ f_read \in [Reads -> [at : Views, gen : Nat, shows : Nat, needs : Nat]]

\* A generation is given out for a request that has ended, so they suffice.
Active == {c \in Requests : f_req[c].at # "idle"}
GensCounted ==
  f_gens \in Nat /\ f_made \in 0..MaxReq /\ f_gens + Cardinality(Active) <= f_made

\* What may come into the slot of generation g, or out of it, shows n writes.
SlotShows(g, n) ==
  /\ f_slot[g] # Shelf!Absent => f_slot[g] >= n
  /\ f_flight[g] # Shelf!Absent => f_flight[g] >= n
  /\ \A o \in Reads : f_read[o].at \in {"fill", "walk"} /\ f_read[o].gen = g => f_read[o].shows >= n

\* Each view gets from its slot what it needs, and so will the next one.
Served(r) ==
  /\ f_read[r].gen <= f_gens /\ f_read[r].needs <= f_floor
  /\ SlotShows(f_read[r].gen, f_read[r].needs)
  /\ f_read[r].at = "shown" => f_read[r].shows >= f_read[r].needs
SlotsServe ==
  /\ \A r \in Reads : f_read[r].at # "idle" => Served(r)
  /\ SlotShows(f_gen, f_floor)

\* A flight is someone's, and no generation to come has a shelf yet.
FlightsAreFills ==
  \A g \in Shelf!Gens :
    /\ f_flight[g] # Shelf!Absent => \E r \in Reads : f_read[r].at = "fill" /\ f_read[r].gen = g
    /\ g > f_gens => f_slot[g] = Shelf!Absent

\* What the counter is while one request at a time is on its way and none dies.
Hearted(holds) == IF holds = {} THEN 0 ELSE 1
Follows(r, holds, count) ==
  /\ r.at \in {"toggle", "set", "folders", "create", "forget"} => count = Hearted(holds)
  /\ r.at \in {"folders", "create"} => holds = {} /\ r.held = {} /\ ~r.was
  /\ r.at \in {"move", "settle"} => count = (IF r.was THEN 1 ELSE 0) /\ r.held = holds
CounterFollows ==
  f_alone =>
    /\ \A c, o \in Active : c = o
    /\ Active = {} => f_count = Hearted(f_holds)
    /\ \A c \in Active : Follows(f_req[c], f_holds, f_count)

CacheInv == CacheShape /\ SlotsServe /\ FlightsAreFills
ShelfInv == ShelfShape /\ GensCounted /\ CounterFollows /\ CacheInv

-----------------------------------------------------------------------------
\* A request more, a request less.
LEMMA CountOne ==
  ASSUME NEW S \in SUBSET Requests, NEW c \in Requests
  PROVE  /\ Cardinality(S) \in Nat
         /\ c \notin S => Cardinality(S \cup {c}) = Cardinality(S) + 1
         /\ c \in S => Cardinality(S \ {c}) = Cardinality(S) - 1
  <1>1. IsFiniteSet(S)
    BY ShelfAssumption, FS_Subset
  <1> QED
    BY <1>1, FS_CardinalityType, FS_AddElement, FS_RemoveElement

\* A request that takes a step of its own.
LEMMA RequestMoves ==
  ASSUME ShelfShape, GensCounted, CounterFollows, NEW c \in Active, NEW n \in Asked,
         n.at # "idle", f_req' = [f_req EXCEPT ![c] = n],
         UNCHANGED <<f_made, f_gens, f_alone>>,
         f_folders' \in [made : SUBSET Folders, default : Folders \cup {Shelf!None}],
         f_holds' \in SUBSET Folders, f_count' \in Nat,
         \A k \in DOMAIN f_keys' : f_keys'[k] \in Folders,
         f_alone /\ Follows(f_req[c], f_holds, f_count) => Follows(n, f_holds', f_count')
  PROVE  ShelfShape' /\ GensCounted' /\ CounterFollows'
  <1>1. c \in Requests /\ f_req'[c] = n /\ \A o \in Requests \ {c} : f_req'[o] = f_req[o]
    BY DEF Active, ShelfShape
  <1>2. Active' = Active
    BY <1>1 DEF Active
  <1>3. ShelfShape'
    <2>1. Shelf!NoReq' = Shelf!NoReq /\ Shelf!None' = Shelf!None /\ Asked' = Asked
      BY DEF Shelf!NoReq, Shelf!None, Asked, Steps
    <2> QED
      BY <2>1, <1>1 DEF ShelfShape
  <1>4. GensCounted'
    BY <1>2 DEF GensCounted
  <1>5. CounterFollows'
    <2> SUFFICES ASSUME f_alone
                 PROVE  (\A x, o \in Active : x = o) /\ Follows(n, f_holds', f_count')
      BY <1>1, <1>2 DEF CounterFollows
    <2> QED
      BY DEF CounterFollows
  <1> QED
    BY <1>3, <1>4, <1>5

\* What requests do leaves what the cache promises: writes only grow.
LEMMA CacheRests ==
  ASSUME CacheInv, f_writes' \in Nat, f_writes' >= f_writes,
         UNCHANGED <<f_gens, f_gen, f_slot, f_flight, f_read, f_floor>>
  PROVE  CacheInv'
  <1>1. CacheShape'
    BY DEF CacheInv, CacheShape, Shelf!Gens, Kept, Shelf!Absent, Views
  <1>2. SlotsServe'
    BY DEF CacheInv, SlotsServe, Served, SlotShows, Shelf!Absent
  <1>3. FlightsAreFills'
    BY DEF CacheInv, FlightsAreFills, Shelf!Absent, Shelf!Gens
  <1> QED
    BY <1>1, <1>2, <1>3 DEF CacheInv

LEMMA InitShelf == Shelf!Init => ShelfInv
  <1> SUFFICES ASSUME Shelf!Init PROVE ShelfInv
    OBVIOUS
  <1>1. Shelf!NoReq \in Asked /\ Shelf!NoReq.at = "idle"
    BY DEF Shelf!NoReq, Asked, Steps
  <1>2. Active = {}
    BY <1>1 DEF Shelf!Init, Active
  <1>3. ShelfShape
    BY <1>1 DEF Shelf!Init, ShelfShape
  <1>4. GensCounted
    BY <1>2, FS_EmptySet, ShelfAssumption DEF Shelf!Init, GensCounted
  <1>5. CounterFollows
    BY <1>2 DEF Shelf!Init, CounterFollows, Hearted
  <1>6. CacheInv
    <2>1. /\ Shelf!NoRead \in [at : Views, gen : Nat, shows : Nat, needs : Nat]
          /\ Shelf!NoRead.at = "idle"
      BY DEF Shelf!NoRead, Views
    <2>2. 0 \in Shelf!Gens
      BY ShelfAssumption DEF Shelf!Gens
    <2>3. CacheShape
      BY <2>1 DEF Shelf!Init, CacheShape, Kept
    <2> QED
      BY <2>1, <2>2, <2>3 DEF Shelf!Init, CacheInv, SlotsServe, SlotShows, FlightsAreFills
  <1> QED
    BY <1>3, <1>4, <1>5, <1>6 DEF ShelfInv

-----------------------------------------------------------------------------
\* A request that begins: alone only if no other is on its way.
LEMMA EnterShelf ==
  ASSUME ShelfInv, NEW c \in Requests, NEW step \in {"toggle", "set"}, NEW want \in SUBSET Folders,
         Shelf!Enter(c, step, want)
  PROVE  ShelfInv'
  <1>1. /\ f_req[c] = Shelf!NoReq /\ f_made < MaxReq /\ f_made' = f_made + 1
        /\ f_req' = [f_req EXCEPT ![c] = [Shelf!NoReq EXCEPT !.at = step, !.want = want]]
        /\ f_alone' = (f_alone /\ \A o \in Requests : f_req[o] = Shelf!NoReq)
        /\ UNCHANGED <<f_folders, f_keys, f_holds, f_writes, f_count>>
        /\ UNCHANGED <<f_gens, f_gen, f_slot, f_flight, f_read, f_floor>>
    BY DEF Shelf!Enter, Shelf!catalog, Shelf!cache
  <1>2. Shelf!NoReq \in Asked /\ Shelf!NoReq.at = "idle"
    BY DEF Shelf!NoReq, Asked, Steps
  <1>3. PICK n \in Asked : n.at = step /\ f_req' = [f_req EXCEPT ![c] = n]
    <2> DEFINE n == [Shelf!NoReq EXCEPT !.at = step, !.want = want]
    <2>1. n \in Asked /\ n.at = step
      BY <1>2 DEF Asked, Steps
    <2> QED
      BY <2>1, <1>1
  <1>4. f_req'[c] = n /\ \A o \in Requests \ {c} : f_req'[o] = f_req[o]
    BY <1>3 DEF ShelfInv, ShelfShape
  <1>5. Active' = Active \cup {c} /\ c \notin Active
    BY <1>1, <1>2, <1>3, <1>4 DEF Active
  <1>6. ShelfShape'
    <2>1. Shelf!NoReq' = Shelf!NoReq /\ Shelf!None' = Shelf!None /\ Asked' = Asked
      BY DEF Shelf!NoReq, Shelf!None, Asked, Steps
    <2> QED
      BY <2>1, <1>1, <1>3, <1>4 DEF ShelfInv, ShelfShape
  <1>7. GensCounted'
    <2>1. Cardinality(Active \cup {c}) = Cardinality(Active) + 1 /\ Cardinality(Active) \in Nat
      BY <1>5, CountOne DEF Active
    <2> QED
      BY <2>1, <1>1, <1>5, ShelfAssumption DEF ShelfInv, GensCounted
  <1>8. CounterFollows'
    <2> SUFFICES ASSUME f_alone, \A o \in Requests : f_req[o] = Shelf!NoReq
                 PROVE  /\ \A x, o \in Active' : x = o
                        /\ Active' # {}
                        /\ \A x \in Active' : Follows(f_req'[x], f_holds, f_count)
      BY <1>1 DEF CounterFollows
    <2>1. Active = {}
      BY <1>2 DEF Active
    <2>2. f_count = Hearted(f_holds)
      BY <2>1 DEF ShelfInv, CounterFollows
    <2> QED
      BY <2>1, <2>2, <1>3, <1>4, <1>5 DEF Follows
  <1>9. CacheInv'
    BY <1>1, CacheRests DEF ShelfInv, CacheInv, CacheShape
  <1> QED
    BY <1>6, <1>7, <1>8, <1>9 DEF ShelfInv

\* A set of numbers has a least one.
LEMMA LeastNumber ==
  ASSUME NEW S, S \subseteq Nat, S # {}
  PROVE  \E m \in S : \A n \in S : m <= n
  <1>1. PICK m \in S : \A n \in S : ~(<<n, m>> \in OpToRel(<, Nat))
    BY NatLessThanWellFounded, WFMin
  <1>2. ASSUME NEW n \in S PROVE m <= n
    <2>1. n \in Nat /\ m \in Nat
      OBVIOUS
    <2>2. n < m => <<n, m>> \in OpToRel(<, Nat)
      BY <2>1 DEF OpToRel
    <2>3. ~(n < m)
      BY <1>1, <2>2
    <2> QED
      BY <2>1, <2>3
  <1> QED
    BY <1>2

\* The folder a create makes is one of the reader's to come.
LEMMA NewFolderIsFolder ==
  ASSUME ShelfShape, f_folders.made # Folders
  PROVE  Shelf!NewFolder \in Folders
  <1> DEFINE S == Folders \ f_folders.made
  <1>1. S # {} /\ S \subseteq Nat
    BY ShelfAssumption DEF ShelfShape
  <1>2. \E f \in S : \A g \in S : f <= g
    BY <1>1, LeastNumber
  <1> QED
    BY <1>2 DEF Shelf!NewFolder

\* A request asks where the game is and which folder is the default.
LEMMA AskShelf ==
  ASSUME ShelfInv, NEW c \in Requests,
         Shelf!ReadHolding(c) \/ Shelf!FindDefault(c) \/ Shelf!CreateDefault(c)
  PROVE  ShelfInv'
  <1> DEFINE r == f_req[c]
  <1>1. c \in Active /\ r \in Asked
    BY DEF ShelfInv, ShelfShape, Active, Shelf!ReadHolding, Shelf!FindDefault, Shelf!CreateDefault
  <1>2. /\ UNCHANGED <<f_count, f_made, f_floor, f_alone, f_holds, f_writes>>
        /\ UNCHANGED <<f_gens, f_gen, f_slot, f_flight, f_read>>
    BY DEF Shelf!ReadHolding, Shelf!FindDefault, Shelf!CreateDefault, Shelf!Go, Shelf!catalog,
       Shelf!cache
  <1>3. CacheInv'
    BY <1>2, CacheRests DEF ShelfInv, CacheInv, CacheShape
  <1>4. CASE Shelf!ReadHolding(c)
    <2> DEFINE n == [r EXCEPT !.held = f_holds, !.was = (f_holds # {}),
                       !.at = IF r.at = "toggle" /\ f_holds = {} THEN "folders" ELSE "move"]
    <2>1. /\ f_req' = [f_req EXCEPT ![c] = n] /\ UNCHANGED <<f_folders, f_keys>>
          /\ r.at \in {"toggle", "set"}
      BY <1>4 DEF Shelf!ReadHolding, Shelf!Go, Shelf!catalog
    <2>2. n \in Asked
      BY <1>1 DEF Asked, Steps, ShelfInv, ShelfShape
    <2>3. n.held = f_holds /\ n.at \in {"folders", "move"}
          /\ (n.at = "folders" => f_holds = {})
      BY <1>1 DEF Asked
    <2>4. n.was = (f_holds # {})
      BY <1>1 DEF Asked
    <2>5. Follows(r, f_holds, f_count) => Follows(n, f_holds, f_count)
      BY <2>1, <2>3, <2>4 DEF Follows, Hearted
    <2> QED
      BY <2>1, <2>2, <2>3, <2>5, <1>1, <1>2, <1>3, RequestMoves DEF ShelfInv, ShelfShape
  <1>5. CASE Shelf!FindDefault(c)
    <2>1. PICK n : /\ f_req' = [f_req EXCEPT ![c] = n] /\ UNCHANGED <<f_folders, f_keys>>
                   /\ r.at = "folders"
                   /\ n = IF f_folders.default # Shelf!None
                          THEN [r EXCEPT !.at = "move", !.want = {f_folders.default}]
                          ELSE [r EXCEPT !.at = "create", !.seen = f_folders.made]
      BY <1>5 DEF Shelf!FindDefault, Shelf!Go, Shelf!catalog
    <2>2. /\ f_folders.made \in SUBSET Folders
          /\ f_folders.default # Shelf!None => f_folders.default \in Folders
      BY DEF ShelfInv, ShelfShape
    <2>3. n \in Asked /\ n.at \in {"move", "create"} /\ n.held = r.held
      BY <2>1, <2>2, <1>1 DEF Asked, Steps
    <2>4. n.was = r.was
      BY <2>1, <1>1 DEF Asked
    <2>5. Follows(r, f_holds, f_count) => Follows(n, f_holds, f_count)
      BY <2>1, <2>3, <2>4 DEF Follows, Hearted
    <2> QED
      BY <2>1, <2>3, <2>5, <1>1, <1>2, <1>3, RequestMoves DEF ShelfInv, ShelfShape
  <1>6. CASE Shelf!CreateDefault(c)
    <2>1. PICK f \in Folders :
            /\ f_req' = [f_req EXCEPT ![c] = [r EXCEPT !.at = "move", !.want = {f}]]
            /\ \/ UNCHANGED <<f_folders, f_keys>>
               \/ /\ f_folders' = [made |-> f_folders.made \cup {f}, default |-> f]
                  /\ f_keys' = [k \in DOMAIN f_keys \cup {r.seen} |->
                                  IF k = r.seen THEN f ELSE f_keys[k]]
            /\ r.at = "create"
      <3>1. CASE r.seen \in DOMAIN f_keys
        BY <3>1, <1>6 DEF Shelf!CreateDefault, Shelf!Go, ShelfInv, ShelfShape
      <3>2. CASE r.seen \notin DOMAIN f_keys
        BY <3>2, <1>6, NewFolderIsFolder DEF Shelf!CreateDefault, Shelf!Go, ShelfInv
      <3> QED
        BY <3>1, <3>2
    <2> DEFINE n == [r EXCEPT !.at = "move", !.want = {f}]
    <2>2. n \in Asked /\ n.at = "move" /\ n.held = r.held
      BY <1>1 DEF Asked, Steps
    <2>3. n.was = r.was
      BY <1>1 DEF Asked
    <2>4. Follows(r, f_holds, f_count) => Follows(n, f_holds, f_count)
      BY <2>1, <2>2, <2>3 DEF Follows, Hearted
    <2>5. /\ f_folders' \in [made : SUBSET Folders, default : Folders \cup {Shelf!None}]
          /\ \A k \in DOMAIN f_keys' : f_keys'[k] \in Folders
      BY <2>1 DEF ShelfInv, ShelfShape
    <2> QED
      BY <2>1, <2>2, <2>4, <2>5, <1>1, <1>2, <1>3, RequestMoves DEF ShelfInv, ShelfShape
  <1> QED
    BY <1>4, <1>5, <1>6

\* Folder by folder, a request knows what holds the game by then.
LEMMA MoveShelf ==
  ASSUME ShelfInv, NEW c \in Requests, NEW f \in Folders,
         Shelf!PutItem(c, f) \/ Shelf!DeleteItem(c, f)
  PROVE  ShelfInv'
  <1> DEFINE r == f_req[c]
  <1>1. c \in Active /\ r \in Asked
    BY DEF ShelfInv, ShelfShape, Active, Shelf!PutItem, Shelf!DeleteItem
  <1>2. /\ UNCHANGED <<f_count, f_made, f_floor, f_alone, f_folders, f_keys>>
        /\ UNCHANGED <<f_gens, f_gen, f_slot, f_flight, f_read>> /\ f_writes' = f_writes + 1
    BY DEF Shelf!PutItem, Shelf!DeleteItem, Shelf!Go, Shelf!cache
  <1>3. CacheInv'
    BY <1>2, CacheRests DEF ShelfInv, CacheInv, CacheShape
  <1>4. PICK held \in SUBSET Folders :
          /\ f_req' = [f_req EXCEPT ![c] = [r EXCEPT !.held = held]] /\ r.at = "move"
          /\ f_holds' \in SUBSET Folders
          /\ r.held = f_holds => held = f_holds'
    <2>1. r.held \in SUBSET Folders /\ f_holds \in SUBSET Folders
      BY <1>1 DEF Asked, ShelfInv, ShelfShape
    <2>2. CASE Shelf!PutItem(c, f)
      <3>1. f_holds' = f_holds \cup {f} /\ r.at = "move"
            /\ f_req' = [f_req EXCEPT ![c] = [r EXCEPT !.held = r.held \cup {f}]]
        BY <2>2 DEF Shelf!PutItem, Shelf!Go
      <3> QED
        BY <2>1, <3>1
    <2>3. CASE Shelf!DeleteItem(c, f)
      <3>1. f_holds' = f_holds \ {f} /\ r.at = "move"
            /\ f_req' = [f_req EXCEPT ![c] = [r EXCEPT !.held = r.held \ {f}]]
        BY <2>3 DEF Shelf!DeleteItem, Shelf!Go
      <3> QED
        BY <2>1, <3>1
    <2> QED
      BY <2>2, <2>3
  <1> DEFINE n == [r EXCEPT !.held = held]
  <1>5. n \in Asked /\ n.at = "move" /\ n.held = held
    BY <1>1, <1>4 DEF Asked
  <1>6. n.was = r.was
    BY <1>1 DEF Asked
  <1>7. Follows(r, f_holds, f_count) => Follows(n, f_holds', f_count)
    BY <1>4, <1>5, <1>6 DEF Follows
  <1> QED
    BY <1>1, <1>2, <1>3, <1>4, <1>5, <1>7, RequestMoves DEF ShelfInv, ShelfShape

\* What went through is settled, after a refusal too.
LEMMA EndMoves ==
  ASSUME ShelfInv, NEW c \in Requests, Shelf!Refuse(c) \/ Shelf!Moved(c) \/ Shelf!Settle(c)
  PROVE  ShelfInv'
  <1> DEFINE r == f_req[c]
  <1>1. c \in Active /\ r \in Asked
    BY DEF ShelfInv, ShelfShape, Active, Shelf!Refuse, Shelf!Moved, Shelf!Settle
  <1>2. /\ UNCHANGED <<f_made, f_floor, f_alone, f_folders, f_keys, f_holds, f_writes>>
        /\ UNCHANGED <<f_gens, f_gen, f_slot, f_flight, f_read>>
    BY DEF Shelf!Refuse, Shelf!Moved, Shelf!Settle, Shelf!Go, Shelf!catalog, Shelf!cache
  <1>3. CacheInv'
    BY <1>2, CacheRests DEF ShelfInv, CacheInv, CacheShape
  <1>4. PICK to \in {"settle", "forget"} : f_req' = [f_req EXCEPT ![c] = [r EXCEPT !.at = to]]
    <2>1. CASE Shelf!Refuse(c)
      BY <2>1 DEF Shelf!Refuse, Shelf!Go
    <2>2. CASE Shelf!Moved(c)
      BY <2>2 DEF Shelf!Moved, Shelf!Go
    <2>3. CASE Shelf!Settle(c)
      BY <2>3 DEF Shelf!Settle
    <2> QED
      BY <2>1, <2>2, <2>3
  <1> DEFINE n == [r EXCEPT !.at = to]
  <1>5. n \in Asked /\ n.at = to /\ n.held = r.held
    BY <1>1 DEF Asked, Steps
  <1>6. n.was = r.was
    BY <1>1 DEF Asked
  <1>7. f_req'[c] = n
    BY <1>4 DEF ShelfInv, ShelfShape
  <1>8. f_count' \in Nat /\ (Follows(r, f_holds, f_count) => Follows(n, f_holds, f_count'))
    <2>1. f_count \in Nat /\ r.at \in Steps /\ r.was \in BOOLEAN
      BY <1>1 DEF ShelfInv, ShelfShape, Asked
    <2>2. CASE Shelf!Refuse(c)
      <3>1. /\ f_count' = f_count /\ r.at \notin {"idle", "settle", "forget"}
            /\ n.at = IF r.at = "move" THEN "settle" ELSE "forget"
        <4>1. f_req' = [f_req EXCEPT ![c] =
                          [r EXCEPT !.at = IF r.at = "move" THEN "settle" ELSE "forget"]]
          BY <2>2 DEF Shelf!Refuse, Shelf!Go
        <4>2. f_req'[c] = [r EXCEPT !.at = IF r.at = "move" THEN "settle" ELSE "forget"]
          BY <4>1 DEF ShelfInv, ShelfShape
        <4> QED
          BY <4>2, <2>2, <1>1, <1>7 DEF Asked, Shelf!Refuse, Shelf!Go
      <3> QED
        BY <3>1, <2>1, <1>5, <1>6 DEF Follows, Steps
    <2>3. CASE Shelf!Moved(c)
      <3>1. f_count' = f_count /\ r.at = "move" /\ n.at = "settle"
        <4>1. f_req'[c] = [r EXCEPT !.at = "settle"]
          BY <2>3 DEF ShelfInv, ShelfShape, Shelf!Moved, Shelf!Go
        <4> QED
          BY <4>1, <2>3, <1>1, <1>7 DEF Asked, Shelf!Moved, Shelf!Go
      <3> QED
        BY <3>1, <2>1, <1>5, <1>6 DEF Follows
    <2>4. CASE Shelf!Settle(c)
      <3>1. r.at = "settle" /\ n.at = "forget"
        <4>1. f_req'[c] = [r EXCEPT !.at = "forget"]
          BY <2>4 DEF ShelfInv, ShelfShape, Shelf!Settle
        <4> QED
          BY <4>1, <2>4, <1>1, <1>7 DEF Asked, Shelf!Settle
      <3>2. /\ Shelf!Delta(r) = IF ~r.was /\ r.held # {} THEN 1
                                ELSE IF r.was /\ r.held = {} THEN -1 ELSE 0
            /\ f_count' = IF f_count + Shelf!Delta(r) < 0 THEN 0 ELSE f_count + Shelf!Delta(r)
        BY <2>1, <2>4 DEF Shelf!Settle, Shelf!Delta
      <3>3. f_count' \in Nat
        BY <3>2, <2>1
      <3>4. Follows(r, f_holds, f_count) => f_count' = Hearted(f_holds)
        BY <3>1, <3>2, <2>1 DEF Follows, Hearted
      <3> QED
        BY <3>1, <3>3, <3>4 DEF Follows
    <2> QED
      BY <2>2, <2>3, <2>4
  <1> QED
    BY <1>1, <1>2, <1>3, <1>4, <1>5, <1>8, RequestMoves DEF ShelfInv, ShelfShape

\* A request that has ended, by its last step or on the way.
LEMMA EndShelf ==
  ASSUME ShelfInv, NEW c \in Active, f_req' = [f_req EXCEPT ![c] = Shelf!NoReq],
         UNCHANGED <<f_folders, f_keys, f_holds, f_count, f_made>>,
         f_gens' \in {f_gens, f_gens + 1},
         f_alone' => f_alone /\ f_req[c].at = "forget"
  PROVE  ShelfShape' /\ GensCounted' /\ CounterFollows'
  <1>1. Shelf!NoReq \in Asked /\ Shelf!NoReq.at = "idle"
    BY DEF Shelf!NoReq, Asked, Steps
  <1>2. c \in Requests /\ f_req'[c] = Shelf!NoReq /\ \A o \in Requests \ {c} : f_req'[o] = f_req[o]
    BY DEF Active, ShelfInv, ShelfShape
  <1>3. Active' = Active \ {c}
    BY <1>1, <1>2 DEF Active
  <1>4. ShelfShape'
    <2>1. Shelf!NoReq' = Shelf!NoReq /\ Shelf!None' = Shelf!None /\ Asked' = Asked
      BY DEF Shelf!NoReq, Shelf!None, Asked, Steps
    <2> QED
      BY <2>1, <1>1, <1>2 DEF ShelfInv, ShelfShape
  <1>5. GensCounted'
    <2>1. Cardinality(Active \ {c}) = Cardinality(Active) - 1 /\ Cardinality(Active) \in Nat
      BY <1>2, CountOne DEF Active
    <2> QED
      BY <2>1, <1>3, ShelfAssumption DEF ShelfInv, GensCounted
  <1>6. CounterFollows'
    <2> SUFFICES ASSUME f_alone, f_req[c].at = "forget"
                 PROVE  Active' = {} /\ f_count = Hearted(f_holds)
      BY DEF CounterFollows
    <2>1. \A x, o \in Active : x = o
      BY DEF ShelfInv, CounterFollows
    <2>2. Follows(f_req[c], f_holds, f_count)
      BY DEF ShelfInv, CounterFollows
    <2> QED
      BY <2>1, <2>2, <1>3 DEF Follows
  <1> QED
    BY <1>4, <1>5, <1>6

\* The shelf is forgotten: the generation that comes has none yet, and those who
\* open it need what is written by now.
LEMMA ForgetShelf ==
  ASSUME ShelfInv, NEW c \in Requests, NEW lost \in BOOLEAN, Shelf!Forget(c, lost)
  PROVE  ShelfInv'
  <1>1. /\ c \in Active /\ f_req[c].at = "forget" /\ f_req' = [f_req EXCEPT ![c] = Shelf!NoReq]
        /\ UNCHANGED <<f_folders, f_keys, f_holds, f_writes, f_count, f_made, f_alone>>
        /\ UNCHANGED <<f_slot, f_flight, f_read>>
        /\ \/ UNCHANGED <<f_gens, f_gen, f_floor>>
           \/ f_gens' = f_gens + 1 /\ f_gen' = f_gens + 1 /\ f_floor' = f_writes
    BY DEF Active, Shelf!Forget, Shelf!catalog
  <1>2. ShelfShape' /\ GensCounted' /\ CounterFollows'
    BY <1>1, EndShelf
  <1>3. CASE UNCHANGED <<f_gens, f_gen, f_floor>>
    <2>1. CacheInv'
      BY <1>1, <1>3, CacheRests DEF ShelfInv, CacheInv, CacheShape
    <2> QED
      BY <2>1, <1>2 DEF ShelfInv
  <1>4. CASE f_gens' = f_gens + 1 /\ f_gen' = f_gens + 1 /\ f_floor' = f_writes
    <2>1. /\ f_gens \in Nat /\ f_gens + 1 \in Shelf!Gens
          /\ f_writes \in Nat /\ f_floor \in Nat /\ f_floor <= f_writes
      <3>1. f_gens' <= MaxReq
        <4>1. Cardinality(Active') \in Nat
          BY CountOne DEF Active
        <4> QED
          BY <4>1, <1>2, ShelfAssumption DEF GensCounted
      <3> QED
        BY <3>1, <1>4, ShelfAssumption DEF ShelfInv, CacheInv, CacheShape, GensCounted, Shelf!Gens
    <2>2. CacheShape'
      BY <2>1, <1>1, <1>4 DEF ShelfInv, CacheInv, CacheShape, Shelf!Gens, Kept, Shelf!Absent, Views
    <2>3. \A r \in Reads : /\ f_read[r].gen \in Nat /\ f_read[r].needs \in Nat
                           /\ f_read[r].at # "idle" => f_read[r].gen <= f_gens
      BY DEF ShelfInv, CacheInv, CacheShape, SlotsServe, Served
    <2>4. SlotsServe'
      <3>1. ASSUME NEW r \in Reads, f_read[r].at # "idle" PROVE Served(r)'
        <4>1. Served(r)
          BY <3>1 DEF ShelfInv, CacheInv, SlotsServe
        <4> QED
          BY <4>1, <2>1, <2>3, <1>1, <1>4 DEF Served, SlotShows, Shelf!Absent
      <3>2. f_slot[f_gens + 1] = Shelf!Absent /\ f_flight[f_gens + 1] = Shelf!Absent
        <4>1. f_gens + 1 > f_gens /\ \A r \in Reads : f_read[r].at = "fill" => f_read[r].gen # f_gens + 1
          BY <2>1, <2>3
        <4> QED
          BY <4>1, <2>1 DEF ShelfInv, CacheInv, FlightsAreFills
      <3>3. SlotShows(f_gen, f_floor)'
        BY <3>2, <2>1, <2>3, <1>1, <1>4 DEF SlotShows, Shelf!Absent
      <3> QED
        BY <3>1, <3>3, <1>1 DEF SlotsServe
    <2>5. FlightsAreFills'
      <3>1. \A g \in Shelf!Gens : g \in Nat /\ (g > f_gens + 1 => g > f_gens)
        BY <2>1 DEF Shelf!Gens
      <3> QED
        BY <3>1, <1>1, <1>4 DEF ShelfInv, CacheInv, FlightsAreFills, Shelf!Absent, Shelf!Gens
    <2> QED
      BY <2>2, <2>4, <2>5, <1>2 DEF ShelfInv, CacheInv
  <1> QED
    BY <1>1, <1>3, <1>4

LEMMA DieShelf ==
  ASSUME ShelfInv, NEW c \in Requests, Shelf!Die(c)
  PROVE  ShelfInv'
  <1>1. /\ f_req' = [f_req EXCEPT ![c] = Shelf!NoReq] /\ f_alone' = FALSE
        /\ UNCHANGED <<f_folders, f_keys, f_holds, f_writes, f_count, f_made>>
        /\ UNCHANGED <<f_gens, f_gen, f_slot, f_flight, f_read, f_floor>>
    BY DEF Shelf!Die, Shelf!catalog, Shelf!cache
  <1>2. c \in Active
    BY DEF Shelf!Die, Active, ShelfInv, ShelfShape
  <1>3. CacheInv'
    BY <1>1, CacheRests DEF ShelfInv, CacheInv, CacheShape
  <1> QED
    BY <1>1, <1>2, <1>3, EndShelf DEF ShelfInv

-----------------------------------------------------------------------------
\* What views do leaves the requests and the counter alone.
LEMMA RequestsRest ==
  ASSUME ShelfInv, UNCHANGED <<f_folders, f_keys, f_holds, f_writes, f_count, f_req, f_made,
                               f_gens, f_floor, f_alone>>,
         CacheInv'
  PROVE  ShelfInv'
  <1>1. ShelfShape'
    BY DEF ShelfInv, ShelfShape, Shelf!NoReq, Shelf!None, Asked, Steps
  <1>2. GensCounted' /\ CounterFollows'
    BY DEF ShelfInv, GensCounted, CounterFollows, Active
  <1> QED
    BY <1>1, <1>2 DEF ShelfInv

\* A view whose step leaves slots and flights alone and shows what they allow.
LEMMA ViewInv ==
  ASSUME ShelfInv, NEW r \in Reads,
         NEW n \in [at : Views, gen : Nat, shows : Nat, needs : Nat],
         f_read' = [f_read EXCEPT ![r] = n],
         UNCHANGED <<f_folders, f_keys, f_holds, f_writes, f_count, f_req, f_made,
                     f_gens, f_gen, f_slot, f_flight, f_floor, f_alone>>,
         f_read[r].at # "fill",
         n.at # "idle" =>
           /\ n.gen <= f_gens /\ n.needs <= f_floor /\ SlotShows(n.gen, n.needs)
           /\ n.at = "shown" => n.shows >= n.needs,
         n.at \in {"fill", "walk"} => n.shows >= f_floor
  PROVE  ShelfInv'
  <1>1. f_read'[r] = n /\ \A o \in Reads \ {r} : f_read'[o] = f_read[o]
    BY DEF ShelfInv, CacheInv, CacheShape
  <1>2. CacheShape'
    BY DEF ShelfInv, CacheInv, CacheShape, Shelf!Gens, Kept, Shelf!Absent, Views
  <1>3. /\ f_floor \in Nat
        /\ \A o \in Reads : f_read[o].needs \in Nat /\ f_read[o].gen \in Nat /\ f_read[o].shows \in Nat
    BY DEF ShelfInv, CacheInv, CacheShape
  <1>4. ASSUME NEW g, NEW m \in Nat, m <= f_floor, SlotShows(g, m)
        PROVE  /\ f_slot'[g] # Shelf!Absent => f_slot'[g] >= m
               /\ f_flight'[g] # Shelf!Absent => f_flight'[g] >= m
               /\ \A o \in Reads : f_read'[o].at \in {"fill", "walk"} /\ f_read'[o].gen = g
                                     => f_read'[o].shows >= m
    <2>1. n.at \in {"fill", "walk"} => n.shows >= m
      BY <1>3, <1>4
    <2> QED
      BY <2>1, <1>1, <1>4 DEF SlotShows
  <1>5. SlotsServe'
    <2>1. ASSUME NEW o \in Reads, f_read'[o].at # "idle" PROVE Served(o)'
      <3>1. PICK g, m \in Nat : /\ g = f_read'[o].gen /\ m = f_read'[o].needs
                                /\ g <= f_gens /\ m <= f_floor /\ SlotShows(g, m)
                                /\ f_read'[o].at = "shown" => f_read'[o].shows >= m
        <4>1. CASE o = r
          BY <4>1, <2>1, <1>1
        <4>2. CASE o # r
          BY <4>2, <2>1, <1>1, <1>3 DEF ShelfInv, CacheInv, SlotsServe, Served
        <4> QED
          BY <4>1, <4>2
      <3>2. SlotShows(g, m)'
        BY <3>1, <1>4 DEF SlotShows, Shelf!Absent
      <3> QED
        BY <3>1, <3>2 DEF Served
    <2>2. SlotShows(f_gen, f_floor)'
      BY <1>3, <1>4 DEF ShelfInv, CacheInv, SlotsServe, SlotShows, Shelf!Absent
    <2> QED
      BY <2>1, <2>2 DEF SlotsServe
  <1>6. FlightsAreFills'
    <2> SUFFICES ASSUME NEW g \in Shelf!Gens
                 PROVE  /\ f_flight[g] # Shelf!Absent =>
                             \E o \in Reads : f_read'[o].at = "fill" /\ f_read'[o].gen = g
                        /\ g > f_gens => f_slot[g] = Shelf!Absent
      BY DEF FlightsAreFills, Shelf!Gens, Shelf!Absent
    <2> QED
      BY <1>1 DEF ShelfInv, CacheInv, FlightsAreFills
  <1> QED
    BY <1>2, <1>5, <1>6, RequestsRest DEF CacheInv

\* What a view may count on.
LEMMA ViewKnown ==
  ASSUME ShelfInv, NEW r \in Reads
  PROVE  /\ f_read[r] \in [at : Views, gen : Nat, shows : Nat, needs : Nat]
         /\ f_writes \in Nat /\ f_floor \in Nat /\ f_floor <= f_writes
         /\ f_gens \in Nat /\ f_gen \in Nat /\ f_gen <= f_gens /\ f_gen \in Shelf!Gens
         /\ f_read[r].at # "idle" => Served(r) /\ f_read[r].gen \in Shelf!Gens
  <1>1. f_gens \in Nat /\ f_gens <= MaxReq
    <2>1. Cardinality(Active) \in Nat
      BY ShelfAssumption, FS_Subset, FS_CardinalityType DEF Active
    <2> QED
      BY <2>1, ShelfAssumption DEF ShelfInv, GensCounted
  <1>2. f_read[r] \in [at : Views, gen : Nat, shows : Nat, needs : Nat]
    BY DEF ShelfInv, CacheInv, CacheShape
  <1>3. /\ f_writes \in Nat /\ f_floor \in Nat /\ f_floor <= f_writes
        /\ f_gen \in Nat /\ f_gen <= f_gens /\ f_gen \in Shelf!Gens
    BY <1>1, ShelfAssumption DEF ShelfInv, CacheInv, CacheShape, Shelf!Gens
  <1>4. ASSUME f_read[r].at # "idle" PROVE Served(r) /\ f_read[r].gen \in Shelf!Gens
    <2>1. Served(r)
      BY <1>4 DEF ShelfInv, CacheInv, SlotsServe
    <2>2. f_read[r].gen \in Nat /\ f_read[r].gen <= f_gens
      BY <2>1, <1>2 DEF Served
    <2> QED
      BY <2>1, <2>2, <1>1, ShelfAssumption DEF Shelf!Gens
  <1> QED
    BY <1>1, <1>2, <1>3, <1>4

\* A view that opens, peeks, joins a flight, walks on or closes.
LEMMA LookShelf ==
  ASSUME ShelfInv, NEW r \in Reads,
         \/ Shelf!Open(r) \/ Shelf!Peek(r) \/ Shelf!WalkAll(r) \/ Shelf!Close(r)
         \/ Shelf!Fetch(r) /\ f_flight[f_read[r].gen] # Shelf!Absent
  PROVE  ShelfInv'
  <1> DEFINE v == f_read[r]
             View == [at : Views, gen : Nat, shows : Nat, needs : Nat]
  <1>1. /\ v \in View
        /\ f_writes \in Nat /\ f_floor \in Nat /\ f_floor <= f_writes
        /\ f_gens \in Nat /\ f_gen \in Nat /\ f_gen <= f_gens /\ f_gen \in Shelf!Gens
        /\ v.at # "idle" => Served(r) /\ v.gen \in Shelf!Gens
    BY ViewKnown
  <1>2. /\ UNCHANGED <<f_folders, f_keys, f_holds, f_writes, f_count, f_req, f_made>>
        /\ UNCHANGED <<f_gens, f_gen, f_slot, f_flight, f_floor, f_alone>>
    BY DEF Shelf!Open, Shelf!Peek, Shelf!WalkAll, Shelf!Close, Shelf!Fetch, Shelf!catalog
  <1>3. Shelf!NoRead \in View /\ Shelf!NoRead.at = "idle"
    BY DEF Shelf!NoRead, Views
  <1>4. CASE Shelf!Open(r)
    <2>1. PICK n \in View : /\ f_read' = [f_read EXCEPT ![r] = n] /\ n.at = "peek"
                            /\ n.gen = f_gen /\ n.needs = f_floor
      <3> DEFINE n == [at |-> "peek", gen |-> f_gen, shows |-> 0, needs |-> f_floor]
      <3>1. n \in View /\ n.at = "peek" /\ n.gen = f_gen /\ n.needs = f_floor
        BY <1>1 DEF Views
      <3> QED
        BY <3>1, <1>4 DEF Shelf!Open
    <2>2. v.at # "fill" /\ SlotShows(f_gen, f_floor)
      BY <1>3, <1>4 DEF Shelf!Open, ShelfInv, CacheInv, SlotsServe
    <2>3. SlotShows(n.gen, n.needs) /\ n.gen <= f_gens /\ n.needs <= f_floor
      BY <2>1, <2>2, <1>1
    <2> QED
      BY <2>1, <2>2, <2>3, <1>2, ViewInv
  <1>5. CASE Shelf!Peek(r)
    <2>1. v.at = "peek" /\ Served(r) /\ v.gen \in Shelf!Gens
      BY <1>1, <1>5 DEF Shelf!Peek
    <2>2. f_slot[v.gen] \in Kept
      BY <2>1 DEF ShelfInv, CacheInv, CacheShape
    <2>3. PICK n \in View :
            /\ f_read' = [f_read EXCEPT ![r] = n] /\ n.gen = v.gen /\ n.needs = v.needs
            /\ n.at = "fetch" \/ (n.at = "shown" /\ n.shows >= v.needs)
      <3>1. CASE f_slot[v.gen] = Shelf!Absent
        <4> DEFINE n == [v EXCEPT !.at = "fetch"]
        <4>1. n \in View /\ n.at = "fetch" /\ n.gen = v.gen /\ n.needs = v.needs
          BY <1>1 DEF Views
        <4> QED
          BY <4>1, <3>1, <1>5 DEF Shelf!Peek
      <3>2. CASE f_slot[v.gen] # Shelf!Absent
        <4> DEFINE n == [v EXCEPT !.at = "shown", !.shows = f_slot[v.gen]]
        <4>1. f_slot[v.gen] \in Nat /\ f_slot[v.gen] >= v.needs
          BY <3>2, <2>1, <2>2 DEF Kept, Served, SlotShows
        <4>2. n \in View /\ n.at = "shown" /\ n.gen = v.gen /\ n.needs = v.needs
              /\ n.shows = f_slot[v.gen]
          BY <4>1, <1>1 DEF Views
        <4> QED
          BY <4>1, <4>2, <3>2, <1>5 DEF Shelf!Peek
      <3> QED
        BY <3>1, <3>2
    <2> QED
      BY <2>1, <2>3, <1>2, ViewInv DEF Served
  <1>6. CASE Shelf!WalkAll(r)
    <2>1. v.at = "shown" /\ Served(r)
      BY <1>1, <1>6 DEF Shelf!WalkAll
    <2>2. PICK n \in View : /\ f_read' = [f_read EXCEPT ![r] = n] /\ n.gen = v.gen
                            /\ n.needs = v.needs /\ n.at = "walk" /\ n.shows = f_writes
      <3> DEFINE n == [v EXCEPT !.at = "walk", !.shows = f_writes]
      <3>1. n \in View /\ n.at = "walk" /\ n.gen = v.gen /\ n.needs = v.needs /\ n.shows = f_writes
        BY <1>1 DEF Views
      <3>2. f_read' = [f_read EXCEPT ![r] = n]
        BY <1>6 DEF Shelf!WalkAll
      <3> QED
        BY <3>1, <3>2
    <2> QED
      BY <2>1, <2>2, <1>1, <1>2, ViewInv DEF Served
  <1>7. CASE Shelf!Close(r)
    <2>1. v.at = "shown" /\ f_read' = [f_read EXCEPT ![r] = Shelf!NoRead]
      BY <1>7 DEF Shelf!Close
    <2> QED
      BY <2>1, <1>2, <1>3, ViewInv
  <1>8. CASE Shelf!Fetch(r) /\ f_flight[v.gen] # Shelf!Absent
    <2>1. v.at = "fetch" /\ Served(r) /\ v.gen \in Shelf!Gens
      BY <1>1, <1>8 DEF Shelf!Fetch
    <2>2. f_flight[v.gen] \in Nat /\ f_flight[v.gen] >= v.needs
      BY <2>1, <1>8 DEF ShelfInv, CacheInv, CacheShape, Kept, Served, SlotShows
    <2>3. PICK n \in View :
            /\ f_read' = [f_read EXCEPT ![r] = n] /\ n.gen = v.gen /\ n.needs = v.needs
            /\ n.at = "shown" /\ n.shows = f_flight[v.gen]
      <3> DEFINE n == [v EXCEPT !.at = "shown", !.shows = f_flight[v.gen]]
      <3>1. n \in View /\ n.at = "shown" /\ n.gen = v.gen /\ n.needs = v.needs
            /\ n.shows = f_flight[v.gen]
        BY <2>2, <1>1 DEF Views
      <3>2. f_read' = [f_read EXCEPT ![r] = n]
        BY <1>8 DEF Shelf!Fetch
      <3> QED
        BY <3>1, <3>2
    <2> QED
      BY <2>1, <2>2, <2>3, <1>2, ViewInv DEF Served
  <1> QED
    BY <1>4, <1>5, <1>6, <1>7, <1>8

\* A view whose step changes its own slot: what is in flight, or kept, or to be
\* kept shows no less than what could come out of the slot before.
LEMMA SlotInv ==
  ASSUME ShelfInv, NEW r \in Reads, NEW g, g = f_read[r].gen, f_read[r].at # "idle",
         NEW n \in [at : Views, gen : Nat, shows : Nat, needs : Nat],
         f_read' = [f_read EXCEPT ![r] = n],
         UNCHANGED <<f_folders, f_keys, f_holds, f_writes, f_count, f_req, f_made,
                     f_gens, f_gen, f_floor, f_alone>>,
         f_slot' \in [Shelf!Gens -> Kept], f_flight' \in [Shelf!Gens -> Kept],
         \A h \in Shelf!Gens \ {g} : f_slot'[h] = f_slot[h] /\ f_flight'[h] = f_flight[h],
         \A m \in Nat : m <= f_floor /\ SlotShows(g, m) =>
           /\ f_slot'[g] # Shelf!Absent => f_slot'[g] >= m
           /\ f_flight'[g] # Shelf!Absent => f_flight'[g] >= m
           /\ n.at # "idle" => n.shows >= m,
         n.at # "idle" => n.gen = g /\ n.needs = f_read[r].needs,
         f_flight'[g] # Shelf!Absent =>
           \/ n.at = "fill"
           \/ \E o \in Reads \ {r} : f_read[o].at = "fill" /\ f_read[o].gen = g
  PROVE  ShelfInv'
  <1>1. f_read'[r] = n /\ \A o \in Reads \ {r} : f_read'[o] = f_read[o]
    BY DEF ShelfInv, CacheInv, CacheShape
  <1>2. CacheShape'
    BY DEF ShelfInv, CacheInv, CacheShape, Shelf!Gens, Kept, Shelf!Absent, Views
  <1>3. /\ f_floor \in Nat /\ f_gen \in Shelf!Gens /\ Served(r) /\ g \in Shelf!Gens /\ g \in Nat
        /\ f_gens \in Nat
    BY ViewKnown
  <1>4. \A o \in Reads : f_read[o].needs \in Nat /\ f_read[o].gen \in Nat /\ f_read[o].shows \in Nat
    BY DEF ShelfInv, CacheInv, CacheShape
  <1>5. ASSUME NEW h \in Shelf!Gens, NEW m \in Nat, m <= f_floor, SlotShows(h, m)
        PROVE  /\ f_slot'[h] # Shelf!Absent => f_slot'[h] >= m
               /\ f_flight'[h] # Shelf!Absent => f_flight'[h] >= m
               /\ \A o \in Reads : f_read'[o].at \in {"fill", "walk"} /\ f_read'[o].gen = h
                                     => f_read'[o].shows >= m
    <2>1. CASE h = g
      <3>1. /\ f_slot'[g] # Shelf!Absent => f_slot'[g] >= m
            /\ f_flight'[g] # Shelf!Absent => f_flight'[g] >= m
            /\ n.at # "idle" => n.shows >= m
        BY <2>1, <1>5
      <3> QED
        BY <3>1, <2>1, <1>1, <1>5 DEF SlotShows
    <2>2. CASE h # g
      <3>1. f_slot'[h] = f_slot[h] /\ f_flight'[h] = f_flight[h]
        BY <2>2
      <3>2. n.at \in {"fill", "walk"} => n.gen # h
        BY <2>2
      <3> QED
        BY <3>1, <3>2, <1>1, <1>5 DEF SlotShows
    <2> QED
      BY <2>1, <2>2
  <1>6. SlotsServe'
    <2>1. ASSUME NEW o \in Reads, f_read'[o].at # "idle" PROVE Served(o)'
      <3>1. PICK h, m \in Nat : /\ h = f_read'[o].gen /\ m = f_read'[o].needs /\ h \in Shelf!Gens
                                /\ h <= f_gens /\ m <= f_floor /\ SlotShows(h, m)
                                /\ f_read'[o].at = "shown" => f_read'[o].shows >= m
        <4>1. CASE o = r
          <5>1. /\ f_read[r].needs \in Nat /\ f_read[r].needs <= f_floor
                /\ SlotShows(g, f_read[r].needs) /\ g <= f_gens
            BY <1>3, <1>4 DEF Served
          <5>2. n.at # "idle" /\ n.gen = g /\ n.needs = f_read[r].needs
            BY <4>1, <2>1, <1>1
          <5>3. n.shows >= f_read[r].needs
            BY <5>1, <5>2
          <5> QED
            BY <5>1, <5>2, <5>3, <4>1, <1>1, <1>3
        <4>2. CASE o # r
          <5>1. f_read'[o] = f_read[o] /\ Served(o) /\ f_read[o].gen \in Shelf!Gens
            BY <4>2, <2>1, <1>1, ViewKnown
          <5> QED
            BY <5>1, <1>4 DEF Served
        <4> QED
          BY <4>1, <4>2
      <3>2. SlotShows(h, m)'
        BY <3>1, <1>5 DEF SlotShows, Shelf!Absent
      <3> QED
        BY <3>1, <3>2 DEF Served
    <2>2. SlotShows(f_gen, f_floor)'
      BY <1>3, <1>5 DEF ShelfInv, CacheInv, SlotsServe, SlotShows, Shelf!Absent
    <2> QED
      BY <2>1, <2>2 DEF SlotsServe
  <1>7. FlightsAreFills'
    <2> SUFFICES ASSUME NEW h \in Shelf!Gens
                 PROVE  /\ f_flight'[h] # Shelf!Absent =>
                             \E o \in Reads : f_read'[o].at = "fill" /\ f_read'[o].gen = h
                        /\ h > f_gens => f_slot'[h] = Shelf!Absent
      BY DEF FlightsAreFills, Shelf!Gens, Shelf!Absent
    <2>1. CASE h = g
      <3>1. h <= f_gens
        BY <2>1, <1>3 DEF Served
      <3>2. ~(h > f_gens)
        BY <3>1, <2>1, <1>3
      <3>3. n.at = "fill" => f_read'[r].at = "fill" /\ f_read'[r].gen = g
        BY <1>1
      <3> QED
        BY <3>2, <3>3, <2>1, <1>1
    <2>2. CASE h # g
      <3>1. f_slot'[h] = f_slot[h] /\ f_flight'[h] = f_flight[h]
        BY <2>2
      <3>2. /\ f_flight[h] # Shelf!Absent => \E o \in Reads : f_read[o].at = "fill" /\ f_read[o].gen = h
            /\ h > f_gens => f_slot[h] = Shelf!Absent
        BY DEF ShelfInv, CacheInv, FlightsAreFills
      <3> QED
        BY <3>1, <3>2, <2>2, <1>1
    <2> QED
      BY <2>1, <2>2
  <1> QED
    BY <1>2, <1>6, <1>7, RequestsRest DEF CacheInv

\* A view that takes off, lands, or keeps what it walked.
LEMMA FillShelf ==
  ASSUME ShelfInv, NEW r \in Reads,
         \/ Shelf!Fetch(r) /\ f_flight[f_read[r].gen] = Shelf!Absent
         \/ Shelf!StoreWalk(r)
         \/ \E unkept \in BOOLEAN : Shelf!Filled(r, unkept)
  PROVE  ShelfInv'
  <1> DEFINE View == [at : Views, gen : Nat, shows : Nat, needs : Nat]
  <1>1. PICK v \in View, g \in Shelf!Gens : v = f_read[r] /\ g = v.gen /\ v.at # "idle"
    BY ViewKnown DEF Shelf!Fetch, Shelf!StoreWalk, Shelf!Filled
  <1>2. f_writes \in Nat /\ f_floor \in Nat /\ f_floor <= f_writes
    BY ViewKnown
  <1>3. UNCHANGED <<f_folders, f_keys, f_holds, f_writes, f_count, f_req, f_made,
                    f_gens, f_gen, f_floor, f_alone>>
    BY DEF Shelf!Fetch, Shelf!StoreWalk, Shelf!Filled, Shelf!catalog
  <1>4. f_slot \in [Shelf!Gens -> Kept] /\ f_flight \in [Shelf!Gens -> Kept]
    BY DEF ShelfInv, CacheInv, CacheShape
  <1>5. \A m \in Nat : SlotShows(g, m) =>
          /\ f_slot[g] # Shelf!Absent => f_slot[g] >= m
          /\ f_flight[g] # Shelf!Absent => f_flight[g] >= m
          /\ v.at \in {"fill", "walk"} => v.shows >= m
    BY <1>1 DEF SlotShows
  <1>6. CASE Shelf!Fetch(r) /\ f_flight[f_read[r].gen] = Shelf!Absent
    <2> DEFINE n == [v EXCEPT !.at = "fill", !.shows = f_writes]
    <2>1. n \in View /\ n.at = "fill" /\ n.gen = g /\ n.needs = v.needs /\ n.shows = f_writes
      BY <1>1, <1>2 DEF Views
    <2>2. /\ f_read' = [f_read EXCEPT ![r] = n] /\ f_slot' = f_slot
          /\ f_flight' = [f_flight EXCEPT ![g] = f_writes]
      BY <1>1, <1>6 DEF Shelf!Fetch
    <2>3. /\ f_flight' \in [Shelf!Gens -> Kept] /\ f_flight'[g] = f_writes
          /\ \A h \in Shelf!Gens \ {g} : f_flight'[h] = f_flight[h]
      BY <2>2, <1>2, <1>4 DEF Kept
    <2>4. \A m \in Nat : m <= f_floor /\ SlotShows(g, m) =>
            /\ f_slot'[g] # Shelf!Absent => f_slot'[g] >= m
            /\ f_flight'[g] # Shelf!Absent => f_flight'[g] >= m
            /\ n.at # "idle" => n.shows >= m
      BY <2>1, <2>2, <2>3, <1>2, <1>5
    <2> HIDE DEF n
    <2> QED
      BY <2>1, <2>2, <2>3, <2>4, <1>1, <1>3, <1>4, SlotInv
  <1>7. CASE Shelf!StoreWalk(r)
    <2> DEFINE n == [v EXCEPT !.at = "shown"]
    <2>1. n \in View /\ n.at = "shown" /\ n.gen = g /\ n.needs = v.needs /\ n.shows = v.shows
      BY <1>1 DEF Views
    <2>2. /\ f_read' = [f_read EXCEPT ![r] = n] /\ f_flight' = f_flight
          /\ f_slot' = [f_slot EXCEPT ![g] = v.shows] /\ v.at = "walk"
      BY <1>1, <1>7 DEF Shelf!StoreWalk
    <2>3. /\ f_slot' \in [Shelf!Gens -> Kept] /\ f_slot'[g] = v.shows
          /\ \A h \in Shelf!Gens \ {g} : f_slot'[h] = f_slot[h]
      BY <2>2, <1>1, <1>4 DEF Kept
    <2>4. \A m \in Nat : m <= f_floor /\ SlotShows(g, m) =>
            /\ f_slot'[g] # Shelf!Absent => f_slot'[g] >= m
            /\ f_flight'[g] # Shelf!Absent => f_flight'[g] >= m
            /\ n.at # "idle" => n.shows >= m
      BY <2>1, <2>2, <2>3, <1>5
    <2>5. f_flight'[g] # Shelf!Absent =>
            \E o \in Reads \ {r} : f_read[o].at = "fill" /\ f_read[o].gen = g
      BY <2>2, <1>1 DEF ShelfInv, CacheInv, FlightsAreFills
    <2> HIDE DEF n
    <2> QED
      BY <2>1, <2>2, <2>3, <2>4, <2>5, <1>1, <1>3, <1>4, SlotInv
  <1>8. CASE \E unkept \in BOOLEAN : Shelf!Filled(r, unkept)
    <2>1. PICK unkept \in BOOLEAN : Shelf!Filled(r, unkept)
      BY <1>8
    <2>2. v.at = "fill" /\ f_flight' = [f_flight EXCEPT ![g] = Shelf!Absent]
      BY <2>1, <1>1 DEF Shelf!Filled
    <2>3. /\ f_flight' \in [Shelf!Gens -> Kept] /\ f_flight'[g] = Shelf!Absent
          /\ \A h \in Shelf!Gens \ {g} : f_flight'[h] = f_flight[h]
      BY <2>2, <1>4 DEF Kept
    <2>4. /\ f_slot' \in [Shelf!Gens -> Kept] /\ f_slot'[g] \in {f_slot[g], v.shows}
          /\ \A h \in Shelf!Gens \ {g} : f_slot'[h] = f_slot[h]
      <3>1. f_slot' = f_slot \/ f_slot' = [f_slot EXCEPT ![g] = v.shows]
        BY <2>1, <1>1 DEF Shelf!Filled
      <3> QED
        BY <3>1, <1>1, <1>4 DEF Kept
    <2>5. PICK n \in View : /\ f_read' = [f_read EXCEPT ![r] = n]
                            /\ n.at # "idle" => n.gen = g /\ n.needs = v.needs /\ n.shows = v.shows
                            /\ n.at # "fill"
      <3>1. CASE unkept
        <4>1. Shelf!NoRead \in View /\ Shelf!NoRead.at = "idle"
          BY DEF Shelf!NoRead, Views
        <4>2. f_read' = [f_read EXCEPT ![r] = Shelf!NoRead]
          BY <3>1, <2>1 DEF Shelf!Filled
        <4> QED
          BY <4>1, <4>2
      <3>2. CASE ~unkept
        <4> DEFINE n == [v EXCEPT !.at = "shown"]
        <4>1. n \in View /\ n.at = "shown" /\ n.gen = g /\ n.needs = v.needs /\ n.shows = v.shows
          BY <1>1 DEF Views
        <4>2. f_read' = [f_read EXCEPT ![r] = n]
          BY <3>2, <2>1, <1>1 DEF Shelf!Filled
        <4> QED
          BY <4>1, <4>2
      <3> QED
        BY <3>1, <3>2
    <2>6. \A m \in Nat : m <= f_floor /\ SlotShows(g, m) =>
            /\ f_slot'[g] # Shelf!Absent => f_slot'[g] >= m
            /\ f_flight'[g] # Shelf!Absent => f_flight'[g] >= m
            /\ n.at # "idle" => n.shows >= m
      BY <2>2, <2>3, <2>4, <2>5, <1>5
    <2> QED
      BY <2>3, <2>4, <2>5, <2>6, <1>1, <1>3, SlotInv
  <1> QED
    BY <1>6, <1>7, <1>8

\* What is kept runs out: a shelf, or the generation itself.
LEMMA ExpireShelf ==
  ASSUME ShelfInv, Shelf!GenExpires \/ \E g \in Shelf!Gens : Shelf!Expire(g)
  PROVE  ShelfInv'
  <1>1. /\ UNCHANGED <<f_folders, f_keys, f_holds, f_writes, f_count, f_req, f_made>>
        /\ UNCHANGED <<f_gens, f_flight, f_read, f_floor, f_alone>>
    BY DEF Shelf!GenExpires, Shelf!Expire, Shelf!catalog
  <1>2. f_gens \in Nat /\ 0 \in Shelf!Gens
    BY ShelfAssumption DEF ShelfInv, GensCounted, Shelf!Gens
  <1>3. CASE Shelf!GenExpires
    <2>1. /\ f_gen' = 0 /\ f_slot' = f_slot
          /\ \A g \in Shelf!Gens : f_slot[g] = Shelf!Absent /\ f_flight[g] = Shelf!Absent
          /\ \A r \in Reads : f_read[r].at \in {"idle", "shown"}
      BY <1>3 DEF Shelf!GenExpires, ShelfInv, CacheInv, FlightsAreFills
    <2>2. \A g \in Shelf!Gens : f_slot'[g] = Shelf!Absent /\ f_flight'[g] = Shelf!Absent
      BY <2>1, <1>1
    <2>3. CacheShape'
      BY <2>1, <1>1, <1>2 DEF ShelfInv, CacheInv, CacheShape, Shelf!Gens, Kept, Shelf!Absent, Views
    <2>4. SlotsServe'
      <3>1. ASSUME NEW r \in Reads, f_read[r].at # "idle" PROVE Served(r)'
        <4>1. Served(r)
          BY <3>1 DEF ShelfInv, CacheInv, SlotsServe
        <4> QED
          BY <4>1, <2>1, <1>1 DEF Served, SlotShows, Shelf!Absent
      <3>2. SlotShows(f_gen, f_floor)'
        BY <2>1, <2>2, <1>1, <1>2 DEF SlotShows, Shelf!Absent
      <3> QED
        BY <3>1, <3>2, <1>1 DEF SlotsServe
    <2>5. FlightsAreFills'
      BY <2>2 DEF FlightsAreFills, Shelf!Gens, Shelf!Absent
    <2> QED
      BY <2>3, <2>4, <2>5, <1>1, RequestsRest DEF CacheInv
  <1>4. CASE \E g \in Shelf!Gens : Shelf!Expire(g)
    <2>1. PICK g \in Shelf!Gens : f_slot' = [f_slot EXCEPT ![g] = Shelf!Absent] /\ f_gen' = f_gen
      BY <1>4 DEF Shelf!Expire
    <2>2. CacheShape'
      BY <2>1, <1>1 DEF ShelfInv, CacheInv, CacheShape, Shelf!Gens, Kept, Shelf!Absent, Views
    <2>3. \A h \in Shelf!Gens : f_slot'[h] = Shelf!Absent \/ f_slot'[h] = f_slot[h]
      BY <2>1 DEF ShelfInv, CacheInv, CacheShape
    <2>4. SlotsServe'
      <3>1. ASSUME NEW r \in Reads, f_read[r].at # "idle" PROVE Served(r)'
        <4>1. Served(r) /\ f_read[r].gen \in Shelf!Gens
          BY <3>1, ViewKnown
        <4> QED
          BY <4>1, <2>3, <1>1 DEF Served, SlotShows, Shelf!Absent
      <3>2. SlotShows(f_gen, f_floor)'
        <4>1. f_gen \in Shelf!Gens
          <5>1. Cardinality(Active) \in Nat
            BY ShelfAssumption, FS_Subset, FS_CardinalityType DEF Active
          <5> QED
            BY <5>1, ShelfAssumption DEF ShelfInv, CacheInv, CacheShape, GensCounted, Shelf!Gens
        <4> QED
          BY <4>1, <2>1, <2>3, <1>1 DEF ShelfInv, CacheInv, SlotsServe, SlotShows, Shelf!Absent
      <3> QED
        BY <3>1, <3>2, <1>1 DEF SlotsServe
    <2>5. FlightsAreFills'
      BY <2>3, <1>1 DEF ShelfInv, CacheInv, FlightsAreFills, Shelf!Gens, Shelf!Absent
    <2> QED
      BY <2>2, <2>4, <2>5, <1>1, RequestsRest DEF CacheInv
  <1> QED
    BY <1>3, <1>4

LEMMA NextShelf == ShelfInv /\ [Shelf!Next]_shelfVars => ShelfInv'
  <1> SUFFICES ASSUME ShelfInv, [Shelf!Next]_shelfVars PROVE ShelfInv'
    OBVIOUS
  <1>1. CASE UNCHANGED shelfVars
    <2>1. /\ UNCHANGED <<f_folders, f_keys, f_holds, f_writes, f_count, f_req, f_made>>
          /\ UNCHANGED <<f_gens, f_gen, f_slot, f_flight, f_read, f_floor, f_alone>>
      BY <1>1 DEF shelfVars
    <2>2. CacheInv'
      BY <2>1, CacheRests DEF ShelfInv, CacheInv, CacheShape
    <2> QED
      BY <2>1, <2>2, RequestsRest
  <1>2. ASSUME NEW c \in Requests, Shelf!Toggle(c) PROVE ShelfInv'
    BY <1>2, EnterShelf DEF Shelf!Toggle
  <1>3. ASSUME NEW c \in Requests, NEW targets \in SUBSET Folders, Shelf!SetPatchFolders(c, targets)
        PROVE  ShelfInv'
    BY <1>3, EnterShelf DEF Shelf!SetPatchFolders
  <1>4. ASSUME NEW c \in Requests,
               \/ Shelf!ReadHolding(c) \/ Shelf!FindDefault(c) \/ Shelf!CreateDefault(c)
               \/ Shelf!Refuse(c) \/ Shelf!Moved(c) \/ Shelf!Settle(c) \/ Shelf!Die(c)
        PROVE  ShelfInv'
    BY <1>4, AskShelf, EndMoves, DieShelf
  <1>5. ASSUME NEW c \in Requests, NEW f \in Folders, Shelf!PutItem(c, f) \/ Shelf!DeleteItem(c, f)
        PROVE  ShelfInv'
    BY <1>5, MoveShelf
  <1>6. ASSUME NEW c \in Requests, NEW lost \in BOOLEAN, Shelf!Forget(c, lost) PROVE ShelfInv'
    BY <1>6, ForgetShelf
  <1>7. ASSUME NEW r \in Reads,
               \/ Shelf!Open(r) \/ Shelf!Peek(r) \/ Shelf!Fetch(r) \/ Shelf!WalkAll(r)
               \/ Shelf!StoreWalk(r) \/ Shelf!Close(r)
               \/ \E unkept \in BOOLEAN : Shelf!Filled(r, unkept)
        PROVE  ShelfInv'
    BY <1>7, LookShelf, FillShelf
  <1> QED
    BY <1>1, <1>2, <1>3, <1>4, <1>5, <1>6, <1>7, ExpireShelf DEF Shelf!Next

LEMMA FollowsOfInv == ShelfInv => Shelf!ShelfFollows
  <1> SUFFICES ASSUME ShelfInv PROVE Shelf!ShelfFollows
    OBVIOUS
  <1>1. ASSUME NEW r \in Reads, f_read[r].at = "shown" PROVE f_read[r].shows >= f_read[r].needs
    BY <1>1, ViewKnown DEF Served
  <1>2. ASSUME f_alone, \A c \in Requests : f_req[c] = Shelf!NoReq
        PROVE  f_count = (IF f_holds = {} THEN 0 ELSE 1)
    <2>1. Active = {}
      BY <1>2 DEF Active, Shelf!NoReq
    <2> QED
      BY <2>1, <1>2 DEF ShelfInv, CounterFollows, Hearted
  <1> QED
    BY <1>1, <1>2 DEF Shelf!ShelfFollows

\* However many requests and views of a reader overlap, fail, die and expire, a
\* view that begins after a request has ended shows what it wrote; and without
\* overlaps and deaths the counter ends on whether the game is held
\* (internal/usercache, internal/patch/service/folder_membership.go).
THEOREM ShelfFollowsWrites == SpecOfOne => []ShelfFollows
  <1>1. InitOfOne => ShelfInv
    BY InitShelf DEF InitOfOne
  <1>2. ShelfInv /\ [NextOfOne]_allVars => ShelfInv'
    <2> SUFFICES ASSUME ShelfInv, [NextOfOne]_allVars PROVE ShelfInv'
      OBVIOUS
    <2>1. [Shelf!Next]_shelfVars
      BY DEF NextOfOne, allVars, MergeOnly, TrustOnly, InboxOnly, UploadOnly, ShelfOnly, RolesOnly,
         LinksOnly, stores
    <2> QED
      BY <2>1, NextShelf
  <1>3. ShelfInv => ShelfFollows
    BY FollowsOfInv DEF ShelfFollows
  <1> QED
    BY <1>1, <1>2, <1>3, PTL DEF SpecOfOne

-----------------------------------------------------------------------------
(* Sums, by induction: what the library's theorems leave to operators is said *)
(* here of sets.                                                              *)

\* A set of numbers that has 0 and, with a number, the next one.
LEMMA EveryNumber ==
  ASSUME NEW P \in SUBSET Nat, 0 \in P, \A n \in P : n + 1 \in P
  PROVE  P = Nat
  <1> SUFFICES ASSUME Nat \ P # {} PROVE FALSE
    OBVIOUS
  <1>1. PICK m \in Nat \ P : \A n \in Nat \ P : m <= n
    BY LeastNumber
  <1>2. m # 0 /\ m - 1 \in Nat /\ (m - 1) + 1 = m /\ ~(m <= m - 1)
    BY <1>1
  <1>3. m - 1 \in P
    BY <1>1, <1>2
  <1> QED
    BY <1>1, <1>2, <1>3

\* The element a sum over s takes next, and the sums it takes over the parts of S.
PickOf(s) == CHOOSE x \in s : TRUE
AddsUp(t, w, S) ==
  t = [s \in SUBSET S |-> IF s = {} THEN 0 ELSE w[PickOf(s)] + t[s \ {PickOf(s)}]]
Totals(w, S) == CHOOSE t : AddsUp(t, w, S)

LEMMA Counted ==
  ASSUME NEW S, IsFiniteSet(S), NEW s \in SUBSET S
  PROVE  /\ Cardinality(s) \in Nat
         /\ Cardinality(s) <= 0 => s = {}
  <1>1. IsFiniteSet(s)
    BY FS_Subset
  <1> QED
    BY <1>1, FS_CardinalityType, FS_EmptySet

LEMMA Picked ==
  ASSUME NEW S, IsFiniteSet(S), NEW s \in SUBSET S, s # {}
  PROVE  /\ PickOf(s) \in s
         /\ Cardinality(s \ {PickOf(s)}) = Cardinality(s) - 1
  <1>1. PickOf(s) \in s
    BY DEF PickOf
  <1>2. IsFiniteSet(s)
    BY FS_Subset
  <1> QED
    BY <1>1, <1>2, FS_RemoveElement

\* What holds of the empty set, and of a set when it holds without the element
\* picked, holds of every finite set.
LEMMA EveryPart ==
  ASSUME NEW S, IsFiniteSet(S), NEW P \in SUBSET SUBSET S, {} \in P,
         \A s \in SUBSET S : s # {} /\ s \ {PickOf(s)} \in P => s \in P
  PROVE  P = SUBSET S
  <1> DEFINE N == {n \in Nat : \A s \in SUBSET S : Cardinality(s) <= n => s \in P}
  <1>1. 0 \in N
    BY Counted
  <1>2. ASSUME NEW n \in N PROVE n + 1 \in N
    <2>1. ASSUME NEW s \in SUBSET S, Cardinality(s) <= n + 1, s # {} PROVE s \in P
      <3>1. Cardinality(s) \in Nat /\ Cardinality(s \ {PickOf(s)}) = Cardinality(s) - 1
        BY <2>1, Counted, Picked, Zenon
      <3>2. s \ {PickOf(s)} \in SUBSET S /\ Cardinality(s \ {PickOf(s)}) <= n
        BY <2>1, <3>1
      <3>3. s \ {PickOf(s)} \in P
        BY <3>2
      <3> QED
        BY <2>1, <3>3
    <2>2. \A s \in SUBSET S : Cardinality(s) <= n + 1 => s \in P
      BY <2>1
    <2> QED
      BY <2>2
  <1>3. N = Nat
    BY <1>1, <1>2, EveryNumber
  <1>4. ASSUME NEW s \in SUBSET S PROVE s \in P
    <2>1. Cardinality(s) \in Nat
      BY FS_Subset, FS_CardinalityType
    <2>2. Cardinality(s) \in N /\ Cardinality(s) <= Cardinality(s)
      BY <2>1, <1>3
    <2> QED
      BY <2>2
  <1> QED
    BY <1>4

LEMMA TotalsAddUp ==
  ASSUME NEW S, IsFiniteSet(S), NEW w \in [S -> Nat]
  PROVE  /\ Totals(w, S) \in [SUBSET S -> Nat]
         /\ Totals(w, S)[{}] = 0
         /\ \A s \in SUBSET S :
              s # {} => Totals(w, S)[s] = w[PickOf(s)] + Totals(w, S)[s \ {PickOf(s)}]
  <1> DEFINE Small(n) == {s \in SUBSET S : Cardinality(s) <= n}
             Sums(g, n) == /\ g \in [Small(n) -> Nat]
                           /\ \A s \in Small(n) :
                                g[s] = (IF s = {} THEN 0 ELSE w[PickOf(s)] + g[s \ {PickOf(s)}])
             N == {n \in Nat : \E g : Sums(g, n)}
  <1>1. \A s \in SUBSET S : Cardinality(s) \in Nat /\ (Cardinality(s) <= 0 => s = {})
    BY Counted
  <1>2. 0 \in N
    <2> DEFINE g == [s \in Small(0) |-> 0]
    <2>1. \A s \in Small(0) : s = {}
      BY <1>1
    <2>2. Sums(g, 0)
      BY <2>1
    <2> QED
      BY <2>2
  <1>3. ASSUME NEW n \in N PROVE n + 1 \in N
    <2>1. PICK g : Sums(g, n)
      OBVIOUS
    <2> DEFINE h == [s \in Small(n + 1) |-> IF s = {} THEN 0 ELSE w[PickOf(s)] + g[s \ {PickOf(s)}]]
    <2>2. ASSUME NEW s \in Small(n + 1), s # {}
          PROVE  w[PickOf(s)] \in Nat /\ s \ {PickOf(s)} \in Small(n)
      <3>1. PickOf(s) \in s /\ Cardinality(s \ {PickOf(s)}) = Cardinality(s) - 1
        BY <2>2, Picked
      <3> QED
        BY <3>1, <1>1
    <2>3. h \in [Small(n + 1) -> Nat]
      BY <2>1, <2>2
    <2>4. \A s \in Small(n) : s \in Small(n + 1) /\ h[s] = g[s]
      <3>1. \A s \in Small(n) : s \in Small(n + 1)
        BY <1>1
      <3> QED
        BY <3>1, <2>1
    <2>5. ASSUME NEW s \in Small(n + 1), s # {} PROVE h[s] = w[PickOf(s)] + h[s \ {PickOf(s)}]
      BY <2>2, <2>4, <2>5
    <2>6. Sums(h, n + 1)
      BY <2>3, <2>5
    <2> HIDE DEF h, Sums
    <2> QED
      BY <2>6
  <1>4. N = Nat
    BY <1>2, <1>3, EveryNumber
  <1>5. PICK g : Sums(g, Cardinality(S))
    BY <1>1, <1>4
  <1>6. Small(Cardinality(S)) = SUBSET S
    BY FS_Subset, FS_CardinalityType
  <1>7. AddsUp(g, w, S)
    BY <1>5, <1>6 DEF AddsUp
  <1>8. PICK t : t = Totals(w, S) /\ AddsUp(t, w, S)
    BY <1>7 DEF Totals
  <1>9. t[{}] = 0 /\ \A s \in SUBSET S : s # {} => t[s] = w[PickOf(s)] + t[s \ {PickOf(s)}]
    BY <1>8 DEF AddsUp
  <1>10. t \in [SUBSET S -> Nat]
    <2> DEFINE P == {s \in SUBSET S : t[s] \in Nat}
    <2>1. {} \in P
      BY <1>9
    <2>2. ASSUME NEW s \in SUBSET S, s # {}, s \ {PickOf(s)} \in P PROVE s \in P
      <3>1. w[PickOf(s)] \in Nat
        BY <2>2, Picked
      <3>2. t[s] = w[PickOf(s)] + t[s \ {PickOf(s)}]
        BY <2>2, <1>9
      <3> QED
        BY <2>2, <3>1, <3>2
    <2>3. P = SUBSET S
      <3>1. P \in SUBSET SUBSET S
        OBVIOUS
      <3> HIDE DEF P
      <3> QED
        BY <3>1, <2>1, <2>2, EveryPart
    <2>4. \A s \in SUBSET S : t[s] \in Nat
      BY <2>3
    <2> QED
      BY <2>4, <1>8 DEF AddsUp
  <1> QED
    BY <1>8, <1>9, <1>10

\* A sum grows with one of its summands.
LEMMA TotalGrows ==
  ASSUME NEW S, IsFiniteSet(S), NEW w \in [S -> Nat], NEW v \in [S -> Nat],
         NEW x \in S, NEW d \in Nat, v[x] = w[x] + d, \A y \in S \ {x} : v[y] = w[y]
  PROVE  Totals(v, S)[S] = Totals(w, S)[S] + d
  <1>1. PICK tv, tw : tv = Totals(v, S) /\ tw = Totals(w, S)
    OBVIOUS
  <1> DEFINE P == {s \in SUBSET S : tv[s] = tw[s] + (IF x \in s THEN d ELSE 0)}
  <1>2. /\ tw \in [SUBSET S -> Nat] /\ tv \in [SUBSET S -> Nat] /\ tw[{}] = 0 /\ tv[{}] = 0
        /\ \A s \in SUBSET S : s # {} =>
             /\ tw[s] = w[PickOf(s)] + tw[s \ {PickOf(s)}]
             /\ tv[s] = v[PickOf(s)] + tv[s \ {PickOf(s)}]
    BY <1>1, TotalsAddUp
  <1>3. {} \in P
    BY <1>2
  <1>4. ASSUME NEW s \in SUBSET S, s # {}, s \ {PickOf(s)} \in P PROVE s \in P
    <2>1. PICK p \in s : p = PickOf(s)
      BY <1>4, Picked
    <2>2. /\ tw[s] = w[p] + tw[s \ {p}] /\ tv[s] = v[p] + tv[s \ {p}]
          /\ tv[s \ {p}] = tw[s \ {p}] + (IF x \in s \ {p} THEN d ELSE 0)
          /\ tw[s \ {p}] \in Nat /\ w[p] \in Nat
      BY <1>2, <1>4, <2>1
    <2>3. CASE p = x
      BY <2>2, <2>3
    <2>4. CASE p # x
      BY <2>2, <2>4
    <2> QED
      BY <2>3, <2>4
  <1>5. P = SUBSET S
    <2>1. P \in SUBSET SUBSET S
      OBVIOUS
    <2> HIDE DEF P
    <2> QED
      BY <2>1, <1>3, <1>4, EveryPart
  <1> QED
    BY <1>1, <1>5

LEMMA TotalOfNone ==
  ASSUME NEW S, IsFiniteSet(S), NEW w \in [S -> Nat], \A x \in S : w[x] = 0
  PROVE  Totals(w, S)[S] = 0
  <1>1. PICK t : t = Totals(w, S)
    OBVIOUS
  <1>2. /\ t \in [SUBSET S -> Nat] /\ t[{}] = 0
        /\ \A s \in SUBSET S : s # {} => t[s] = w[PickOf(s)] + t[s \ {PickOf(s)}]
    BY <1>1, TotalsAddUp
  <1> DEFINE P == {s \in SUBSET S : t[s] = 0}
  <1>3. {} \in P
    BY <1>2
  <1>4. ASSUME NEW s \in SUBSET S, s # {}, s \ {PickOf(s)} \in P PROVE s \in P
    <2>1. w[PickOf(s)] = 0
      BY <1>4, Picked
    <2>2. t[s] = w[PickOf(s)] + t[s \ {PickOf(s)}]
      BY <1>2, <1>4
    <2> QED
      BY <1>4, <2>1, <2>2
  <1>5. P = SUBSET S
    <2>1. P \in SUBSET SUBSET S
      OBVIOUS
    <2> HIDE DEF P
    <2> QED
      BY <2>1, <1>3, <1>4, EveryPart
  <1> QED
    BY <1>1, <1>5

-----------------------------------------------------------------------------
(* Uploads and the day's quotas. *)

OnFile == {"stored", "marked", "over", "failed", "unmarked", "aborting"}
Uploads == [at : OnFile \cup {"idle", "image", "image before"}, on : Files \cup {0}]
Charging(r) == r.at \in {"marked", "over", "failed"}

CallShape ==
  /\ u_call \in [Calls -> Uploads]
  /\ \A c \in Calls : u_call[c].at \in OnFile => u_call[c].on \in Files

\* The one call that may charge a file has its mark, and it is not charged yet.
ChargeInv ==
  /\ u_marked \in [Files -> {"none", "today", "before"}] /\ u_charged \in [Files -> Nat]
  /\ \A f \in Files : u_charged[f] <= 1 /\ (u_marked[f] = "none" => u_charged[f] = 0)
  /\ \A c \in Calls : Charging(u_call[c]) =>
       /\ u_marked[u_call[c].on] # "none" /\ u_charged[u_call[c].on] = 0
       /\ \A o \in Calls : Charging(u_call[o]) /\ u_call[o].on = u_call[c].on => o = c

\* What a day charged adds up.
Charges(t) == [f \in Files |-> t[f] * SizeOf[f]]
DayInv ==
  /\ u_today \in [Files -> Nat] /\ u_used \in Nat /\ u_used <= Limit
  /\ u_used = Totals(Charges(u_today), Files)[Files]

\* An image that is stored or on its way is counted, or was given back wrongly.
Reserved == {c \in Calls : u_call[c].at = "image"}
ImageInv ==
  /\ u_images \in Nat /\ u_images <= ImageLimit /\ u_kept \in Nat /\ u_strays \in Nat
  /\ u_kept + Cardinality(Reserved) <= u_images + u_strays

UploadInv == CallShape /\ ChargeInv /\ DayInv /\ ImageInv

-----------------------------------------------------------------------------
LEMMA ReservedCounted ==
  ASSUME NEW c \in Calls
  PROVE  /\ Cardinality(Reserved) \in Nat /\ Cardinality(Reserved \ {c}) \in Nat
         /\ Cardinality(Reserved \ {c}) <= Cardinality(Reserved)
         /\ c \in Reserved => Cardinality(Reserved \ {c}) = Cardinality(Reserved) - 1
         /\ c \notin Reserved => Cardinality(Reserved \cup {c}) = Cardinality(Reserved) + 1
  <1>1. IsFiniteSet(Reserved)
    BY UploadAssumption, FS_Subset DEF Reserved
  <1>2. /\ Cardinality(Reserved) \in Nat /\ Cardinality(Reserved \ {c}) \in Nat
        /\ c \in Reserved => Cardinality(Reserved \ {c}) = Cardinality(Reserved) - 1
        /\ c \notin Reserved => Cardinality(Reserved \cup {c}) = Cardinality(Reserved) + 1
    BY <1>1, FS_CardinalityType, FS_RemoveElement, FS_AddElement, FS_Subset
  <1>3. c \notin Reserved => Reserved \ {c} = Reserved
    OBVIOUS
  <1> QED
    BY <1>2, <1>3

\* A call that goes on, and charges only if it was about to.
LEMMA CallGoes ==
  ASSUME CallShape, ImageInv, NEW c \in Calls, NEW n \in Uploads,
         u_call' = [u_call EXCEPT ![c] = n], n.at # "image",
         n.at \in OnFile => n.on \in Files,
         UNCHANGED <<u_images, u_kept, u_strays>>
  PROVE  /\ CallShape' /\ ImageInv'
         /\ u_call'[c] = n /\ \A o \in Calls \ {c} : u_call'[o] = u_call[o]
  <1>1. u_call'[c] = n /\ \A o \in Calls \ {c} : u_call'[o] = u_call[o]
    BY DEF CallShape
  <1>2. CallShape'
    BY <1>1 DEF CallShape, Uploads, OnFile
  <1>3. Reserved' = Reserved \ {c}
    BY <1>1 DEF Reserved
  <1>4. ImageInv'
    <2>1. PICK k, m \in Nat : k = Cardinality(Reserved) /\ m = Cardinality(Reserved \ {c}) /\ m <= k
      BY ReservedCounted
    <2>2. u_kept + m <= u_images + u_strays
      BY <2>1 DEF ImageInv
    <2> QED
      BY <1>3, <2>1, <2>2 DEF ImageInv
  <1> QED
    BY <1>1, <1>2, <1>4

LEMMA CallOnly ==
  ASSUME UploadInv, NEW c \in Calls, NEW n \in Uploads,
         u_call' = [u_call EXCEPT ![c] = n], n.at # "image",
         n.at \in OnFile => n.on \in Files,
         Charging(n) => Charging(u_call[c]) /\ n.on = u_call[c].on,
         UNCHANGED <<u_marked, u_charged, u_today, u_used, u_images, u_kept, u_strays>>
  PROVE  UploadInv'
  <1>1. /\ CallShape' /\ ImageInv'
        /\ u_call'[c] = n /\ \A o \in Calls \ {c} : u_call'[o] = u_call[o]
    BY CallGoes DEF UploadInv
  <1>2. \A o \in Calls : Charging(u_call'[o]) =>
                           Charging(u_call[o]) /\ u_call'[o].on = u_call[o].on
    BY <1>1
  <1>3. ChargeInv'
    BY <1>2 DEF UploadInv, ChargeInv, Charging
  <1>4. DayInv'
    BY DEF UploadInv, DayInv, Charges, Totals, AddsUp, PickOf
  <1> QED
    BY <1>1, <1>3, <1>4 DEF UploadInv

LEMMA InitUploads == Upload!Init => UploadInv
  <1> SUFFICES ASSUME Upload!Init PROVE UploadInv
    OBVIOUS
  <1>1. Upload!NoCall \in Uploads /\ Upload!NoCall.at = "idle"
    BY DEF Upload!NoCall, Uploads
  <1>2. CallShape /\ ChargeInv
    BY <1>1 DEF Upload!Init, CallShape, ChargeInv, Charging, OnFile
  <1>3. DayInv
    <2>1. Charges(u_today) \in [Files -> Nat] /\ \A f \in Files : Charges(u_today)[f] = 0
      BY UploadAssumption DEF Upload!Init, Charges
    <2> QED
      BY <2>1, TotalOfNone, UploadAssumption DEF Upload!Init, DayInv
  <1>4. ImageInv
    <2>1. Reserved = {}
      BY <1>1 DEF Upload!Init, Reserved
    <2> QED
      BY <2>1, FS_EmptySet, UploadAssumption DEF Upload!Init, ImageInv
  <1> QED
    BY <1>2, <1>3, <1>4 DEF UploadInv

\* What happens to files beside the calls, and what a mark leaves when it expires.
LEMMA FileSteps ==
  ASSUME UploadInv, NEW f \in Files,
         \/ Upload!Publish(f) \/ Upload!MarkExpires(f) \/ Upload!OwnerExpires(f)
         \/ \E result \in {"owned", "withdrawn", "unowned"} : Upload!InitUpload(f, result)
  PROVE  UploadInv'
  <1>1. UNCHANGED <<u_used, u_today, u_images, u_kept, u_strays, u_call>>
    BY DEF Upload!Publish, Upload!MarkExpires, Upload!OwnerExpires, Upload!InitUpload,
       Upload!imageVars
  <1>2. CallShape' /\ DayInv' /\ ImageInv'
    <2>1. CallShape'
      BY <1>1 DEF UploadInv, CallShape, Uploads, OnFile
    <2>2. DayInv'
      BY <1>1 DEF UploadInv, DayInv, Charges, Totals, AddsUp, PickOf
    <2>3. ImageInv'
      BY <1>1 DEF UploadInv, ImageInv, Reserved
    <2> QED
      BY <2>1, <2>2, <2>3
  <1>3. CASE UNCHANGED <<u_marked, u_charged>>
    <2>1. ChargeInv'
      BY <1>1, <1>3 DEF UploadInv, ChargeInv, Charging
    <2> QED
      BY <1>2, <2>1 DEF UploadInv
  <1>4. CASE Upload!MarkExpires(f)
    <2>1. /\ u_marked' = [u_marked EXCEPT ![f] = "none"]
          /\ u_charged' = [u_charged EXCEPT ![f] = 0]
          /\ \A c \in Calls : u_call[c].on # f
      BY <1>4 DEF Upload!MarkExpires, Upload!On
    <2>2. ChargeInv'
      BY <2>1, <1>1 DEF UploadInv, ChargeInv, Charging
    <2> QED
      BY <1>2, <2>2 DEF UploadInv
  <1> QED
    BY <1>3, <1>4 DEF Upload!Publish, Upload!OwnerExpires, Upload!InitUpload, Upload!imageVars

\* A call that begins, ends or goes on without a word to the mark or the quota.
LEMMA CallSteps ==
  ASSUME UploadInv, NEW c \in Calls,
         \/ Upload!DeleteOver(c) \/ Upload!DeleteAborted(c) \/ Upload!Die(c)
         \/ \E why \in {"over", "failed"} : Upload!DeductNot(c, why)
         \/ \E f \in Files : Upload!Complete(c, f) \/ Upload!Abort(c, f)
         \/ Upload!MarkCompleteOnce(c) /\ u_marked[u_call[c].on] # "none"
  PROVE  UploadInv'
  <1>1. Upload!NoCall \in Uploads /\ Upload!NoCall.at = "idle"
    BY DEF Upload!NoCall, Uploads
  <1>2. UNCHANGED <<u_marked, u_charged, u_today, u_used, u_images, u_kept, u_strays>>
    BY DEF Upload!DeleteOver, Upload!DeleteAborted, Upload!Die, Upload!DeductNot, Upload!Complete,
       Upload!Abort, Upload!MarkCompleteOnce, Upload!fileVars, Upload!imageVars, Upload!On
  <1>3. u_call[c] \in Uploads /\ (u_call[c].at \in OnFile => u_call[c].on \in Files)
    BY DEF UploadInv, CallShape
  <1>4. CASE \E why \in {"over", "failed"} : Upload!DeductNot(c, why)
    <2>1. PICK why \in {"over", "failed"} :
            u_call[c].at = "marked" /\ u_call' = [u_call EXCEPT ![c].at = why]
      BY <1>4 DEF Upload!DeductNot, Upload!At, Upload!GoTo
    <2> DEFINE n == [u_call[c] EXCEPT !.at = why]
    <2>2. n \in Uploads /\ n.at = why /\ n.on = u_call[c].on /\ n.on \in Files
      BY <1>3, <2>1 DEF Uploads, OnFile
    <2>3. u_call' = [u_call EXCEPT ![c] = n]
      BY <2>1 DEF UploadInv, CallShape
    <2> HIDE DEF n
    <2> QED
      BY <2>1, <2>2, <2>3, <1>2, CallOnly DEF Charging
  <1>5. CASE \E f \in Files : Upload!Complete(c, f) \/ Upload!Abort(c, f)
    <2>1. PICK f \in Files, step \in {"stored", "aborting"} :
            u_call' = [u_call EXCEPT ![c] = [at |-> step, on |-> f]]
      BY <1>5 DEF Upload!Complete, Upload!Abort, Upload!Enter
    <2> DEFINE n == [at |-> step, on |-> f]
    <2>2. n \in Uploads /\ n.at = step /\ n.on \in Files /\ u_call' = [u_call EXCEPT ![c] = n]
      BY <2>1 DEF Uploads, OnFile
    <2> HIDE DEF n
    <2> QED
      BY <2>2, <1>2, CallOnly DEF Charging
  <1>6. CASE u_call' = [u_call EXCEPT ![c] = Upload!NoCall]
    BY <1>1, <1>2, <1>6, CallOnly DEF Charging, OnFile
  <1> QED
    BY <1>4, <1>5, <1>6 DEF Upload!DeleteOver, Upload!DeleteAborted, Upload!Die,
       Upload!MarkCompleteOnce, Upload!End, Upload!On

\* SET NX lets one complete charge the file.
LEMMA MarkSteps ==
  ASSUME UploadInv, NEW c \in Calls, Upload!MarkCompleteOnce(c)
  PROVE  UploadInv'
  <1>1. CASE u_marked[u_call[c].on] # "none"
    BY <1>1, CallSteps
  <1>2. CASE u_marked[u_call[c].on] = "none"
    <2>1. PICK f \in Files : f = u_call[c].on
      BY DEF UploadInv, CallShape, OnFile, Upload!MarkCompleteOnce, Upload!At
    <2>2. /\ u_marked' = [u_marked EXCEPT ![f] = "today"] /\ u_call' = [u_call EXCEPT ![c].at = "marked"]
          /\ UNCHANGED <<u_charged, u_today, u_used, u_images, u_kept, u_strays>>
      BY <1>2, <2>1 DEF Upload!MarkCompleteOnce, Upload!GoTo, Upload!On, Upload!imageVars
    <2> DEFINE n == [u_call[c] EXCEPT !.at = "marked"]
    <2>3. n \in Uploads /\ n.at = "marked" /\ n.on = f
      BY <2>1 DEF UploadInv, CallShape, Uploads, OnFile
    <2>4. u_call' = [u_call EXCEPT ![c] = n]
      BY <2>2 DEF UploadInv, CallShape
    <2> HIDE DEF n
    <2>5. /\ CallShape' /\ ImageInv'
          /\ u_call'[c] = n /\ \A o \in Calls \ {c} : u_call'[o] = u_call[o]
      BY <2>2, <2>3, <2>4, CallGoes DEF UploadInv
    <2>6. ChargeInv'
      <3>1. u_charged[f] = 0 /\ \A o \in Calls : Charging(u_call[o]) => u_call[o].on # f
        BY <1>2, <2>1 DEF UploadInv, ChargeInv
      <3>2. Charging(n)
        BY <2>3 DEF Charging
      <3>3. \A o \in Calls \ {c} : Charging(u_call'[o]) => u_call'[o].on # f
        BY <3>1, <2>5
      <3>4. ASSUME NEW o \in Calls, Charging(u_call'[o])
            PROVE  /\ u_marked'[u_call'[o].on] # "none" /\ u_charged[u_call'[o].on] = 0
                   /\ \A x \in Calls : Charging(u_call'[x]) /\ u_call'[x].on = u_call'[o].on => x = o
        <4>1. CASE o = c
          BY <4>1, <3>1, <3>3, <2>2, <2>3, <2>5 DEF UploadInv, ChargeInv
        <4>2. CASE o # c
          <5>1. u_call'[o] = u_call[o] /\ u_call[o].on \in Files \ {f}
            BY <4>2, <3>3, <3>4, <2>5 DEF UploadInv, CallShape, Charging, OnFile
          <5>2. u_marked'[u_call[o].on] = u_marked[u_call[o].on]
            BY <5>1, <2>2 DEF UploadInv, ChargeInv
          <5>3. ASSUME NEW x \in Calls, Charging(u_call'[x]), u_call'[x].on = u_call'[o].on
                PROVE  x = o
            <6>1. u_call'[x] = u_call[x]
              BY <5>1, <5>3, <2>3, <2>5
            <6> QED
              BY <6>1, <5>1, <5>3, <3>4 DEF UploadInv, ChargeInv
          <5> QED
            BY <5>1, <5>2, <5>3, <3>4 DEF UploadInv, ChargeInv
        <4> QED
          BY <4>1, <4>2
      <3>5. u_marked' \in [Files -> {"none", "today", "before"}]
        BY <2>2 DEF UploadInv, ChargeInv
      <3> QED
        BY <3>1, <3>4, <3>5, <2>2 DEF UploadInv, ChargeInv, Charging
    <2>7. DayInv'
      BY <2>2 DEF UploadInv, DayInv, Charges, Totals, AddsUp, PickOf
    <2> QED
      BY <2>5, <2>6, <2>7 DEF UploadInv
  <1> QED
    BY <1>1, <1>2

\* A call that charges its file or gives up its mark is done with it.
LEMMA ChargeSettled ==
  ASSUME UploadInv, NEW c \in Calls, NEW f \in Files, f = u_call[c].on, Charging(u_call[c]),
         ~Charging(u_call'[c]), \A o \in Calls \ {c} : u_call'[o] = u_call[o],
         u_marked' \in [Files -> {"none", "today", "before"}], u_charged' \in [Files -> Nat],
         \A g \in Files \ {f} : u_marked'[g] = u_marked[g] /\ u_charged'[g] = u_charged[g],
         u_charged'[f] <= 1, u_marked'[f] = "none" => u_charged'[f] = 0
  PROVE  ChargeInv'
  <1>1. ASSUME NEW o \in Calls, Charging(u_call'[o])
        PROVE  /\ o # c /\ u_call'[o] = u_call[o] /\ Charging(u_call[o])
               /\ u_call[o].on \in Files \ {f}
    <2>1. o # c /\ u_call'[o] = u_call[o] /\ Charging(u_call[o])
      BY <1>1
    <2>2. u_call[o].on \in Files
      BY <2>1 DEF UploadInv, CallShape, Charging, OnFile
    <2>3. u_call[o].on # f
      BY <2>1 DEF UploadInv, ChargeInv
    <2> QED
      BY <2>1, <2>2, <2>3
  <1>2. ASSUME NEW o \in Calls, Charging(u_call'[o])
        PROVE  /\ u_marked'[u_call'[o].on] # "none" /\ u_charged'[u_call'[o].on] = 0
               /\ \A x \in Calls : Charging(u_call'[x]) /\ u_call'[x].on = u_call'[o].on => x = o
    <2>1. /\ u_marked'[u_call[o].on] = u_marked[u_call[o].on]
          /\ u_charged'[u_call[o].on] = u_charged[u_call[o].on]
      BY <1>1, <1>2
    <2> QED
      BY <2>1, <1>1, <1>2 DEF UploadInv, ChargeInv
  <1>3. \A g \in Files : u_charged'[g] <= 1 /\ (u_marked'[g] = "none" => u_charged'[g] = 0)
    BY DEF UploadInv, ChargeInv
  <1> QED
    BY <1>2, <1>3 DEF ChargeInv, Charging

LEMMA DeductSteps ==
  ASSUME UploadInv, NEW c \in Calls, Upload!Deduct(c)
  PROVE  UploadInv'
  <1>1. PICK f \in Files : f = u_call[c].on
    BY DEF UploadInv, CallShape, OnFile, Upload!Deduct, Upload!At
  <1>2. /\ u_call[c].at = "marked" /\ u_used + SizeOf[f] <= Limit
        /\ u_used' = u_used + SizeOf[f]
        /\ u_charged' = [u_charged EXCEPT ![f] = u_charged[f] + 1]
        /\ u_today' = [u_today EXCEPT ![f] = u_today[f] + 1]
        /\ u_call' = [u_call EXCEPT ![c] = Upload!NoCall]
        /\ UNCHANGED <<u_marked, u_images, u_kept, u_strays>>
    BY <1>1 DEF Upload!Deduct, Upload!At, Upload!On, Upload!End, Upload!imageVars
  <1>3. Upload!NoCall \in Uploads /\ Upload!NoCall.at = "idle"
    BY DEF Upload!NoCall, Uploads
  <1>4. /\ CallShape' /\ ImageInv'
        /\ u_call'[c] = Upload!NoCall /\ \A o \in Calls \ {c} : u_call'[o] = u_call[o]
    BY <1>2, <1>3, CallGoes DEF UploadInv, OnFile
  <1>5. ChargeInv'
    <2>1. Charging(u_call[c]) /\ ~Charging(u_call'[c])
      BY <1>2, <1>3, <1>4 DEF Charging
    <2>2. u_charged[f] = 0 /\ u_marked[f] # "none"
      BY <2>1, <1>1 DEF UploadInv, ChargeInv
    <2>3. u_charged' \in [Files -> Nat] /\ u_charged'[f] = 1
          /\ \A g \in Files \ {f} : u_charged'[g] = u_charged[g]
      BY <2>2, <1>2 DEF UploadInv, ChargeInv
    <2>4. u_marked' \in [Files -> {"none", "today", "before"}] /\ u_marked' = u_marked
      BY <1>2 DEF UploadInv, ChargeInv
    <2> QED
      BY <2>1, <2>2, <2>3, <2>4, <1>1, <1>4, ChargeSettled
  <1>6. DayInv'
    <2>1. PICK w, v : w = Charges(u_today) /\ v = Charges(u_today')
      OBVIOUS
    <2>2. u_today \in [Files -> Nat] /\ SizeOf \in [Files -> Nat]
      BY UploadAssumption DEF UploadInv, DayInv
    <2>3. u_today' \in [Files -> Nat] /\ u_today'[f] = u_today[f] + 1
          /\ \A g \in Files \ {f} : u_today'[g] = u_today[g]
      BY <2>2, <1>2
    <2>4. w \in [Files -> Nat] /\ v \in [Files -> Nat] /\ \A g \in Files \ {f} : v[g] = w[g]
      BY <2>1, <2>2, <2>3 DEF Charges
    <2>5. v[f] = w[f] + SizeOf[f]
      <3>1. \A a, b \in Nat : (a + 1) * b = a * b + b
        OBVIOUS
      <3>2. v[f] = (u_today[f] + 1) * SizeOf[f] /\ w[f] = u_today[f] * SizeOf[f]
        BY <2>1, <2>3 DEF Charges
      <3> QED
        BY <3>1, <3>2, <2>2
    <2>6. Totals(v, Files)[Files] = Totals(w, Files)[Files] + SizeOf[f]
      <3>1. IsFiniteSet(Files) /\ SizeOf[f] \in Nat
        BY UploadAssumption
      <3> QED
        BY <3>1, <2>4, <2>5, TotalGrows
    <2>7. u_used = Totals(w, Files)[Files] /\ u_used \in Nat
      BY <2>1 DEF UploadInv, DayInv
    <2>8. u_used' = Totals(Charges(u_today'), Files)[Files]
      BY <2>1, <2>6, <2>7, <1>2
    <2> QED
      BY <2>2, <2>3, <2>7, <2>8, <1>2 DEF DayInv, Charges
  <1> QED
    BY <1>4, <1>5, <1>6 DEF UploadInv

LEMMA UnmarkSteps ==
  ASSUME UploadInv, NEW c \in Calls, NEW lost \in BOOLEAN, Upload!UnmarkComplete(c, lost)
  PROVE  UploadInv'
  <1>1. PICK f \in Files : f = u_call[c].on
    BY DEF UploadInv, CallShape, OnFile, Upload!UnmarkComplete, Upload!At
  <1>2. /\ u_call[c].at \in {"over", "failed"}
        /\ u_marked' = u_marked \/ u_marked' = [u_marked EXCEPT ![f] = "none"]
        /\ UNCHANGED <<u_charged, u_today, u_used, u_images, u_kept, u_strays>>
        /\ \/ u_call' = [u_call EXCEPT ![c].at = "unmarked"]
           \/ u_call' = [u_call EXCEPT ![c] = Upload!NoCall]
    BY <1>1 DEF Upload!UnmarkComplete, Upload!At, Upload!On, Upload!End, Upload!GoTo, Upload!imageVars
  <1>3. PICK n \in Uploads : /\ u_call' = [u_call EXCEPT ![c] = n] /\ n.at \in {"unmarked", "idle"}
                             /\ n.at = "unmarked" => n.on \in Files
    <2>1. CASE u_call' = [u_call EXCEPT ![c].at = "unmarked"]
      <3> DEFINE n == [u_call[c] EXCEPT !.at = "unmarked"]
      <3>1. n \in Uploads /\ n.at = "unmarked" /\ n.on = f
        BY <1>1 DEF UploadInv, CallShape, Uploads, OnFile
      <3>2. u_call' = [u_call EXCEPT ![c] = n]
        BY <2>1 DEF UploadInv, CallShape
      <3> QED
        BY <3>1, <3>2
    <2>2. CASE u_call' = [u_call EXCEPT ![c] = Upload!NoCall]
      <3>1. Upload!NoCall \in Uploads /\ Upload!NoCall.at = "idle"
        BY DEF Upload!NoCall, Uploads
      <3> QED
        BY <3>1, <2>2
    <2> QED
      BY <1>2, <2>1, <2>2
  <1>4. /\ CallShape' /\ ImageInv'
        /\ u_call'[c] = n /\ \A o \in Calls \ {c} : u_call'[o] = u_call[o]
    BY <1>2, <1>3, CallGoes DEF UploadInv, OnFile
  <1>5. ChargeInv'
    <2>1. Charging(u_call[c]) /\ ~Charging(u_call'[c])
      BY <1>2, <1>3, <1>4 DEF Charging
    <2>2. u_charged[f] = 0
      BY <2>1, <1>1 DEF UploadInv, ChargeInv
    <2>3. /\ u_charged' \in [Files -> Nat] /\ u_charged' = u_charged
          /\ u_marked' \in [Files -> {"none", "today", "before"}]
          /\ \A g \in Files \ {f} : u_marked'[g] = u_marked[g]
      BY <1>2 DEF UploadInv, ChargeInv
    <2> QED
      BY <2>1, <2>2, <2>3, <1>1, <1>4, ChargeSettled
  <1>6. DayInv'
    BY <1>2 DEF UploadInv, DayInv, Charges, Totals, AddsUp, PickOf
  <1> QED
    BY <1>4, <1>5, <1>6 DEF UploadInv

\* Images: a reservation is counted until it is stored or given back.
LEMMA ImageSteps ==
  ASSUME UploadInv, NEW c \in Calls,
         Upload!ReserveDailyImage(c) \/ Upload!ImageStored(c) \/ Upload!ReleaseDailyImage(c)
  PROVE  UploadInv'
  <1>1. UNCHANGED <<u_marked, u_charged, u_today, u_used>>
    BY DEF Upload!ReserveDailyImage, Upload!ImageStored, Upload!ReleaseDailyImage, Upload!fileVars
  <1>2. PICK n \in Uploads :
          /\ u_call' = [u_call EXCEPT ![c] = n]
          /\ IF Upload!ReserveDailyImage(c) THEN n.at = "image" ELSE n.at = "idle"
    <2>1. Upload!NoCall \in Uploads /\ Upload!NoCall.at = "idle"
      BY DEF Upload!NoCall, Uploads
    <2>2. [at |-> "image", on |-> 0] \in Uploads /\ [at |-> "image", on |-> 0].at = "image"
      BY DEF Uploads
    <2> QED
      BY <2>1, <2>2 DEF Upload!ReserveDailyImage, Upload!ImageStored, Upload!ReleaseDailyImage,
         Upload!Enter, Upload!End
  <1>3. u_call'[c] = n /\ \A o \in Calls \ {c} : u_call'[o] = u_call[o]
    BY <1>2 DEF UploadInv, CallShape
  <1>4. CallShape'
    BY <1>2, <1>3 DEF UploadInv, CallShape, Uploads, OnFile
  <1>5. ChargeInv'
    <2>1. \A o \in Calls : Charging(u_call'[o]) => o # c /\ u_call'[o] = u_call[o]
      BY <1>2, <1>3 DEF Charging
    <2> QED
      BY <2>1, <1>1 DEF UploadInv, ChargeInv, Charging
  <1>6. DayInv'
    BY <1>1 DEF UploadInv, DayInv, Charges, Totals, AddsUp, PickOf
  <1>7. PICK k, m, l \in Nat : /\ k = Cardinality(Reserved) /\ m = Cardinality(Reserved \ {c})
                               /\ m <= k /\ (c \in Reserved => m = k - 1)
                               /\ c \notin Reserved => l = Cardinality(Reserved \cup {c}) /\ l = k + 1
    BY ReservedCounted
  <1>8. /\ u_kept + k <= u_images + u_strays
        /\ u_images \in Nat /\ u_images <= ImageLimit /\ u_kept \in Nat /\ u_strays \in Nat
    BY <1>7 DEF UploadInv, ImageInv
  <1>9. CASE Upload!ReserveDailyImage(c)
    <2>1. /\ u_images < ImageLimit /\ u_images' = u_images + 1 /\ UNCHANGED <<u_kept, u_strays>>
          /\ u_call[c].at = "idle"
      BY <1>9 DEF Upload!ReserveDailyImage, Upload!Enter, Upload!NoCall
    <2>2. c \notin Reserved /\ Reserved' = Reserved \cup {c}
      BY <2>1, <1>2, <1>3, <1>9 DEF Reserved
    <2>3. ImageInv'
      BY <2>1, <2>2, <1>7, <1>8, UploadAssumption DEF ImageInv
    <2> QED
      BY <2>3, <1>4, <1>5, <1>6 DEF UploadInv
  <1>10. CASE Upload!ImageStored(c) \/ Upload!ReleaseDailyImage(c)
    <2>1. Upload!ReserveDailyImage(c) => FALSE
      BY <1>10 DEF Upload!ReserveDailyImage, Upload!ImageStored, Upload!ReleaseDailyImage,
         Upload!Enter, Upload!At, Upload!NoCall
    <2>2. n.at = "idle"
      BY <2>1, <1>2
    <2>3. Reserved' = Reserved \ {c} /\ (u_call[c].at = "image" <=> c \in Reserved)
      BY <2>2, <1>3 DEF Reserved
    <2>4. CASE Upload!ImageStored(c)
      <3>1. /\ u_kept' = IF c \in Reserved THEN u_kept + 1 ELSE u_kept
            /\ UNCHANGED <<u_images, u_strays>>
        BY <2>3, <2>4 DEF Upload!ImageStored, Upload!At
      <3>2. u_kept' \in Nat /\ u_kept' + m <= u_images + u_strays
        BY <3>1, <1>7, <1>8
      <3>3. ImageInv'
        BY <3>1, <3>2, <2>3, <1>7, <1>8 DEF ImageInv
      <3> QED
        BY <3>3, <1>4, <1>5, <1>6 DEF UploadInv
    <2>5. CASE Upload!ReleaseDailyImage(c)
      <3>1. /\ u_images' = IF u_images > 0 THEN u_images - 1 ELSE u_images
            /\ u_strays' = IF u_call[c].at = "image before" /\ u_images > 0 THEN u_strays + 1
                           ELSE u_strays
            /\ u_kept' = u_kept /\ u_call[c].at \in {"image", "image before"}
        BY <2>5 DEF Upload!ReleaseDailyImage, Upload!At
      <3>2. /\ u_images' \in Nat /\ u_images' <= ImageLimit /\ u_strays' \in Nat
            /\ u_kept + m <= u_images' + u_strays'
        <4>1. ImageLimit \in Nat
          BY UploadAssumption
        <4>2. k \in Nat /\ m \in Nat /\ m <= k /\ (u_call[c].at = "image" => m = k - 1)
          BY <2>3, <1>7
        <4>3. CASE u_images = 0
          <5>1. u_images' = 0 /\ u_strays' = u_strays
            <6>1. ~(u_images > 0)
              BY <4>3
            <6> QED
              BY <6>1, <4>3, <3>1
          <5> QED
            BY <5>1, <4>1, <4>2, <4>3, <1>8
        <4>4. CASE u_images > 0
          <5>1. /\ u_images' = u_images - 1
                /\ (u_strays' = u_strays /\ u_call[c].at = "image") \/ u_strays' = u_strays + 1
            BY <4>4, <3>1
          <5>2. u_images - 1 \in Nat /\ u_images - 1 <= ImageLimit
            BY <4>1, <4>4, <1>8
          <5>3. CASE u_strays' = u_strays /\ u_call[c].at = "image"
            BY <5>1, <5>2, <5>3, <4>2, <1>8
          <5>4. CASE u_strays' = u_strays + 1
            BY <5>1, <5>2, <5>4, <4>2, <1>8
          <5> QED
            BY <5>1, <5>3, <5>4
        <4> QED
          BY <4>3, <4>4, <1>8
      <3>3. ImageInv'
        BY <3>1, <3>2, <2>3, <1>7, <1>8 DEF ImageInv
      <3> QED
        BY <3>3, <1>4, <1>5, <1>6 DEF UploadInv
    <2> QED
      BY <1>10, <2>4, <2>5
  <1> QED
    BY <1>9, <1>10

\* Midnight empties the day's counters and leaves the marks.
LEMMA MidnightSteps ==
  ASSUME UploadInv, Upload!Midnight
  PROVE  UploadInv'
  <1>1. /\ u_used' = 0 /\ u_images' = 0 /\ u_kept' = 0 /\ u_strays' = 0 /\ u_charged' = u_charged
        /\ u_today' = [f \in Files |-> 0]
        /\ u_marked' = [f \in Files |-> IF u_marked[f] = "today" THEN "before" ELSE u_marked[f]]
        /\ u_call' = [c \in Calls |-> IF u_call[c].at = "image"
                                      THEN [u_call[c] EXCEPT !.at = "image before"] ELSE u_call[c]]
    BY DEF Upload!Midnight, Upload!At
  <1>2. ASSUME NEW c \in Calls
        PROVE  /\ u_call'[c] \in Uploads /\ u_call'[c].at # "image" /\ u_call'[c].on = u_call[c].on
               /\ u_call'[c].at # "image before" => u_call'[c] = u_call[c]
    <2>1. u_call[c] \in Uploads
      BY DEF UploadInv, CallShape
    <2>2. CASE u_call[c].at = "image"
      <3>1. u_call'[c] = [u_call[c] EXCEPT !.at = "image before"]
        BY <2>2, <1>1
      <3> QED
        BY <3>1, <2>1 DEF Uploads
    <2>3. CASE u_call[c].at # "image"
      <3>1. u_call'[c] = u_call[c]
        BY <2>3, <1>1
      <3> QED
        BY <3>1, <2>1, <2>3
    <2> QED
      BY <2>2, <2>3
  <1>3. CallShape'
    <2>1. u_call' \in [Calls -> Uploads]
      BY <1>1, <1>2
    <2> QED
      BY <2>1, <1>2 DEF UploadInv, CallShape, Uploads, OnFile
  <1>4. ChargeInv'
    <2>1. /\ u_marked' \in [Files -> {"none", "today", "before"}]
          /\ \A f \in Files : u_marked'[f] = "none" <=> u_marked[f] = "none"
      BY <1>1 DEF UploadInv, ChargeInv
    <2>2. \A c \in Calls : Charging(u_call'[c]) =>
                             u_call'[c] = u_call[c] /\ Charging(u_call[c]) /\ u_call[c].on \in Files
      BY <1>2 DEF UploadInv, CallShape, Charging, OnFile
    <2> QED
      BY <2>1, <2>2, <1>1 DEF UploadInv, ChargeInv, Charging
  <1>5. DayInv'
    <2>1. PICK v : v = Charges(u_today')
      OBVIOUS
    <2>2. v \in [Files -> Nat] /\ \A f \in Files : v[f] = 0
      <3>1. \A f \in Files : SizeOf[f] \in Nat /\ u_today'[f] = 0
        BY <1>1, UploadAssumption
      <3>2. \A b \in Nat : 0 * b = 0
        OBVIOUS
      <3>3. \A f \in Files : u_today'[f] * SizeOf[f] = 0
        BY <3>1, <3>2
      <3> QED
        BY <3>3, <2>1 DEF Charges
    <2>3. Totals(Charges(u_today'), Files)[Files] = 0
      BY <2>1, <2>2, TotalOfNone, UploadAssumption
    <2>4. u_today' \in [Files -> Nat]
      BY <1>1
    <2>5. u_used' \in Nat /\ u_used' <= Limit
      <3>1. u_used' = 0 /\ Limit \in Nat
        BY <1>1, UploadAssumption
      <3> QED
        BY <3>1
    <2> QED
      BY <2>3, <2>4, <2>5, <1>1 DEF DayInv, Charges
  <1>6. ImageInv'
    <2>1. Reserved' = {}
      BY <1>2 DEF Reserved
    <2>2. Cardinality({}) = 0 /\ ImageLimit \in Nat
      BY FS_EmptySet, UploadAssumption
    <2>3. /\ u_images' \in Nat /\ u_images' <= ImageLimit /\ u_kept' \in Nat /\ u_strays' \in Nat
          /\ u_kept' + 0 <= u_images' + u_strays'
      <3>1. u_images' = 0 /\ u_kept' = 0 /\ u_strays' = 0
        BY <1>1
      <3> QED
        BY <3>1, <2>2
    <2> QED
      BY <2>1, <2>2, <2>3 DEF ImageInv
  <1> QED
    BY <1>3, <1>4, <1>5, <1>6 DEF UploadInv

LEMMA NextUpload == UploadInv /\ [Upload!Next]_uploadVars => UploadInv'
  <1> SUFFICES ASSUME UploadInv, [Upload!Next]_uploadVars PROVE UploadInv'
    OBVIOUS
  <1>1. CASE UNCHANGED uploadVars
    <2>1. UNCHANGED <<u_marked, u_charged, u_used, u_today, u_images, u_kept, u_strays, u_call>>
      BY <1>1 DEF uploadVars
    <2>2. CallShape'
      BY <2>1 DEF UploadInv, CallShape, Uploads, OnFile
    <2>3. ChargeInv'
      BY <2>1 DEF UploadInv, ChargeInv, Charging
    <2>4. DayInv'
      BY <2>1 DEF UploadInv, DayInv, Charges, Totals, AddsUp, PickOf
    <2>5. ImageInv'
      BY <2>1 DEF UploadInv, ImageInv, Reserved
    <2> QED
      BY <2>2, <2>3, <2>4, <2>5 DEF UploadInv
  <1>2. ASSUME NEW c \in Calls, Upload!CompleteStep(c) PROVE UploadInv'
    BY <1>2, MarkSteps, DeductSteps, UnmarkSteps, CallSteps DEF Upload!CompleteStep
  <1> QED
    BY <1>1, <1>2, FileSteps, CallSteps, ImageSteps, MidnightSteps DEF Upload!Next

\* However completes are sent again, race, fail and straddle midnight, on however
\* many files: a file is charged once within the life of its mark, a day holds
\* what was charged in it and no more than its limit, and so do its images
\* (internal/common/upload).
THEOREM QuotasAreHeld == SpecOfOne => []QuotasHeld
  <1>1. InitOfOne => UploadInv
    BY InitUploads DEF InitOfOne
  <1>2. UploadInv /\ [NextOfOne]_allVars => UploadInv'
    <2> SUFFICES ASSUME UploadInv, [NextOfOne]_allVars PROVE UploadInv'
      OBVIOUS
    <2>1. [Upload!Next]_uploadVars
      BY DEF NextOfOne, allVars, MergeOnly, TrustOnly, InboxOnly, UploadOnly, ShelfOnly, RolesOnly,
         LinksOnly, stores
    <2> QED
      BY <2>1, NextUpload
  <1>3. UploadInv => QuotasHeld
    <2> SUFFICES ASSUME UploadInv PROVE Upload!QuotasHeld
      BY DEF QuotasHeld
    <2>1. Upload!MapThenSumSet(LAMBDA f : u_today[f] * SizeOf[f], Files)
            = Totals(Charges(u_today), Files)[Files]
      BY DEF Upload!MapThenSumSet, Upload!MapThenFoldSet, Totals, AddsUp, PickOf, Charges
    <2>2. u_kept + Cardinality(Reserved) <= ImageLimit + u_strays
      <3>1. PICK k \in Nat : k = Cardinality(Reserved)
        BY UploadAssumption, FS_Subset, FS_CardinalityType DEF Reserved
      <3> QED
        BY <3>1, UploadAssumption DEF UploadInv, ImageInv
    <2> QED
      BY <2>1, <2>2 DEF UploadInv, ChargeInv, DayInv, Upload!QuotasHeld, Upload!At, Reserved,
         Cardinality, Upload!Cardinality
  <1> QED
    BY <1>1, <1>2, <1>3, PTL DEF SpecOfOne

-----------------------------------------------------------------------------
(***************************************************************************)
(* The inbox.  A page leaves out nothing between where it was read from    *)
(* and its last seq (Complete), and what it carries is of some version     *)
(* (Carried); so what is behind the watermark has been written, unless the *)
(* recipient was unknown, and nothing can undo that but the one race that  *)
(* has a name (Caught).                                                    *)
(***************************************************************************)

Fold == [seq : Nat, items : {0, 1}, read : BOOLEAN]
Item == [id : Folds, fold : Fold]
Copy == [seq : Nat, read : BOOLEAN]
Fetcher == [at : {"idle", "reading", "fetched"}, after : Nat, page : Seq(Item)]
PageOf(s) == i_sync[s].page
OnPage(s) == DOMAIN i_sync[s].page

InboxShape ==
  /\ i_fold \in [Folds -> Fold] /\ i_row \in [Folds -> Copy] /\ i_known \in BOOLEAN
  /\ i_cursor \in Nat /\ i_upTo \in Nat /\ i_forward \subseteq Folds /\ i_raced \subseteq Folds
  /\ i_seen \in [Folds -> Nat] /\ i_missed \in [Folds -> Nat] /\ i_sync \in [Calls -> Fetcher]
  /\ \A s \in Calls : i_sync[s].at = "fetched" <=> PageOf(s) # <<>>

\* Versions have their own numbers; what is here is of one of them, and a row that
\* shows the newest shows no retraction, and was read if that version was.
Versions ==
  /\ \A m, n \in Folds : i_fold[m].seq = i_fold[n].seq /\ i_fold[m].seq # 0 => m = n
  /\ \A n \in Folds :
       /\ i_row[n].seq <= i_fold[n].seq /\ i_seen[n] <= i_fold[n].seq /\ i_missed[n] <= i_fold[n].seq
       /\ i_row[n].seq = 0 => ~i_row[n].read
       /\ i_row[n].seq = i_fold[n].seq /\ i_row[n].seq # 0 => i_fold[n].items = 1
       /\ i_fold[n].items = 1 => i_fold[n].seq # 0
       /\ i_seen[n] = i_fold[n].seq /\ i_seen[n] # 0 => i_row[n].seq = i_fold[n].seq /\ i_row[n].read

\* What a page carries was true of its folds, each of which is there once.
Carried ==
  \A s \in Calls : \A i \in OnPage(s) : LET x == PageOf(s)[i] IN
    /\ 0 < x.fold.seq /\ x.fold.seq <= i_fold[x.id].seq
    /\ x.fold.seq = i_fold[x.id].seq => x.fold.items = i_fold[x.id].items
    /\ \A j \in OnPage(s) : PageOf(s)[j].id = x.id => i = j

\* A fold between where a page was read from and its end is on it.
LastSeq(s) == PageOf(s)[Len(PageOf(s))].fold.seq
Complete ==
  \A s \in Calls :
    /\ i_sync[s].after <= i_cursor
    /\ PageOf(s) # <<>> =>
         \A n \in Folds : i_sync[s].after < i_fold[n].seq /\ i_fold[n].seq <= LastSeq(s) =>
           \E i \in OnPage(s) : PageOf(s)[i].id = n /\ PageOf(s)[i].fold.seq = i_fold[n].seq

\* What is behind the watermark has been written.
Caught ==
  /\ \E n \in Folds : i_cursor <= i_fold[n].seq
  /\ \A n \in Folds : 0 < i_fold[n].seq /\ i_fold[n].seq <= i_cursor =>
       /\ i_fold[n].items = 1 => i_row[n].seq = i_fold[n].seq \/ i_missed[n] = i_fold[n].seq
       /\ i_fold[n].items = 0 /\ n \notin i_raced =>
            /\ i_row[n].seq = 0
            /\ \A s \in Calls : \A i \in OnPage(s) :
                 PageOf(s)[i].id = n => PageOf(s)[i].fold.seq = i_fold[n].seq

InboxInv == InboxShape /\ Versions /\ Carried /\ Complete /\ Caught

-----------------------------------------------------------------------------
LEMMA GreatestNumber ==
  ASSUME NEW S, IsFiniteSet(S), S # {}, S \subseteq Nat
  PROVE  Inbox!Max(S) \in S /\ \A n \in S : n <= Inbox!Max(S)
  <1> DEFINE Above(x) == {o \in S : o > x}
             T == {Above(x) : x \in S}
  <1>1. T \subseteq FiniteSubsetsOf(S) /\ T # {}
    <2>1. \A x \in S : Above(x) \in FiniteSubsetsOf(S)
      BY FS_FiniteSubsetsOfFinite
    <2> QED
      BY <2>1
  <1>2. PICK A \in T : \A B \in T : <<B, A>> \notin StrictSubsetOrdering(S)
    BY <1>1, FS_StrictSubsetOrderingWellFounded, WFMin
  <1>3. PICK x \in S : A = Above(x)
    BY <1>2
  <1>4. \A o \in S : o \in Nat
    OBVIOUS
  <1>5. ASSUME NEW y \in S, y > x PROVE FALSE
    <2>1. Above(y) \subseteq Above(x) /\ y \in Above(x) /\ y \notin Above(y)
      <3>1. \A o \in S : o > y => o > x
        BY <1>4, <1>5
      <3>2. Above(y) \subseteq Above(x)
        BY <3>1
      <3>3. y \in Above(x)
        BY <1>5
      <3>4. y \notin Above(y)
        BY <1>4
      <3> QED
        BY <3>2, <3>3, <3>4
    <2>2. <<Above(y), Above(x)>> \in StrictSubsetOrdering(S)
      BY <2>1 DEF StrictSubsetOrdering
    <2> QED
      BY <1>2, <1>3, <2>2
  <1>6. \A y \in S : x >= y
    BY <1>4, <1>5
  <1>7. Inbox!Max(S) \in S /\ \A y \in S : Inbox!Max(S) >= y
    BY <1>6 DEF Inbox!Max
  <1> QED
    BY <1>7, <1>4

LEMMA MaxOfTwo ==
  ASSUME NEW a \in Nat, NEW b \in Nat
  PROVE  Inbox!Max({a, b}) = (IF a >= b THEN a ELSE b)
  <1>1. a >= b => Inbox!Max({a, b}) = a
    BY DEF Inbox!Max
  <1>2. b > a => Inbox!Max({a, b}) = b
    BY DEF Inbox!Max
  <1> QED
    BY <1>1, <1>2

LEMMA MinOfTwo ==
  ASSUME NEW a \in Nat, NEW b \in Nat
  PROVE  Inbox!Min({a, b}) = (IF a <= b THEN a ELSE b)
  <1>1. a <= b => Inbox!Min({a, b}) = a
    BY DEF Inbox!Min
  <1>2. b < a => Inbox!Min({a, b}) = b
    BY DEF Inbox!Min
  <1> QED
    BY <1>1, <1>2

\* Finitely many numbers have an order, which has them all.
LEMMA NumbersInOrder ==
  ASSUME NEW S, IsFiniteSet(S), S \subseteq Nat
  PROVE  LET s == Inbox!InOrder(S)
         IN  /\ Len(s) \in Nat /\ s \in [1..Len(s) -> S]
             /\ \A i, j \in 1..Len(s) : i < j => s[i] < s[j]
             /\ \A q \in S : \E i \in 1..Len(s) : s[i] = q
  <1>1. PICK n \in Nat : n = Cardinality(S)
    BY FS_CardinalityType
  <1> DEFINE Place == [m \in S |-> Cardinality({o \in S : o <= m})]
             Increases(s) == \A i, j \in DOMAIN s : i < j => s[i] < s[j]
  <1>2. \A m \in S : Place[m] \in 1..n
    <2> SUFFICES ASSUME NEW m \in S PROVE Place[m] \in 1..n
      OBVIOUS
    <2>1. {o \in S : o <= m} \in SUBSET S /\ m \in {o \in S : o <= m}
      OBVIOUS
    <2>2. /\ IsFiniteSet({o \in S : o <= m}) /\ Cardinality({o \in S : o <= m}) <= n
          /\ Cardinality({o \in S : o <= m}) \in Nat
      BY <2>1, <1>1, FS_Subset, FS_CardinalityType
    <2>3. Cardinality({o \in S : o <= m}) # 0
      BY <2>1, <2>2, FS_EmptySet
    <2> QED
      BY <2>2, <2>3
  <1>3. \A l, m \in S : l < m => Place[l] < Place[m]
    <2> SUFFICES ASSUME NEW l \in S, NEW m \in S, l < m PROVE Place[l] < Place[m]
      OBVIOUS
    <2> DEFINE A == {o \in S : o <= l}
               B == {o \in S : o <= m}
    <2>1. A \subseteq B /\ m \in B /\ m \notin A /\ B \subseteq S
      <3>1. l \in Nat /\ m \in Nat /\ \A o \in S : o \in Nat
        OBVIOUS
      <3>2. \A o \in S : o <= l => o <= m
        BY <3>1
      <3>3. A \subseteq B
        BY <3>2
      <3>4. m \in B
        BY <3>1
      <3>5. m \notin A
        BY <3>1
      <3> QED
        BY <3>3, <3>4, <3>5
    <2>2. IsFiniteSet(B) /\ IsFiniteSet(A) /\ Cardinality(A) \in Nat /\ Cardinality(B) \in Nat
      BY <2>1, FS_Subset, FS_CardinalityType
    <2>3. Cardinality(A) <= Cardinality(B) /\ Cardinality(A) # Cardinality(B)
      BY <2>1, <2>2, FS_Subset
    <2>4. Place[l] = Cardinality(A) /\ Place[m] = Cardinality(B)
      OBVIOUS
    <2> HIDE DEF A, B, Place
    <2> QED
      BY <2>2, <2>3, <2>4
  <1> HIDE DEF Place
  <1>4. Place \in [S -> 1..n]
    BY <1>2 DEF Place
  <1>5. \A l, m \in S : Place[l] = Place[m] => l = m
    BY <1>2, <1>3
  <1>6. Place \in Surjection(S, 1..n)
    <2>1. Place \in Injection(S, 1..n)
      BY <1>4, <1>5 DEF Injection, IsInjective
    <2>2. IsFiniteSet(1..n) /\ Cardinality(1..n) = n
      BY FS_Interval
    <2> QED
      BY <1>1, <2>1, <2>2, FS_Injection
  <1>7. \A i \in 1..n : \E m \in S : Place[m] = i
    BY <1>6 DEF Surjection
  <1> DEFINE t == [i \in 1..n |-> CHOOSE m \in S : Place[m] = i]
  <1>8. t \in [1..n -> S] /\ \A i \in 1..n : Place[t[i]] = i
    BY <1>7
  <1> HIDE DEF t
  <1>9. Increases(t)
    <2> SUFFICES ASSUME NEW i \in 1..n, NEW j \in 1..n, i < j PROVE t[i] < t[j]
      BY <1>8
    <2>1. t[i] \in S /\ t[j] \in S /\ Place[t[i]] = i /\ Place[t[j]] = j
      BY <1>8
    <2>2. ~(t[j] < t[i])
      <3>1. t[j] < t[i] => Place[t[j]] < Place[t[i]]
        BY <2>1, <1>3
      <3> QED
        BY <3>1, <2>1
    <2>3. t[j] # t[i]
      BY <2>1
    <2>4. t[i] \in Nat /\ t[j] \in Nat
      BY <2>1
    <2> QED
      BY <2>2, <2>3, <2>4
  <1> DEFINE s == Inbox!InOrder(S)
  <1>10. s \in [1..n -> S] /\ Increases(s)
    <2>1. s = CHOOSE x \in [1..n -> S] : Increases(x)
      <3>1. Inbox!Cardinality(S) = n
        BY <1>1 DEF Cardinality, Inbox!Cardinality
      <3> QED
        BY <3>1 DEF Inbox!InOrder
    <2> HIDE DEF s, Increases
    <2> QED
      BY <2>1, <1>8, <1>9
  <1> HIDE DEF s
  <1>11. s \in Seq(S) /\ Len(s) = n /\ DOMAIN s = 1..n
    BY <1>10
  <1>12. \A i, j \in 1..n : s[i] = s[j] => i = j
    <2> SUFFICES ASSUME NEW i \in 1..n, NEW j \in 1..n, s[i] = s[j], i < j PROVE FALSE
      OBVIOUS
    <2>1. s[i] < s[j] /\ s[i] \in Nat
      BY <1>10, <1>11
    <2> QED
      BY <2>1
  <1>13. \A m \in S : \E i \in 1..n : s[i] = m
    <2>1. s \in Injection(1..n, S)
      BY <1>10, <1>11, <1>12 DEF Injection, IsInjective
    <2>2. IsFiniteSet(1..n) /\ Cardinality(1..n) = n
      BY FS_Interval
    <2>3. s \in Surjection(1..n, S)
      BY <2>1, <2>2, <1>1, FS_Injection
    <2> QED
      BY <2>3 DEF Surjection
  <1> QED
    BY <1>10, <1>11, <1>13 DEF s

LEMMA SeqsAreFinite == IsFiniteSet({i_fold[n].seq : n \in Folds})
  <1> DEFINE S == {i_fold[n].seq : n \in Folds}
             f == [n \in Folds |-> i_fold[n].seq]
  <1>1. f \in Surjection(Folds, S)
    BY DEF Surjection
  <1> QED
    BY <1>1, InboxAssumption, FS_Surjection

\* The newest version of all.
LEMMA NewestSeq ==
  ASSUME InboxShape
  PROVE  /\ Inbox!Newest \in Nat /\ \A n \in Folds : i_fold[n].seq <= Inbox!Newest
         /\ \E n \in Folds : i_fold[n].seq = Inbox!Newest
  <1> DEFINE S == {i_fold[n].seq : n \in Folds}
  <1>1. S \subseteq Nat /\ S # {}
    BY InboxAssumption DEF InboxShape, Fold
  <1>2. IsFiniteSet(S)
    BY SeqsAreFinite
  <1>3. Inbox!Newest = Inbox!Max(S)
    BY DEF Inbox!Newest
  <1> HIDE DEF S
  <1>4. Inbox!Max(S) \in S /\ \A n \in S : n <= Inbox!Max(S)
    BY <1>1, <1>2, GreatestNumber
  <1> QED
    BY <1>1, <1>3, <1>4 DEF S

\* A page of the feed.
LEMMA FeedIs ==
  ASSUME InboxShape, Versions, NEW after \in Nat
  PROVE  LET p == Inbox!FeedAfter(after)
         IN  /\ p \in Seq(Item)
             /\ \A i \in DOMAIN p :
                  /\ p[i].fold = i_fold[p[i].id] /\ 0 < p[i].fold.seq
                  /\ \A j \in DOMAIN p : p[j].id = p[i].id => i = j
             /\ p # <<>> => \A n \in Folds : after < i_fold[n].seq /\ i_fold[n].seq <= p[Len(p)].fold.seq =>
                              \E i \in DOMAIN p : p[i].id = n
  <1> DEFINE S == {i_fold[n].seq : n \in Folds} \ 0..after
             s == Inbox!InOrder(S)
             Who(q) == CHOOSE n \in Folds : i_fold[n].seq = q
             k == Inbox!Min({Len(s), FeedPage})
             p == Inbox!FeedAfter(after)
  <1>1. S \subseteq Nat /\ IsFiniteSet(S) /\ \A q \in S : after < q /\ \E n \in Folds : i_fold[n].seq = q
    <2>1. IsFiniteSet({i_fold[n].seq : n \in Folds})
      BY SeqsAreFinite
    <2>2. \A n \in Folds : i_fold[n].seq \in Nat
      BY DEF InboxShape, Fold
    <2>3. IsFiniteSet(S)
      BY <2>1, FS_Difference
    <2> QED
      BY <2>2, <2>3
  <1>2. p = [i \in 1..k |-> [id |-> Who(s[i]), fold |-> i_fold[Who(s[i])]]]
    BY DEF Inbox!FeedAfter
  <1>3. \A n \in Folds : after < i_fold[n].seq => i_fold[n].seq \in S
    BY DEF InboxShape, Fold
  <1> HIDE DEF S
  <1>4. /\ Len(s) \in Nat /\ s \in [1..Len(s) -> S]
        /\ \A i, j \in 1..Len(s) : i < j => s[i] < s[j]
        /\ \A q \in S : \E i \in 1..Len(s) : s[i] = q
    BY <1>1, NumbersInOrder
  <1> HIDE DEF s
  <1>5. k \in Nat /\ k <= Len(s)
    BY <1>4, MinOfTwo, InboxAssumption
  <1>6. \A q \in S : Who(q) \in Folds /\ i_fold[Who(q)].seq = q
    BY <1>1
  <1>7. \A n \in Folds : i_fold[n].seq \in S => Who(i_fold[n].seq) = n
    <2> SUFFICES ASSUME NEW n \in Folds, i_fold[n].seq \in S PROVE Who(i_fold[n].seq) = n
      OBVIOUS
    <2>1. i_fold[n].seq \in Nat /\ after < i_fold[n].seq
      BY <1>1
    <2> QED
      BY <2>1, <1>6 DEF Versions
  <1> HIDE DEF Who, k, p
  <1>8. \A i \in 1..k : i \in 1..Len(s) /\ s[i] \in S
    BY <1>4, <1>5
  <1>9. p \in Seq(Item) /\ DOMAIN p = 1..k /\ Len(p) = k
    <2>1. \A i \in 1..k : [id |-> Who(s[i]), fold |-> i_fold[Who(s[i])]] \in Item
      BY <1>6, <1>8 DEF Item, InboxShape
    <2> QED
      BY <1>2, <1>5, <2>1
  <1>10. \A i \in 1..k : /\ p[i].id = Who(s[i]) /\ p[i].fold = i_fold[p[i].id] /\ p[i].fold.seq = s[i]
                         /\ p[i].id \in Folds
    BY <1>2, <1>6, <1>8
  <1>11. ASSUME NEW i \in 1..k, NEW j \in 1..k, p[j].id = p[i].id PROVE i = j
    <2>1. s[i] = s[j]
      BY <1>10, <1>11
    <2>2. s[i] \in Nat
      BY <1>1, <1>8
    <2>3. ~(i < j) /\ ~(j < i)
      BY <2>1, <2>2, <1>4, <1>8
    <2> QED
      BY <2>3
  <1>12. ASSUME NEW n \in Folds, p # <<>>, after < i_fold[n].seq, i_fold[n].seq <= p[Len(p)].fold.seq
         PROVE  \E i \in DOMAIN p : p[i].id = n
    <2>1. k \in 1..k
      <3>1. k # 0
        BY <1>9, <1>12
      <3> QED
        BY <3>1, <1>5
    <2>2. PICK i \in 1..Len(s) : s[i] = i_fold[n].seq
      BY <1>3, <1>4, <1>12
    <2>3. p[Len(p)].fold.seq = s[k]
      BY <2>1, <1>9, <1>10
    <2>4. ~(k < i)
      <3>1. s[k] \in Nat /\ s[i] \in Nat
        BY <1>1, <1>4, <1>8, <2>1
      <3> QED
        BY <3>1, <2>1, <2>2, <2>3, <1>4, <1>8, <1>12
    <2>5. i \in 1..k
      BY <2>4, <1>5
    <2>6. p[i].id = Who(i_fold[n].seq)
      BY <2>2, <2>5, <1>10
    <2> QED
      BY <2>5, <2>6, <1>3, <1>7, <1>9, <1>12
  <1>13. ASSUME NEW i \in DOMAIN p PROVE 0 < p[i].fold.seq
    <2>1. p[i].fold.seq = s[i] /\ s[i] \in S
      BY <1>8, <1>9, <1>10
    <2>2. s[i] \in Nat /\ after < s[i]
      BY <2>1, <1>1
    <2> QED
      BY <2>1, <2>2
  <1> QED
    BY <1>9, <1>10, <1>11, <1>12, <1>13 DEF p

-----------------------------------------------------------------------------
LEMMA ItemTypes ==
  ASSUME InboxShape, NEW s \in Calls
  PROVE  /\ PageOf(s) \in Seq(Item) /\ OnPage(s) = 1..Len(PageOf(s)) /\ Len(PageOf(s)) \in Nat
         /\ \A i \in OnPage(s) : PageOf(s)[i].id \in Folds /\ PageOf(s)[i].fold \in Fold
                               /\ PageOf(s)[i].fold.seq \in Nat /\ PageOf(s)[i].fold.items \in {0, 1}
         /\ PageOf(s) # <<>> => Len(PageOf(s)) \in OnPage(s) /\ LastSeq(s) \in Nat
  <1>1. PageOf(s) \in Seq(Item) /\ OnPage(s) = 1..Len(PageOf(s)) /\ Len(PageOf(s)) \in Nat
    BY DEF InboxShape, Fetcher, OnPage, PageOf
  <1>2. \A i \in OnPage(s) : PageOf(s)[i] \in Item
    BY <1>1
  <1>3. \A i \in OnPage(s) : PageOf(s)[i].id \in Folds /\ PageOf(s)[i].fold \in Fold
                         /\ PageOf(s)[i].fold.seq \in Nat /\ PageOf(s)[i].fold.items \in {0, 1}
    BY <1>2 DEF Item, Fold
  <1>4. PageOf(s) # <<>> => Len(PageOf(s)) \in OnPage(s)
    BY <1>1
  <1> QED
    BY <1>1, <1>3, <1>4 DEF LastSeq

LEMMA InitInbox == Inbox!Init => InboxInv
  <1> SUFFICES ASSUME Inbox!Init PROVE InboxInv
    OBVIOUS
  <1>1. \A n \in Folds : /\ i_fold[n].seq = 0 /\ i_fold[n].items = 0 /\ i_row[n].seq = 0 /\ ~i_row[n].read
                         /\ i_seen[n] = 0 /\ i_missed[n] = 0
    BY DEF Inbox!Init, Inbox!NoRow
  <1>2. \A s \in Calls : i_sync[s].page = <<>> /\ i_sync[s].at = "idle" /\ i_sync[s].after = 0
    BY DEF Inbox!Init, Inbox!NoSync
  <1>3. InboxShape
    BY <1>2 DEF Inbox!Init, Inbox!NoRow, Inbox!NoSync, InboxShape, Fold, Copy, Fetcher, PageOf
  <1>4. Versions
    BY <1>1 DEF Versions
  <1>5. Carried /\ Complete
    BY <1>1, <1>2 DEF Carried, Complete, OnPage, PageOf, Inbox!Init
  <1>6. Caught
    BY <1>1, InboxAssumption DEF Caught, Inbox!Init
  <1> QED
    BY <1>3, <1>4, <1>5, <1>6 DEF InboxInv

\* A sync that goes on without a page.
LEMMA SyncGoes ==
  ASSUME InboxInv, NEW s \in Calls, NEW v \in Fetcher, v.page = <<>>, v.at # "fetched", v.after <= i_cursor,
         i_sync' = [i_sync EXCEPT ![s] = v],
         UNCHANGED <<i_fold, i_known, i_row, i_cursor, i_forward, i_upTo, i_seen, i_missed, i_raced>>
  PROVE  InboxInv'
  <1>1. \A o \in Calls : o # s => i_sync'[o] = i_sync[o]
    BY DEF InboxInv, InboxShape
  <1>2. i_sync'[s] = v
    BY DEF InboxInv, InboxShape
  <1>3. InboxShape'
    BY <1>1, <1>2 DEF InboxInv, InboxShape, PageOf
  <1>4. Versions'
    BY DEF InboxInv, Versions
  <1>5. Carried'
    BY <1>1, <1>2 DEF InboxInv, Carried, OnPage, PageOf
  <1>6. Complete'
    BY <1>1, <1>2 DEF InboxInv, Complete, OnPage, PageOf, LastSeq
  <1>7. Caught'
    <2>1. \A o \in Calls : \A i \in OnPage(o)' : i \in OnPage(o) /\ PageOf(o)'[i] = PageOf(o)[i]
      BY <1>1, <1>2 DEF OnPage, PageOf
    <2> QED
      BY <2>1 DEF InboxInv, Caught
  <1> QED
    BY <1>3, <1>4, <1>5, <1>6, <1>7 DEF InboxInv

LEMMA SyncSteps ==
  ASSUME InboxInv, NEW s \in Calls, Inbox!Start(s) \/ Inbox!Stop(s)
  PROVE  InboxInv'
  <1>1. CASE Inbox!Start(s)
    <2> DEFINE v == [Inbox!NoSync EXCEPT !.at = "reading", !.after = i_cursor]
    <2>1. v \in Fetcher /\ v.page = <<>> /\ v.at # "fetched" /\ v.after = i_cursor
      <3>1. Inbox!NoSync \in Fetcher /\ Inbox!NoSync.page = <<>>
        BY DEF Fetcher, Inbox!NoSync
      <3>2. i_cursor \in Nat
        BY DEF InboxInv, InboxShape
      <3> QED
        BY <3>1, <3>2 DEF Fetcher
    <2>2. i_sync' = [i_sync EXCEPT ![s] = v]
      BY <1>1 DEF Inbox!Start
    <2>3. i_cursor <= i_cursor
      BY DEF InboxInv, InboxShape
    <2> HIDE DEF v
    <2> QED
      BY <1>1, <2>1, <2>2, <2>3, SyncGoes DEF Inbox!Start
  <1>2. CASE Inbox!Stop(s)
    <2>1. /\ Inbox!NoSync \in Fetcher /\ Inbox!NoSync.page = <<>> /\ Inbox!NoSync.at # "fetched"
          /\ Inbox!NoSync.after <= i_cursor
      BY DEF InboxInv, InboxShape, Fetcher, Inbox!NoSync
    <2> QED
      BY <1>2, <2>1, SyncGoes DEF Inbox!Stop
  <1> QED
    BY <1>1, <1>2

\* A fetched page is what the feed says now.
LEMMA FetchInbox ==
  ASSUME InboxInv, NEW s \in Calls, Inbox!FetchPage(s)
  PROVE  InboxInv'
  <1> DEFINE p == Inbox!FeedAfter(i_sync[s].after)
  <1>1. i_sync[s] \in Fetcher /\ i_sync[s].at = "reading" /\ i_sync[s].after <= i_cursor
    BY DEF InboxInv, InboxShape, Complete, Inbox!FetchPage
  <1>2. /\ p \in Seq(Item)
        /\ \A i \in DOMAIN p :
             /\ p[i].fold = i_fold[p[i].id] /\ 0 < p[i].fold.seq
             /\ \A j \in DOMAIN p : p[j].id = p[i].id => i = j
        /\ p # <<>> => \A n \in Folds : i_sync[s].after < i_fold[n].seq /\ i_fold[n].seq <= p[Len(p)].fold.seq =>
                         \E i \in DOMAIN p : p[i].id = n
    <2>1. i_sync[s].after \in Nat
      BY <1>1 DEF Fetcher
    <2> QED
      BY <2>1, FeedIs DEF InboxInv
  <1>3. i_sync' = [i_sync EXCEPT ![s] = IF p = <<>> THEN Inbox!NoSync
                                        ELSE [i_sync[s] EXCEPT !.at = "fetched", !.page = p]]
    BY DEF Inbox!FetchPage
  <1>4. UNCHANGED <<i_fold, i_known, i_row, i_cursor, i_forward, i_upTo, i_seen, i_missed, i_raced>>
    BY DEF Inbox!FetchPage
  <1> HIDE DEF p
  <1>5. CASE p = <<>>
    <2>1. /\ Inbox!NoSync \in Fetcher /\ Inbox!NoSync.page = <<>> /\ Inbox!NoSync.at # "fetched"
          /\ Inbox!NoSync.after <= i_cursor
      BY DEF InboxInv, InboxShape, Fetcher, Inbox!NoSync
    <2> QED
      BY <1>3, <1>4, <1>5, <2>1, SyncGoes
  <1>6. CASE p # <<>>
    <2> DEFINE v == [i_sync[s] EXCEPT !.at = "fetched", !.page = p]
    <2>1. v \in Fetcher /\ v.at = "fetched" /\ v.page = p /\ v.after = i_sync[s].after
      BY <1>1, <1>2 DEF Fetcher
    <2>2. i_sync' = [i_sync EXCEPT ![s] = v]
      BY <1>3, <1>6
    <2> HIDE DEF v
    <2>3. i_sync'[s] = v /\ \A o \in Calls : o # s => i_sync'[o] = i_sync[o]
      BY <2>2 DEF InboxInv, InboxShape
    <2>4. InboxShape'
      BY <1>4, <1>6, <2>1, <2>2, <2>3 DEF InboxInv, InboxShape, PageOf
    <2>5. Versions'
      BY <1>4 DEF InboxInv, Versions
    <2>6. Carried'
      <3> SUFFICES ASSUME NEW o \in Calls, NEW i \in OnPage(o)'
                   PROVE  (LET x == PageOf(o)[i] IN
                           /\ 0 < x.fold.seq /\ x.fold.seq <= i_fold[x.id].seq
                           /\ x.fold.seq = i_fold[x.id].seq => x.fold.items = i_fold[x.id].items
                           /\ \A j \in OnPage(o) : PageOf(o)[j].id = x.id => i = j)'
        BY DEF Carried
      <3>1. CASE o # s
        BY <1>4, <2>3, <3>1 DEF InboxInv, Carried, OnPage, PageOf
      <3>2. CASE o = s
        <4>1. PageOf(o)' = p /\ i \in DOMAIN p
          BY <2>1, <2>3, <3>2 DEF OnPage, PageOf
        <4>2. p[i] \in Item
          BY <4>1, <1>2
        <4>3. p[i].fold.seq \in Nat
          BY <4>2 DEF Item, Fold
        <4>4. /\ p[i].fold = i_fold[p[i].id] /\ 0 < p[i].fold.seq
              /\ \A j \in DOMAIN p : p[j].id = p[i].id => i = j
          BY <4>1, <1>2
        <4>5. OnPage(o)' = DOMAIN p /\ i_fold' = i_fold
          BY <4>1, <1>4 DEF OnPage, PageOf
        <4> HIDE DEF OnPage, PageOf
        <4> QED
          BY <4>1, <4>3, <4>4, <4>5
      <3> QED
        BY <3>1, <3>2
    <2>7. Complete'
      <3> SUFFICES ASSUME NEW o \in Calls
                   PROVE  (/\ i_sync[o].after <= i_cursor
                           /\ PageOf(o) # <<>> =>
                                \A n \in Folds : i_sync[o].after < i_fold[n].seq /\ i_fold[n].seq <= LastSeq(o) =>
                                  \E i \in OnPage(o) : PageOf(o)[i].id = n /\ PageOf(o)[i].fold.seq = i_fold[n].seq)'
        BY DEF Complete
      <3>1. CASE o # s
        BY <1>4, <2>3, <3>1 DEF InboxInv, Complete, OnPage, PageOf, LastSeq
      <3>2. CASE o = s
        <4>1. PageOf(o)' = p /\ OnPage(o)' = DOMAIN p /\ i_sync'[o].after = i_sync[s].after
          BY <2>1, <2>3, <3>2 DEF OnPage, PageOf
        <4> QED
          BY <4>1, <1>1, <1>2, <1>4, <1>6 DEF LastSeq
      <3> QED
        BY <3>1, <3>2
    <2>8. Caught'
      <3>1. \A o \in Calls : \A i \in OnPage(o)' :
              \/ i \in OnPage(o) /\ PageOf(o)'[i] = PageOf(o)[i]
              \/ PageOf(o)'[i].fold.seq = i_fold[PageOf(o)'[i].id].seq
        BY <1>2, <2>1, <2>3 DEF OnPage, PageOf
      <3> QED
        BY <1>4, <3>1 DEF InboxInv, Caught
    <2> QED
      BY <2>4, <2>5, <2>6, <2>7, <2>8 DEF InboxInv
  <1> QED
    BY <1>5, <1>6

\* What leaves versions, pages and the watermark alone, and of rows no more than
\* marks them read.
LEMMA ReadInbox ==
  ASSUME InboxInv, NEW S \in SUBSET Inbox!Unread, Inbox!ReadHere(S), i_upTo' \in Nat, i_forward' \subseteq Folds,
         UNCHANGED <<i_fold, i_known, i_cursor, i_sync, i_missed, i_raced>>
  PROVE  InboxInv'
  <1>1. \A n \in S : n \in Folds /\ i_row[n].seq # 0
    BY DEF Inbox!Unread, InboxInv, InboxShape, Copy
  <1>2. \A n \in Folds :
          /\ i_row'[n] \in Copy /\ i_row'[n].seq = i_row[n].seq
          /\ i_row'[n].read <=> i_row[n].read \/ n \in S
          /\ i_seen'[n] = IF n \in S THEN i_row[n].seq ELSE i_seen[n]
    BY DEF Inbox!ReadHere, InboxInv, InboxShape, Copy
  <1>3. InboxShape'
    <2>1. i_row' \in [Folds -> Copy] /\ i_seen' \in [Folds -> Nat]
      BY <1>2 DEF Inbox!ReadHere, InboxInv, InboxShape, Copy
    <2> QED
      BY <2>1 DEF InboxInv, InboxShape, PageOf
  <1>4. Versions'
    BY <1>1, <1>2 DEF InboxInv, Versions
  <1>5. Carried'
    BY DEF InboxInv, Carried, OnPage, PageOf
  <1>6. Complete'
    BY DEF InboxInv, Complete, OnPage, PageOf, LastSeq
  <1>7. Caught'
    BY <1>2 DEF InboxInv, Caught, OnPage, PageOf
  <1> QED
    BY <1>3, <1>4, <1>5, <1>6, <1>7 DEF InboxInv

LEMMA ReaderSteps ==
  ASSUME InboxInv, Inbox!MarkAsRead \/ Inbox!OpenWall \/ Inbox!MarkThreadRead \/ Inbox!SignIn
  PROVE  InboxInv'
  <1>1. CASE Inbox!MarkAsRead
    <2>1. Inbox!Unread \in SUBSET Inbox!Unread /\ Inbox!Unread \subseteq Folds
      BY DEF Inbox!Unread
    <2> QED
      BY <1>1, <2>1, ReadInbox DEF Inbox!MarkAsRead, InboxInv, InboxShape
  <1>2. CASE Inbox!MarkThreadRead
    <2>1. {n \in Inbox!Unread : i_row[n].seq <= i_upTo} \in SUBSET Inbox!Unread
      OBVIOUS
    <2> QED
      BY <1>2, <2>1, ReadInbox DEF Inbox!MarkThreadRead, InboxInv, InboxShape
  <1>3. CASE Inbox!OpenWall \/ Inbox!SignIn
    <2>1. /\ i_upTo' \in Nat /\ i_known' \in BOOLEAN
          /\ UNCHANGED <<i_fold, i_row, i_cursor, i_sync, i_forward, i_seen, i_missed, i_raced>>
      BY <1>3, NewestSeq DEF Inbox!OpenWall, Inbox!SignIn, InboxInv, InboxShape
    <2>2. InboxShape'
      BY <2>1 DEF InboxInv, InboxShape, PageOf
    <2>3. Versions'
      BY <2>1 DEF InboxInv, Versions
    <2>4. Carried'
      BY <2>1 DEF InboxInv, Carried, OnPage, PageOf
    <2>5. Complete'
      BY <2>1 DEF InboxInv, Complete, OnPage, PageOf, LastSeq
    <2>6. Caught'
      BY <2>1 DEF InboxInv, Caught, OnPage, PageOf
    <2> QED
      BY <2>2, <2>3, <2>4, <2>5, <2>6 DEF InboxInv
  <1> QED
    BY <1>1, <1>2, <1>3

\* A read that community is told of changes no version.
LEMMA ForwardInbox ==
  ASSUME InboxInv, NEW n \in Folds, NEW lost \in BOOLEAN, Inbox!ForwardRead(n, lost)
  PROVE  InboxInv'
  <1>1. /\ i_fold' \in [Folds -> Fold]
        /\ \A m \in Folds : i_fold'[m].seq = i_fold[m].seq /\ i_fold'[m].items = i_fold[m].items
    BY DEF Inbox!ForwardRead, InboxInv, InboxShape, Fold
  <1>2. i_forward' \subseteq Folds
        /\ UNCHANGED <<i_known, i_row, i_cursor, i_sync, i_upTo, i_seen, i_missed, i_raced>>
    BY DEF Inbox!ForwardRead, InboxInv, InboxShape
  <1>3. InboxShape'
    BY <1>1, <1>2 DEF InboxInv, InboxShape, PageOf
  <1>4. Versions'
    BY <1>1, <1>2 DEF InboxInv, Versions
  <1>5. \A s \in Calls : \A i \in OnPage(s) : PageOf(s)[i].id \in Folds
    BY ItemTypes DEF InboxInv
  <1>6. Carried'
    BY <1>1, <1>2, <1>5 DEF InboxInv, Carried, OnPage, PageOf
  <1>7. Complete'
    BY <1>1, <1>2 DEF InboxInv, Complete, OnPage, PageOf, LastSeq
  <1>8. Caught'
    BY <1>1, <1>2 DEF InboxInv, Caught, OnPage, PageOf
  <1> QED
    BY <1>3, <1>4, <1>6, <1>7, <1>8 DEF InboxInv

\* A new version is newer than all that is known of its fold, behind no
\* watermark and on no page.
LEMMA UpdateInbox ==
  ASSUME InboxInv, NEW n \in Folds, NEW items \in {0, 1}, Inbox!Update(n, items)
  PROVE  InboxInv'
  <1> DEFINE top == Inbox!Newest + 1
  <1>1. top \in Nat /\ top # 0 /\ \A m \in Folds : i_fold[m].seq < top /\ i_fold[m].seq \in Nat
    <2>1. \A m \in Folds : i_fold[m].seq \in Nat
      BY DEF InboxInv, InboxShape, Fold
    <2> QED
      BY <2>1, NewestSeq DEF InboxInv
  <1>2. i_fold' = [i_fold EXCEPT ![n] = [seq |-> top, items |-> items, read |-> FALSE]]
        /\ UNCHANGED <<i_known, i_row, i_cursor, i_sync, i_forward, i_upTo, i_seen, i_missed, i_raced>>
    BY DEF Inbox!Update
  <1> HIDE DEF top
  <1>3. /\ i_fold' \in [Folds -> Fold] /\ i_fold'[n].seq = top /\ i_fold'[n].items = items
        /\ \A m \in Folds : m # n => i_fold'[m] = i_fold[m]
    BY <1>1, <1>2 DEF InboxInv, InboxShape, Fold
  <1>4. i_cursor < top
    <2>1. PICK m \in Folds : i_cursor <= i_fold[m].seq
      BY DEF InboxInv, Caught
    <2> QED
      BY <2>1, <1>1 DEF InboxInv, InboxShape
  <1>5. \A s \in Calls : \A i \in OnPage(s) : PageOf(s)[i].id \in Folds /\ PageOf(s)[i].fold.seq \in Nat
    BY ItemTypes DEF InboxInv
  <1>6. \A s \in Calls : \A i \in OnPage(s) : PageOf(s)[i].fold.seq < top
    BY <1>1, <1>5 DEF InboxInv, Carried
  <1>7. InboxShape'
    BY <1>2, <1>3 DEF InboxInv, InboxShape, PageOf
  <1>8. Versions'
    <2>1. \A m \in Folds : i_row[m].seq \in Nat /\ i_seen[m] \in Nat /\ i_missed[m] \in Nat
      BY DEF InboxInv, InboxShape, Copy
    <2>2. i_row[n].seq < top /\ i_seen[n] < top /\ i_missed[n] < top
      BY <2>1, <1>1 DEF InboxInv, Versions
    <2>3. \A m, o \in Folds : i_fold'[m].seq = i_fold'[o].seq /\ i_fold'[m].seq # 0 => m = o
      BY <1>1, <1>3 DEF InboxInv, Versions
    <2>4. \A m \in Folds :
            /\ i_row'[m].seq <= i_fold'[m].seq /\ i_seen'[m] <= i_fold'[m].seq /\ i_missed'[m] <= i_fold'[m].seq
            /\ i_row'[m].seq = 0 => ~i_row'[m].read
            /\ i_row'[m].seq = i_fold'[m].seq /\ i_row'[m].seq # 0 => i_fold'[m].items = 1
            /\ i_fold'[m].items = 1 => i_fold'[m].seq # 0
            /\ i_seen'[m] = i_fold'[m].seq /\ i_seen'[m] # 0 => i_row'[m].seq = i_fold'[m].seq /\ i_row'[m].read
      <3> SUFFICES ASSUME NEW m \in Folds
                   PROVE  /\ i_row[m].seq <= i_fold'[m].seq /\ i_seen[m] <= i_fold'[m].seq /\ i_missed[m] <= i_fold'[m].seq
                          /\ i_row[m].seq = 0 => ~i_row[m].read
                          /\ i_row[m].seq = i_fold'[m].seq /\ i_row[m].seq # 0 => i_fold'[m].items = 1
                          /\ i_fold'[m].items = 1 => i_fold'[m].seq # 0
                          /\ i_seen[m] = i_fold'[m].seq /\ i_seen[m] # 0 =>
                               i_row[m].seq = i_fold'[m].seq /\ i_row[m].read
        BY <1>2
      <3>1. CASE m = n
        BY <3>1, <2>1, <2>2, <1>1, <1>3 DEF InboxInv, Versions
      <3>2. CASE m # n
        BY <3>2, <1>3 DEF InboxInv, Versions
      <3> QED
        BY <3>1, <3>2
    <2> QED
      BY <2>3, <2>4 DEF Versions
  <1>9. Carried'
    <2> SUFFICES ASSUME NEW s \in Calls, NEW i \in OnPage(s)'
                 PROVE  (LET x == PageOf(s)[i] IN
                         /\ 0 < x.fold.seq /\ x.fold.seq <= i_fold[x.id].seq
                         /\ x.fold.seq = i_fold[x.id].seq => x.fold.items = i_fold[x.id].items
                         /\ \A j \in OnPage(s) : PageOf(s)[j].id = x.id => i = j)'
      BY DEF Carried
    <2>1. PageOf(s)' = PageOf(s) /\ OnPage(s)' = OnPage(s) /\ i \in OnPage(s)
      BY <1>2 DEF PageOf, OnPage
    <2> DEFINE x == PageOf(s)[i]
    <2>2. /\ 0 < x.fold.seq /\ x.fold.seq <= i_fold[x.id].seq
          /\ x.fold.seq = i_fold[x.id].seq => x.fold.items = i_fold[x.id].items
          /\ \A j \in OnPage(s) : PageOf(s)[j].id = x.id => i = j
      BY <2>1 DEF InboxInv, Carried
    <2>3. x.id \in Folds /\ x.fold.seq \in Nat /\ x.fold.seq < top
      BY <2>1, <1>5, <1>6
    <2>4. CASE x.id = n
      BY <2>1, <2>2, <2>3, <2>4, <1>1, <1>3
    <2>5. CASE x.id # n
      BY <2>1, <2>2, <2>3, <2>5, <1>3
    <2> QED
      BY <2>4, <2>5
  <1>10. Complete'
    <2> SUFFICES ASSUME NEW s \in Calls
                 PROVE  (/\ i_sync[s].after <= i_cursor
                         /\ PageOf(s) # <<>> =>
                              \A m \in Folds : i_sync[s].after < i_fold[m].seq /\ i_fold[m].seq <= LastSeq(s) =>
                                \E i \in OnPage(s) : PageOf(s)[i].id = m /\ PageOf(s)[i].fold.seq = i_fold[m].seq)'
      BY DEF Complete
    <2>1. /\ PageOf(s)' = PageOf(s) /\ OnPage(s)' = OnPage(s) /\ LastSeq(s)' = LastSeq(s)
          /\ i_sync' = i_sync /\ i_cursor' = i_cursor
      BY <1>2 DEF PageOf, OnPage, LastSeq
    <2>2. PageOf(s) # <<>> => LastSeq(s) < top /\ LastSeq(s) \in Nat
      BY <1>6, ItemTypes DEF InboxInv, LastSeq
    <2>3. /\ i_sync[s].after <= i_cursor
          /\ PageOf(s) # <<>> =>
               \A m \in Folds : i_sync[s].after < i_fold[m].seq /\ i_fold[m].seq <= LastSeq(s) =>
                 \E i \in OnPage(s) : PageOf(s)[i].id = m /\ PageOf(s)[i].fold.seq = i_fold[m].seq
      BY DEF InboxInv, Complete
    <2>4. PageOf(s) # <<>> =>
            \A m \in Folds : i_sync[s].after < i_fold'[m].seq /\ i_fold'[m].seq <= LastSeq(s) =>
              m # n /\ i_fold'[m] = i_fold[m]
      BY <2>2, <1>1, <1>3
    <2> QED
      BY <2>1, <2>3, <2>4
  <1>11. Caught'
    <2>1. \E m \in Folds : i_cursor <= i_fold'[m].seq
      BY <1>1, <1>3, <1>4 DEF InboxInv, InboxShape
    <2>2. \A m \in Folds : i_fold'[m].seq <= i_cursor => i_fold'[m] = i_fold[m]
      BY <1>1, <1>3, <1>4 DEF InboxInv, InboxShape
    <2> QED
      BY <1>2, <2>1, <2>2 DEF InboxInv, Caught, OnPage, PageOf
  <1> QED
    BY <1>7, <1>8, <1>9, <1>10, <1>11 DEF InboxInv

\* What a page says of a fold: the one entry of it.
Says(s) == [n \in {PageOf(s)[i].id : i \in OnPage(s)} |->
             (CHOOSE x \in Inbox!Range(PageOf(s)) : x.id = n).fold]
LEMMA PageSays ==
  ASSUME InboxShape, Carried, NEW s \in Calls
  PROVE  /\ DOMAIN Says(s) \subseteq Folds
         /\ \A i \in OnPage(s) : PageOf(s)[i].id \in DOMAIN Says(s) /\ Says(s)[PageOf(s)[i].id] = PageOf(s)[i].fold
         /\ \A n \in DOMAIN Says(s) :
              /\ \E i \in OnPage(s) : PageOf(s)[i].id = n /\ Says(s)[n] = PageOf(s)[i].fold
              /\ Says(s)[n] \in Fold /\ 0 < Says(s)[n].seq /\ Says(s)[n].seq <= i_fold[n].seq
              /\ Says(s)[n].seq = i_fold[n].seq => Says(s)[n].items = i_fold[n].items
  <1> DEFINE p == PageOf(s)
  <1>1. \A i \in OnPage(s) : p[i] \in Inbox!Range(p)
    BY DEF Inbox!Range, OnPage, PageOf
  <1>2. \A x \in Inbox!Range(p) : \E i \in OnPage(s) : x = p[i]
    BY DEF Inbox!Range, OnPage, PageOf
  <1>3. \A i, j \in OnPage(s) : p[j].id = p[i].id => i = j
    BY DEF Carried
  <1>4. ASSUME NEW i \in OnPage(s) PROVE (CHOOSE x \in Inbox!Range(p) : x.id = p[i].id) = p[i]
    <2> DEFINE c == CHOOSE x \in Inbox!Range(p) : x.id = p[i].id
    <2>1. c \in Inbox!Range(p) /\ c.id = p[i].id
      BY <1>1
    <2>2. PICK j \in OnPage(s) : c = p[j]
      BY <1>2, <2>1
    <2>3. p[j].id = p[i].id
      BY <2>1, <2>2
    <2>4. i = j
      BY <2>3, <1>3
    <2> QED
      BY <2>2, <2>4
  <1>5. \A i \in OnPage(s) : p[i].id \in DOMAIN Says(s) /\ Says(s)[p[i].id] = p[i].fold
    BY <1>4 DEF Says
  <1>6. \A n \in DOMAIN Says(s) : \E i \in OnPage(s) : p[i].id = n
    BY DEF Says
  <1> HIDE DEF p
  <1>7. \A i \in OnPage(s) : /\ p[i].id \in Folds /\ p[i].fold \in Fold
                             /\ 0 < p[i].fold.seq /\ p[i].fold.seq <= i_fold[p[i].id].seq
                             /\ p[i].fold.seq = i_fold[p[i].id].seq => p[i].fold.items = i_fold[p[i].id].items
    BY ItemTypes DEF Carried, p
  <1>8. \A n \in DOMAIN Says(s) : n \in Folds
    BY <1>6, <1>7
  <1>9. ASSUME NEW n \in DOMAIN Says(s)
        PROVE  /\ \E i \in OnPage(s) : p[i].id = n /\ Says(s)[n] = p[i].fold
               /\ Says(s)[n] \in Fold /\ 0 < Says(s)[n].seq /\ Says(s)[n].seq <= i_fold[n].seq
               /\ Says(s)[n].seq = i_fold[n].seq => Says(s)[n].items = i_fold[n].items
    <2>1. PICK i \in OnPage(s) : p[i].id = n
      BY <1>6, <1>9
    <2>2. Says(s)[n] = p[i].fold
      BY <1>5, <2>1
    <2> QED
      BY <1>7, <2>1, <2>2
  <1> QED
    BY <1>5, <1>8, <1>9 DEF p

\* What a page writes, row by row.
LEMMA ApplyRow ==
  ASSUME InboxShape, Versions, Carried, NEW s \in Calls, Inbox!ApplyPage(s), NEW n \in Folds
  PROVE  /\ i_row'[n] \in Copy /\ i_missed'[n] \in Nat
         /\ i_row'[n].seq <= i_fold[n].seq /\ i_missed'[n] <= i_fold[n].seq
         /\ i_row'[n].seq = 0 => ~i_row'[n].read
         /\ i_row'[n].seq = i_fold[n].seq /\ i_row'[n].seq # 0 => i_fold[n].items = 1
         /\ i_row[n].seq = i_fold[n].seq /\ i_row[n].seq # 0 =>
              i_row'[n].seq = i_row[n].seq /\ (i_row[n].read => i_row'[n].read)
         /\ i_missed[n] <= i_missed'[n]
         /\ n \notin DOMAIN Says(s) => i_row'[n] = i_row[n]
         /\ n \in DOMAIN Says(s) /\ Says(s)[n].seq = i_fold[n].seq =>
              /\ i_fold[n].items = 1 => i_row'[n].seq = i_fold[n].seq \/ i_missed'[n] = i_fold[n].seq
              /\ i_fold[n].items = 0 => i_row'[n].seq = 0
  <1> DEFINE f == Says(s)[n]
             r == i_row[n]
  <1>1. /\ i_row'[n] = IF n \in DOMAIN Says(s) THEN Inbox!Written(r, f) ELSE r
        /\ i_missed'[n] = IF n \in DOMAIN Says(s) /\ ~i_known THEN Inbox!Max({i_missed[n], f.seq}) ELSE i_missed[n]
    <2>1. DOMAIN Says(s) = {PageOf(s)[i].id : i \in OnPage(s)}
      BY DEF Says
    <2> QED
      BY <2>1 DEF Inbox!ApplyPage, Says, PageOf, OnPage
  <1> HIDE DEF f, r
  <1>2. /\ r \in Copy /\ r.seq \in Nat /\ r.read \in BOOLEAN /\ i_missed[n] \in Nat /\ i_known \in BOOLEAN
        /\ i_fold[n].seq \in Nat /\ i_fold[n].items \in {0, 1}
    BY DEF InboxShape, Copy, Fold, r
  <1>3. /\ r.seq <= i_fold[n].seq /\ i_missed[n] <= i_fold[n].seq /\ (r.seq = 0 => ~r.read)
        /\ r.seq = i_fold[n].seq /\ r.seq # 0 => i_fold[n].items = 1
    BY DEF Versions, r
  <1>4. n \in DOMAIN Says(s) => /\ f \in Fold /\ f.seq \in Nat /\ f.items \in {0, 1} /\ f.read \in BOOLEAN
                                /\ 0 < f.seq /\ f.seq <= i_fold[n].seq
                                /\ f.seq = i_fold[n].seq => f.items = i_fold[n].items
    BY PageSays DEF f, Fold
  <1>5. CASE n \notin DOMAIN Says(s)
    BY <1>1, <1>2, <1>3, <1>5 DEF r
  <1>6. CASE n \in DOMAIN Says(s)
    <2>1. i_missed'[n] = IF ~i_known /\ i_missed[n] < f.seq THEN f.seq ELSE i_missed[n]
      BY <1>1, <1>2, <1>4, <1>6, MaxOfTwo
    <2>2. CASE f.items = 0
      <3>1. i_row'[n] = IF r.seq < f.seq THEN [seq |-> 0, read |-> FALSE] ELSE r
        BY <1>1, <1>6, <2>2 DEF Inbox!Written, Inbox!Retracted, Inbox!NoRow
      <3>2. CASE r.seq < f.seq
        <4>1. i_row'[n] \in Copy /\ i_row'[n].seq = 0 /\ ~i_row'[n].read
          BY <3>1, <3>2 DEF Copy
        <4> QED
          BY <4>1, <3>2, <2>1, <2>2, <1>2, <1>3, <1>4, <1>6 DEF r, f
      <3>3. CASE ~(r.seq < f.seq)
        BY <3>1, <3>3, <2>1, <2>2, <1>2, <1>3, <1>4, <1>6 DEF r, f
      <3> QED
        BY <3>2, <3>3
    <2>3. CASE f.items = 1 /\ i_known
      <3>1. i_row'[n] = Inbox!Upserted(r, f)
        BY <1>1, <1>6, <2>3 DEF Inbox!Written
      <3>2. CASE f.seq > r.seq
        <4>1. i_row'[n] = [seq |-> f.seq, read |-> f.read]
          BY <3>1, <3>2, <1>2, <1>4, <1>6 DEF Inbox!Upserted
        <4>2. i_row'[n] \in Copy /\ i_row'[n].seq = f.seq
          BY <4>1, <1>4, <1>6 DEF Copy
        <4> QED
          BY <4>2, <3>2, <2>1, <2>3, <1>2, <1>3, <1>4, <1>6 DEF r, f
      <3>3. CASE f.seq = r.seq
        <4>1. i_row'[n] = [r EXCEPT !.read = @ \/ f.read]
          BY <3>1, <3>3, <1>2, <1>4, <1>6 DEF Inbox!Upserted
        <4>2. i_row'[n] \in Copy /\ i_row'[n].seq = r.seq /\ (r.read => i_row'[n].read)
          BY <4>1, <1>2, <1>4, <1>6 DEF Copy
        <4> QED
          BY <4>2, <3>3, <2>1, <2>3, <1>2, <1>3, <1>4, <1>6 DEF r, f
      <3>4. CASE f.seq < r.seq
        <4>1. i_row'[n] = r
          BY <3>1, <3>4, <1>2, <1>4, <1>6 DEF Inbox!Upserted
        <4> QED
          BY <4>1, <3>4, <2>1, <2>3, <1>2, <1>3, <1>4, <1>6 DEF r, f
      <3> QED
        BY <3>2, <3>3, <3>4, <1>2, <1>4, <1>6
    <2>4. CASE f.items = 1 /\ ~i_known
      <3>1. i_row'[n] = r
        BY <1>1, <1>6, <2>4 DEF Inbox!Written
      <3> QED
        BY <3>1, <2>1, <2>4, <1>2, <1>3, <1>4, <1>6 DEF r, f
    <2> QED
      BY <2>2, <2>3, <2>4, <1>2, <1>4, <1>6
  <1> QED
    BY <1>5, <1>6

\* The end of a page is no newer than the newest version.
LEMMA EndOfPage ==
  ASSUME InboxShape, Carried, NEW s \in Calls, PageOf(s) # <<>>
  PROVE  LastSeq(s) \in Nat /\ \E n \in Folds : LastSeq(s) <= i_fold[n].seq
  <1> DEFINE k == Len(PageOf(s))
  <1>1. k \in OnPage(s) /\ LastSeq(s) \in Nat /\ PageOf(s)[k].id \in Folds
    BY ItemTypes
  <1>2. PageOf(s)[k].fold.seq <= i_fold[PageOf(s)[k].id].seq
    BY <1>1 DEF Carried
  <1> QED
    BY <1>1, <1>2 DEF LastSeq

\* A page is written with the watermark.
LEMMA ApplyInbox ==
  ASSUME InboxInv, NEW s \in Calls, Inbox!ApplyPage(s)
  PROVE  InboxInv'
  <1> DEFINE next == LastSeq(s)
  <1>1. InboxShape /\ Versions /\ Carried /\ Complete /\ Caught
    BY DEF InboxInv
  <1>2. PageOf(s) # <<>> /\ next \in Nat /\ \E n \in Folds : next <= i_fold[n].seq
    <2>1. PageOf(s) # <<>>
      BY <1>1 DEF InboxShape, Inbox!ApplyPage
    <2> QED
      BY <1>1, <2>1, EndOfPage
  <1>3. PICK v : i_sync' = [i_sync EXCEPT ![s] = v] /\ v \in Fetcher /\ v.page = <<>> /\ v.at # "fetched"
                 /\ (v.after = next \/ v.after = 0)
    <2>1. next = Inbox!Last(i_sync[s].page).fold.seq
      BY DEF LastSeq, PageOf, Inbox!Last
    <2> DEFINE w == [at |-> "reading", after |-> next, page |-> <<>>]
    <2>2. Inbox!NoSync \in Fetcher /\ Inbox!NoSync.page = <<>> /\ Inbox!NoSync.at # "fetched" /\ Inbox!NoSync.after = 0
      BY DEF Fetcher, Inbox!NoSync
    <2>3. w \in Fetcher /\ w.page = <<>> /\ w.at # "fetched" /\ w.after = next
      BY <1>2 DEF Fetcher
    <2>4. i_sync' = [i_sync EXCEPT ![s] = IF Len(i_sync[s].page) < FeedPage THEN Inbox!NoSync ELSE w]
      BY <2>1 DEF Inbox!ApplyPage
    <2> HIDE DEF w, next
    <2>5. CASE Len(i_sync[s].page) < FeedPage
      <3>1. i_sync' = [i_sync EXCEPT ![s] = Inbox!NoSync]
        BY <2>4, <2>5
      <3> QED
        BY <2>2, <3>1
    <2>6. CASE ~(Len(i_sync[s].page) < FeedPage)
      <3>1. i_sync' = [i_sync EXCEPT ![s] = w]
        BY <2>4, <2>6
      <3> QED
        BY <2>3, <3>1
    <2> QED
      BY <2>5, <2>6
  <1>4. /\ i_cursor' \in Nat /\ i_cursor <= i_cursor' /\ next <= i_cursor' /\ (i_cursor' = i_cursor \/ i_cursor' = next)
        /\ i_cursor \in Nat
    <2>1. i_cursor' = Inbox!Max({i_cursor, next}) /\ i_cursor \in Nat
      BY <1>1 DEF Inbox!ApplyPage, InboxShape, LastSeq, PageOf, Inbox!Last
    <2> HIDE DEF next
    <2> QED
      BY <2>1, <1>2, MaxOfTwo
  <1>5. UNCHANGED <<i_fold, i_known, i_forward, i_upTo, i_seen>>
    BY DEF Inbox!ApplyPage
  <1>6. /\ i_sync'[s] = v /\ PageOf(s)' = <<>> /\ OnPage(s)' = {}
        /\ \A o \in Calls : o # s => i_sync'[o] = i_sync[o] /\ PageOf(o)' = PageOf(o) /\ OnPage(o)' = OnPage(o)
                                     /\ LastSeq(o)' = LastSeq(o)
    BY <1>1, <1>3 DEF InboxShape, PageOf, OnPage, LastSeq
  <1>7. \A n \in Folds :
          /\ i_row'[n] \in Copy /\ i_missed'[n] \in Nat
          /\ i_row'[n].seq <= i_fold[n].seq /\ i_missed'[n] <= i_fold[n].seq
          /\ i_row'[n].seq = 0 => ~i_row'[n].read
          /\ i_row'[n].seq = i_fold[n].seq /\ i_row'[n].seq # 0 => i_fold[n].items = 1
          /\ i_row[n].seq = i_fold[n].seq /\ i_row[n].seq # 0 =>
               i_row'[n].seq = i_row[n].seq /\ (i_row[n].read => i_row'[n].read)
          /\ i_missed[n] <= i_missed'[n]
          /\ n \notin DOMAIN Says(s) => i_row'[n] = i_row[n]
          /\ n \in DOMAIN Says(s) /\ Says(s)[n].seq = i_fold[n].seq =>
               /\ i_fold[n].items = 1 => i_row'[n].seq = i_fold[n].seq \/ i_missed'[n] = i_fold[n].seq
               /\ i_fold[n].items = 0 => i_row'[n].seq = 0
    BY <1>1, ApplyRow
  <1>8. i_raced' \subseteq Folds /\ i_raced \subseteq i_raced'
        /\ \A n \in DOMAIN Says(s) \ i_raced' : Says(s)[n].items = 0 =>
             \A o \in Calls \ {s} : \A i \in OnPage(o) : PageOf(o)[i].id = n => ~(PageOf(o)[i].fold.seq < Says(s)[n].seq)
    <2>1. DOMAIN Says(s) = {PageOf(s)[i].id : i \in OnPage(s)}
      BY DEF Says
    <2>2. i_raced' = i_raced \cup {n \in DOMAIN Says(s) : Says(s)[n].items = 0 /\ \E o \in Calls \ {s} :
                                     \E i \in OnPage(o) : PageOf(o)[i].id = n /\ PageOf(o)[i].fold.seq < Says(s)[n].seq}
      BY <2>1 DEF Inbox!ApplyPage, Says, PageOf, OnPage
    <2>3. DOMAIN Says(s) \subseteq Folds /\ i_raced \subseteq Folds
      BY <1>1, PageSays DEF InboxShape
    <2> QED
      BY <2>2, <2>3
  <1>9. InboxShape'
    <2>1. i_row' \in [Folds -> Copy] /\ i_missed' \in [Folds -> Nat]
      BY <1>7 DEF Inbox!ApplyPage
    <2>2. i_sync' \in [Calls -> Fetcher]
      BY <1>1, <1>3 DEF InboxShape
    <2>3. \A o \in Calls : i_sync'[o].at = "fetched" <=> PageOf(o)' # <<>>
      BY <1>1, <1>3, <1>6 DEF InboxShape
    <2> QED
      BY <1>1, <1>4, <1>5, <1>8, <2>1, <2>2, <2>3 DEF InboxShape
  <1>10. Versions'
    <2>1. \A n \in Folds :
            i_seen[n] = i_fold[n].seq /\ i_seen[n] # 0 => i_row[n].seq = i_fold[n].seq /\ i_row[n].read
      BY <1>1 DEF Versions
    <2> QED
      BY <1>1, <1>5, <1>7, <2>1 DEF Versions
  <1>11. Carried'
    <2> SUFFICES ASSUME NEW o \in Calls, NEW i \in OnPage(o)'
                 PROVE  (LET x == PageOf(o)[i] IN
                         /\ 0 < x.fold.seq /\ x.fold.seq <= i_fold[x.id].seq
                         /\ x.fold.seq = i_fold[x.id].seq => x.fold.items = i_fold[x.id].items
                         /\ \A j \in OnPage(o) : PageOf(o)[j].id = x.id => i = j)'
      BY DEF Carried
    <2>1. o # s /\ i \in OnPage(o)
      BY <1>6
    <2>2. PageOf(o)' = PageOf(o) /\ OnPage(o)' = OnPage(o) /\ i_fold' = i_fold
      BY <2>1, <1>5, <1>6
    <2> QED
      BY <1>1, <2>1, <2>2 DEF Carried
  <1>12. Complete'
    <2> SUFFICES ASSUME NEW o \in Calls
                 PROVE  (/\ i_sync[o].after <= i_cursor
                         /\ PageOf(o) # <<>> =>
                              \A n \in Folds : i_sync[o].after < i_fold[n].seq /\ i_fold[n].seq <= LastSeq(o) =>
                                \E i \in OnPage(o) : PageOf(o)[i].id = n /\ PageOf(o)[i].fold.seq = i_fold[n].seq)'
      BY DEF Complete
    <2>1. CASE o = s
      BY <2>1, <1>2, <1>3, <1>4, <1>6
    <2>2. CASE o # s
      <3>1. /\ i_sync'[o] = i_sync[o] /\ PageOf(o)' = PageOf(o) /\ OnPage(o)' = OnPage(o)
            /\ LastSeq(o)' = LastSeq(o) /\ i_fold' = i_fold
        BY <2>2, <1>5, <1>6
      <3>2. i_sync[o].after \in Nat /\ i_sync[o].after <= i_cursor
        BY <1>1 DEF InboxShape, Fetcher, Complete
      <3>3. i_sync[o].after <= i_cursor'
        BY <3>2, <1>4
      <3> QED
        BY <1>1, <3>1, <3>3 DEF Complete
    <2> QED
      BY <2>1, <2>2
  <1>13. Caught'
    <2>1. \E n \in Folds : i_cursor' <= i_fold'[n].seq
      BY <1>1, <1>2, <1>4, <1>5 DEF Caught
    <2>2. ASSUME NEW n \in Folds, 0 < i_fold[n].seq, i_fold[n].seq <= i_cursor'
          PROVE  /\ i_fold[n].items = 1 => i_row'[n].seq = i_fold[n].seq \/ i_missed'[n] = i_fold[n].seq
                 /\ i_fold[n].items = 0 /\ n \notin i_raced' =>
                      /\ i_row'[n].seq = 0
                      /\ \A o \in Calls : \A i \in OnPage(o)' :
                           PageOf(o)'[i].id = n => PageOf(o)'[i].fold.seq = i_fold[n].seq
      <3>1. /\ i_fold[n].seq \in Nat /\ i_missed[n] \in Nat /\ i_missed'[n] \in Nat /\ i_row[n].seq \in Nat
            /\ i_missed'[n] <= i_fold[n].seq /\ i_missed[n] <= i_missed'[n] /\ i_missed[n] <= i_fold[n].seq
        BY <1>1, <1>7 DEF InboxShape, Fold, Copy, Versions
      <3>2. CASE i_fold[n].seq <= i_cursor
        <4>1. /\ i_fold[n].items = 1 => i_row[n].seq = i_fold[n].seq \/ i_missed[n] = i_fold[n].seq
              /\ i_fold[n].items = 0 /\ n \notin i_raced =>
                   /\ i_row[n].seq = 0
                   /\ \A o \in Calls : \A i \in OnPage(o) :
                        PageOf(o)[i].id = n => PageOf(o)[i].fold.seq = i_fold[n].seq
          BY <1>1, <2>2, <3>2 DEF Caught
        <4>2. i_fold[n].items = 1 => i_row'[n].seq = i_fold[n].seq \/ i_missed'[n] = i_fold[n].seq
          BY <4>1, <3>1, <1>7, <2>2
        <4>3. ASSUME i_fold[n].items = 0, n \notin i_raced'
              PROVE  /\ i_row'[n].seq = 0
                     /\ \A o \in Calls : \A i \in OnPage(o)' :
                          PageOf(o)'[i].id = n => PageOf(o)'[i].fold.seq = i_fold[n].seq
          <5>1. /\ i_row[n].seq = 0
                /\ \A o \in Calls : \A i \in OnPage(o) :
                     PageOf(o)[i].id = n => PageOf(o)[i].fold.seq = i_fold[n].seq
            BY <4>1, <4>3, <1>8
          <5>2. n \in DOMAIN Says(s) => Says(s)[n].seq = i_fold[n].seq
            BY <5>1, <1>1, PageSays
          <5>3. i_row'[n].seq = 0
            BY <5>1, <5>2, <4>3, <1>7
          <5>4. \A o \in Calls : \A i \in OnPage(o)' :
                  PageOf(o)'[i].id = n => PageOf(o)'[i].fold.seq = i_fold[n].seq
            BY <5>1, <1>6
          <5> QED
            BY <5>3, <5>4
        <4> QED
          BY <4>2, <4>3
      <3>3. CASE ~(i_fold[n].seq <= i_cursor)
        <4>1. i_sync[s].after < i_fold[n].seq /\ i_fold[n].seq <= next
          <5>1. i_sync[s].after \in Nat /\ i_sync[s].after <= i_cursor
            BY <1>1 DEF InboxShape, Fetcher, Complete
          <5> HIDE DEF next
          <5> QED
            BY <5>1, <3>1, <3>3, <2>2, <1>2, <1>4
        <4>2. PICK i \in OnPage(s) : PageOf(s)[i].id = n /\ PageOf(s)[i].fold.seq = i_fold[n].seq
          BY <4>1, <1>1, <1>2 DEF Complete
        <4>3. n \in DOMAIN Says(s) /\ Says(s)[n].seq = i_fold[n].seq /\ Says(s)[n].items = i_fold[n].items
          BY <4>2, <1>1, PageSays
        <4>4. \A o \in Calls \ {s} : \A j \in OnPage(o) :
                PageOf(o)[j].id = n => PageOf(o)[j].fold.seq \in Nat /\ PageOf(o)[j].fold.seq <= i_fold[n].seq
          BY <1>1, ItemTypes DEF Carried
        <4>5. ASSUME i_fold[n].items = 0, n \notin i_raced', NEW o \in Calls, NEW j \in OnPage(o)', PageOf(o)'[j].id = n
              PROVE  PageOf(o)'[j].fold.seq = i_fold[n].seq
          <5>1. o # s /\ j \in OnPage(o) /\ PageOf(o)' = PageOf(o) /\ PageOf(o)[j].id = n
            BY <4>5, <1>6
          <5>2. ~(PageOf(o)[j].fold.seq < i_fold[n].seq)
            BY <5>1, <4>3, <4>5, <1>8
          <5>3. PageOf(o)[j].fold.seq \in Nat /\ PageOf(o)[j].fold.seq <= i_fold[n].seq
            BY <5>1, <4>4
          <5> QED
            BY <5>1, <5>2, <5>3, <3>1
        <4> QED
          BY <4>3, <4>5, <1>7
      <3> QED
        BY <3>2, <3>3
    <2> QED
      BY <1>5, <2>1, <2>2 DEF Caught
  <1> QED
    BY <1>9, <1>10, <1>11, <1>12, <1>13 DEF InboxInv

LEMMA NextInbox == InboxInv /\ [Inbox!Next]_inboxVars => InboxInv'
  <1> SUFFICES ASSUME InboxInv, [Inbox!Next]_inboxVars PROVE InboxInv'
    OBVIOUS
  <1>1. CASE UNCHANGED inboxVars
    <2>1. UNCHANGED <<i_fold, i_known, i_row, i_cursor, i_sync, i_forward, i_upTo, i_seen, i_missed, i_raced>>
      BY <1>1 DEF inboxVars
    <2>2. InboxShape' /\ Versions'
      BY <2>1 DEF InboxInv, InboxShape, Versions, PageOf
    <2>3. Carried' /\ Complete'
      BY <2>1 DEF InboxInv, Carried, Complete, OnPage, PageOf, LastSeq
    <2>4. Caught'
      BY <2>1 DEF InboxInv, Caught, OnPage, PageOf
    <2> QED
      BY <2>2, <2>3, <2>4 DEF InboxInv
  <1> QED
    BY <1>1, ReaderSteps, UpdateInbox, ForwardInbox, SyncSteps, FetchInbox, ApplyInbox DEF Inbox!Next

\* However syncs, retractions and reads interleave, for any number of syncs and
\* notifications and any size of page: with the watermark at the end of the feed
\* the inbox shows the newest version of each, read if that was read, and nothing
\* that was retracted, but for the races that are named (inbox.go).
THEOREM InboxSettles == SpecOfOne => []InboxSettled
  <1>1. InitOfOne => InboxInv
    BY InitInbox DEF InitOfOne
  <1>2. InboxInv /\ [NextOfOne]_allVars => InboxInv'
    <2> SUFFICES ASSUME InboxInv, [NextOfOne]_allVars PROVE InboxInv'
      OBVIOUS
    <2>1. [Inbox!Next]_inboxVars
      BY DEF NextOfOne, allVars, MergeOnly, TrustOnly, InboxOnly, UploadOnly, ShelfOnly, RolesOnly,
         LinksOnly, rows
    <2> QED
      BY <2>1, NextInbox
  <1>3. InboxInv => InboxSettled
    <2> SUFFICES ASSUME InboxInv, i_cursor = Inbox!Newest, NEW n \in Folds
                 PROVE  /\ i_fold[n].items > 0 /\ i_missed[n] # i_fold[n].seq =>
                             i_row[n].seq = i_fold[n].seq /\ (i_seen[n] = i_fold[n].seq => i_row[n].read)
                        /\ i_fold[n].items = 0 /\ n \notin i_raced => i_row[n] = Inbox!NoRow
      BY DEF InboxSettled, Inbox!InboxSettled
    <2>1. i_fold[n].seq \in Nat /\ i_fold[n].items \in {0, 1} /\ i_fold[n].seq <= i_cursor
      BY NewestSeq DEF InboxInv, InboxShape, Fold
    <2>2. /\ i_row[n].seq <= i_fold[n].seq /\ i_row[n] \in Copy
          /\ i_row[n].seq = 0 => ~i_row[n].read
          /\ i_fold[n].items = 1 => i_fold[n].seq # 0
          /\ i_seen[n] = i_fold[n].seq /\ i_seen[n] # 0 => i_row[n].seq = i_fold[n].seq /\ i_row[n].read
      BY DEF InboxInv, InboxShape, Versions
    <2>3. 0 < i_fold[n].seq =>
            /\ i_fold[n].items = 1 => i_row[n].seq = i_fold[n].seq \/ i_missed[n] = i_fold[n].seq
            /\ i_fold[n].items = 0 /\ n \notin i_raced => i_row[n].seq = 0
      BY <2>1 DEF InboxInv, Caught
    <2>4. i_row[n].seq = 0 => i_row[n] = Inbox!NoRow
      BY <2>2 DEF Copy, Inbox!NoRow
    <2>5. i_row[n].seq \in Nat
      BY <2>2 DEF Copy
    <2> QED
      BY <2>1, <2>2, <2>3, <2>4, <2>5
  <1> QED
    BY <1>1, <1>2, <1>3, PTL DEF SpecOfOne
==============================================================================
