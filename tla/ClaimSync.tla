------------------------------ MODULE ClaimSync ------------------------------
(***************************************************************************)
(* Claim events of catalog, applied to pages and notices:                  *)
(* internal/infrastructure/cron/claim_event_sync.go, and MarkIndexed of    *)
(* internal/patch/repository.                                              *)
(*                                                                         *)
(* Catalog moderates the claim on a work and lists each transition.  A     *)
(* sync reads the events behind its watermark and applies each with the    *)
(* watermark in one transaction; the cron does not keep two syncs apart,   *)
(* and neither does a deployment.  A page becomes public with a resource   *)
(* and is taken down by a ban.                                             *)
(*                                                                         *)
(* Abstractions.  The feed is pinned to one site and one sync reads it to  *)
(* its end in one fetch.  A notice is the event it is about.  Drafts and   *)
(* unknown states have no effect and are left out.                         *)
(* History: landing tells a write that came after a ban (late, spoilt).    *)
(***************************************************************************)
EXTENDS Integers, Sequences, FiniteSets, FiniteSetsExt

CONSTANTS
  Works,      \* catalog works
  Syncs,      \* runs of RunClaimEventSync that may overlap
  MaxEvents,  \* bound: transitions in catalog
  MaxFail     \* bound: syncs that die

VARIABLES
  claim,      \* external: the state of a work's claim
  log,        \* external: the transitions, an event's id is its place
  erased,     \* external: works merged away with their claim
  public,     \* patch.published of the works with a page
  processed,  \* claim_event_processed, by event id
  cursor,     \* cron_state.last_id, Unseeded before the first sync
  sync,       \* the events a sync has yet to apply
  notices,    \* user_message rows of type system about an event
  landing,    \* the UPDATE of MarkIndexed: no, fit, late or spoilt
  died        \* syncs that died so far

vars == <<claim, log, erased, public, processed, cursor, sync, notices, landing, died>>

Unseeded == -1
Ids == 1..MaxEvents
Flow == { <<"none", "pending">>, <<"none", "live">>, <<"pending", "live">>,
          <<"pending", "declined">>, <<"declined", "pending">>,
          <<"live", "hidden">>, <<"hidden", "live">> }
Idle == [todo |-> <<>>, anchored |-> {}]

-----------------------------------------------------------------------------
(* Catalog. *)

Transition(w, to) ==
  /\ Len(log) < MaxEvents /\ <<claim[w], to>> \in Flow
  /\ claim' = [claim EXCEPT ![w] = to]
  /\ log' = Append(log, [work |-> w, from |-> claim[w], to |-> to])
  /\ UNCHANGED <<erased, public, processed, cursor, sync, notices, landing, died>>

\* A merge erases the claim: its events lose their product_work_id.
Erase(w) ==
  /\ w \notin erased
  /\ erased' = erased \cup {w} /\ claim' = [claim EXCEPT ![w] = "none"]
  /\ UNCHANGED <<log, public, processed, cursor, sync, notices, landing, died>>

-----------------------------------------------------------------------------
(* The sync. *)

\* transitionEffect.
Effect(e) ==
  CASE e.to = "pending" -> "remember"
    [] e.to = "declined" -> "declined"
    [] e.to = "hidden" -> "banned"
    [] e.to = "live" /\ e.from = "pending" -> "approved"
    [] e.to = "live" /\ e.from = "hidden" -> "unbanned"
    [] OTHER -> "none"

\* The actor of the work's last submission this site has recorded.
HasSubmitter(w) == \E i \in processed : log[i].work = w /\ log[i].to = "pending"

LatestState(w) ==
  LET ids == {i \in processed : log[i].work = w}
  IN  IF ids = {} THEN "" ELSE log[Max(ids)].to

Seed ==
  /\ cursor = Unseeded
  /\ cursor' = Len(log)
  /\ UNCHANGED <<claim, log, erased, public, processed, sync, notices, landing, died>>

Fetch(s) ==
  /\ sync[s] = Idle /\ cursor # Unseeded /\ cursor < Len(log)
  /\ sync' = [sync EXCEPT ![s] =
       [todo |-> [i \in 1..(Len(log) - cursor) |-> cursor + i],
        anchored |-> Works \ erased]]
  /\ UNCHANGED <<claim, log, erased, public, processed, cursor, notices, landing, died>>

\* Mutant of Ignored: the insert does not say whether the event was new.
IgnoredNew(s, i) == Effect(log[i]) = "none" \/ log[i].work \notin sync[s].anchored

\* What applyClaimEvent leaves alone: no effect, no page anchor, or done before.
Ignored(s, i) ==
  \/ Effect(log[i]) = "none"
  \/ log[i].work \notin sync[s].anchored
  \/ i \in processed

\* Recorded without notice and without effect.
Unattributed(i) == Effect(log[i]) = "remember" \/ ~HasSubmitter(log[i].work)

\* Mutant of Advance: the watermark is the next id rather than the last.
AdvancePast(s) ==
  LET rest == Tail(sync[s].todo) IN
  /\ cursor' = Head(sync[s].todo) + 1
  /\ sync' = [sync EXCEPT ![s] = IF rest = <<>> THEN Idle ELSE [@ EXCEPT !.todo = rest]]
  /\ UNCHANGED <<claim, log, erased, died>>

Advance(s) ==
  LET rest == Tail(sync[s].todo) IN
  /\ cursor' = Head(sync[s].todo)
  /\ sync' = [sync EXCEPT ![s] = IF rest = <<>> THEN Idle ELSE [@ EXCEPT !.todo = rest]]
  /\ UNCHANGED <<claim, log, erased, died>>

SkipEvent(s) ==
  /\ sync[s] # Idle /\ Ignored(s, Head(sync[s].todo))
  /\ Advance(s)
  /\ UNCHANGED <<public, processed, notices, landing>>

\* Mutant of RecordEvent: an event nobody can be told about is an error.
RecordEventOrFail(s) ==
  LET i == Head(sync[s].todo) IN
  /\ sync[s] # Idle /\ ~Ignored(s, i) /\ Effect(log[i]) = "remember"
  /\ processed' = processed \cup {i}
  /\ Advance(s)
  /\ UNCHANGED <<public, notices, landing>>

RecordEvent(s) ==
  LET i == Head(sync[s].todo) IN
  /\ sync[s] # Idle /\ ~Ignored(s, i) /\ Unattributed(i)
  /\ processed' = processed \cup {i}
  /\ Advance(s)
  /\ UNCHANGED <<public, notices, landing>>

\* A ban commits: what was judged before it is late, what was spoilt is mended.
Overtaken(l) == CASE l = "fit" -> "late" [] l = "spoilt" -> "no" [] OTHER -> l

ApplyEvent(s) ==
  LET i == Head(sync[s].todo) IN
  /\ sync[s] # Idle /\ ~Ignored(s, i) /\ ~Unattributed(i)
  /\ processed' = processed \cup {i}
  /\ notices' = [notices EXCEPT ![i] = @ + 1]
  /\ public' = IF Effect(log[i]) = "banned" /\ log[i].work \in DOMAIN public
               THEN [public EXCEPT ![log[i].work] = FALSE] ELSE public
  /\ landing' = IF Effect(log[i]) = "banned"
                THEN [landing EXCEPT ![log[i].work] = Overtaken(@)] ELSE landing
  /\ Advance(s)

\* The process dies, or a call or a transaction fails.
Die(s) ==
  /\ sync[s] # Idle /\ died < MaxFail
  /\ died' = died + 1
  /\ sync' = [sync EXCEPT ![s] = Idle]
  /\ UNCHANGED <<claim, log, erased, public, processed, cursor, notices, landing>>

-----------------------------------------------------------------------------
(* Pages. *)

CreatePage(w) ==
  /\ w \notin DOMAIN public
  /\ public' = [x \in DOMAIN public \cup {w} |-> x # w /\ public[x]]
  /\ UNCHANGED <<claim, log, erased, processed, cursor, sync, notices, landing, died>>

\* Mutant of MarkIndexed: a resource publishes whatever the claim says.
MarkIndexedAlways(w) ==
  /\ w \in DOMAIN public /\ ~public[w] /\ landing[w] \in {"no", "spoilt"}
  /\ landing' = [landing EXCEPT ![w] = "fit"]
  /\ UNCHANGED <<claim, log, erased, public, processed, cursor, sync, notices, died>>

\* A resource lands: the snapshot of the UPDATE has a page to publish and no ban.
MarkIndexed(w) ==
  /\ w \in DOMAIN public /\ ~public[w] /\ landing[w] \in {"no", "spoilt"}
  /\ LatestState(w) # "hidden"
  /\ landing' = [landing EXCEPT ![w] = "fit"]
  /\ UNCHANGED <<claim, log, erased, public, processed, cursor, sync, notices, died>>

\* It writes, perhaps having waited for a ban that held the row: the events are
\* still those of its snapshot.
Indexed(w) ==
  /\ landing[w] \in {"fit", "late"}
  /\ public' = [public EXCEPT ![w] = TRUE]
  /\ landing' = [landing EXCEPT ![w] = IF @ = "late" THEN "spoilt" ELSE "no"]
  /\ UNCHANGED <<claim, log, erased, processed, cursor, sync, notices, died>>

-----------------------------------------------------------------------------
Init ==
  /\ claim = [w \in Works |-> "none"] /\ log = <<>> /\ erased = {}
  /\ public = [w \in {} |-> FALSE] /\ processed = {} /\ cursor = Unseeded
  /\ sync = [s \in Syncs |-> Idle] /\ notices = [i \in Ids |-> 0]
  /\ landing = [w \in Works |-> "no"] /\ died = 0

Step(s) == Fetch(s) \/ SkipEvent(s) \/ RecordEvent(s) \/ ApplyEvent(s)

Next ==
  \/ \E w \in Works : Erase(w) \/ CreatePage(w) \/ MarkIndexed(w) \/ Indexed(w)
  \/ \E w \in Works, to \in {"pending", "live", "declined", "hidden"} : Transition(w, to)
  \/ Seed
  \/ \E s \in Syncs : Step(s) \/ Die(s)

\* The cron fires for ever; of runs that overlap, some run gets on.
Fairness == WF_vars(Seed \/ \E s \in Syncs : Step(s))
Spec == Init /\ [][Next]_vars /\ Fairness

-----------------------------------------------------------------------------
TypeOK ==
  /\ claim \in [Works -> {"none", "pending", "live", "declined", "hidden"}]
  /\ Len(log) <= MaxEvents /\ \A i \in 1..Len(log) : <<log[i].from, log[i].to>> \in Flow
  /\ erased \subseteq Works /\ DOMAIN public \subseteq Works
  /\ processed \subseteq 1..Len(log) /\ cursor \in Unseeded..Len(log)
  /\ \A s \in Syncs : \A n \in DOMAIN sync[s].todo : sync[s].todo[n] \in 1..Len(log)
  /\ landing \in [Works -> {"no", "fit", "late", "spoilt"}]
  /\ notices \in [Ids -> 0..Cardinality(Syncs) + MaxFail] /\ died \in 0..MaxFail

\* However syncs overlap, die and move the watermark back, a submitter is told of
\* a decision once.
NoticedOnce == \A i \in Ids : notices[i] <= 1

\* A ban this site has recorded for a known submitter keeps the page down, also
\* against resources landing at any moment after, until the next event.  (Not
\* against one whose UPDATE was under way when the ban committed: spoilt.)
BannedStaysDown ==
  \A w \in DOMAIN public : 
    LatestState(w) = "hidden" /\ HasSubmitter(w) /\ landing[w] # "spoilt" => ~public[w]

\* Where every behaviour settles: no event holds back the ones behind it, and the
\* watermark reaches the end.
EventsFollowed == cursor = Len(log)
=============================================================================
