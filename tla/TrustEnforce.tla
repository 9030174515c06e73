------------------------------ MODULE TrustEnforce ------------------------------
(***************************************************************************)
(* Decisions of infra's trust service, enforced on resources:              *)
(* internal/trust/enforce, the callback of internal/trust/handler and the  *)
(* patch_resource adapter wired in internal/app.                           *)
(*                                                                         *)
(* Infra numbers its decisions and calls back for each, again after a      *)
(* failure and whenever it saw no answer, in any order.  A call            *)
(* claims the decision and moves the subject's watermark in one            *)
(* transaction, which makes another call on the same decision or the same  *)
(* subject wait; the adapter writes over its own connection, before that   *)
(* transaction commits.                                                    *)
(*                                                                         *)
(* The owner switches, deletes and edits: an edit saves every column of    *)
(* the row as it read it, the status with them.                            *)
(*                                                                         *)
(* Abstractions.  Warn, restrict and escalate have no local enforcement    *)
(* here and are one action, "other".  A resource's status is 0 "live",     *)
(* 1 "disabled", 2 "hidden", or "gone".  Of an edit only the status it     *)
(* read matters.  History variable: torn.                                  *)
(***************************************************************************)
EXTENDS Naturals, Sequences, FiniteSets

CONSTANTS
  Subjects,      \* resources
  Calls,         \* callback handlers that may run at once
  MaxDecisions,  \* bound: decisions of infra
  MaxReads       \* bound: different rows that edits have read

ASSUME TrustAssumption == MaxDecisions \in Nat /\ MaxReads \in Nat

VARIABLES
  decisions,  \* external: infra's dispositions, an id is its place
  call,       \* the callback a handler is running
  applied,    \* trust_disposition_applied
  mark,       \* trust_subject_watermark, 0 without a row
  status,     \* patch_resource.status
  edits,      \* the rows as edits have read them, any number of them each
  torn        \* resources an edit has put back over what became of them since it read

vars == <<decisions, call, applied, mark, status, edits, torn>>

Actions == {"hide", "remove", "dismiss", "other"}
Statuses == {"live", "disabled", "hidden", "gone"}
Ids == 1..Len(decisions)
NoCall == [id |-> 0, at |-> "idle"]

Subject(d) == decisions[d].on
Action(d) == decisions[d].action
SetsVisibility(d) == Action(d) # "other"

-----------------------------------------------------------------------------
(* Infra. *)

Decide(s, a) ==
  /\ Len(decisions) < MaxDecisions
  /\ decisions' = Append(decisions, [on |-> s, action |-> a])
  /\ UNCHANGED <<call, applied, mark, status, edits, torn>>

Deliver(c, d) ==
  /\ call[c] = NoCall
  /\ call' = [call EXCEPT ![c] = [id |-> d, at |-> "claim"]]
  /\ UNCHANGED <<decisions, applied, mark, status, edits, torn>>

-----------------------------------------------------------------------------
(* Apply. *)

\* The rows a transaction wrote are locked until it ends.
Holds(c) == call[c].at \in {"claimed", "acted"}
Conflict(d, e) == d = e \/ (SetsVisibility(d) /\ SetsVisibility(e) /\ Subject(d) = Subject(e))
Unlocked(c) == \A o \in Calls : Holds(o) => ~Conflict(call[c].id, call[o].id)

\* Mutant of Newer: a decision counts as new whatever its subject's watermark.
NewerAlways(d) == SetsVisibility(d)

Newer(d) == SetsVisibility(d) => d > mark[Subject(d)]

\* 200 to infra, which may not see it and call again.
Answer(c) == call' = [call EXCEPT ![c] = NoCall]

\* The ledger holds the decision already.
Replayed(c) ==
  /\ call[c].at = "claim" /\ call[c].id \in applied
  /\ Answer(c)
  /\ UNCHANGED <<decisions, applied, mark, status, edits, torn>>

\* A newer decision on the subject was applied: claimed and not run.
Superseded(c) ==
  /\ call[c].at = "claim" /\ Unlocked(c) /\ call[c].id \notin applied /\ ~Newer(call[c].id)
  /\ applied' = applied \cup {call[c].id}
  /\ Answer(c)
  /\ UNCHANGED <<decisions, mark, status, edits, torn>>

Claim(c) ==
  /\ call[c].at = "claim" /\ Unlocked(c) /\ call[c].id \notin applied /\ Newer(call[c].id)
  /\ call' = [call EXCEPT ![c].at = "claimed"]
  /\ UNCHANGED <<decisions, applied, mark, status, edits, torn>>

\* SetResourceStatus, DeleteResource (a missing one is enforced) and
\* RestoreResourceFromModHide.
Enforced(st, action) ==
  CASE action = "hide" -> IF st = "gone" THEN st ELSE "hidden"
    [] action = "remove" -> "gone"
    [] action = "dismiss" -> IF st = "hidden" THEN "live" ELSE st
    [] OTHER -> st

Act(c) ==
  LET s == Subject(call[c].id) IN
  /\ call[c].at = "claimed"
  /\ status' = [status EXCEPT ![s] = Enforced(@, Action(call[c].id))]
  /\ call' = [call EXCEPT ![c].at = "acted"]
  /\ torn' = IF SetsVisibility(call[c].id) THEN torn \ {s} ELSE torn
  /\ UNCHANGED <<decisions, applied, mark, edits>>

Commit(c) ==
  LET d == call[c].id IN
  /\ call[c].at = "acted"
  /\ applied' = applied \cup {d}
  /\ mark' = IF SetsVisibility(d) THEN [mark EXCEPT ![Subject(d)] = d] ELSE mark
  /\ Answer(c)
  /\ UNCHANGED <<decisions, status, edits, torn>>

\* The adapter, the commit or the process fails: the claim and the watermark
\* are rolled back, what the adapter did stays.
Fail(c) ==
  /\ call[c] # NoCall
  /\ call' = [call EXCEPT ![c] = NoCall]
  /\ UNCHANGED <<decisions, applied, mark, status, edits, torn>>

-----------------------------------------------------------------------------
(* The owner. *)

\* ToggleResourceStatus, which leaves a hidden resource as it is.
Toggled(st) == CASE st = "live" -> "disabled" [] st = "disabled" -> "live" [] OTHER -> st

Toggle(s) ==
  /\ status[s] \in {"live", "disabled"}
  /\ status' = [status EXCEPT ![s] = Toggled(@)]
  /\ UNCHANGED <<decisions, call, applied, mark, edits, torn>>

Delete(s) ==
  /\ status[s] # "gone"
  /\ status' = [status EXCEPT ![s] = "gone"]
  /\ UNCHANGED <<decisions, call, applied, mark, edits, torn>>

\* UpdateResource, any number at once: each reads the row before its transaction.
ReadRow(s) ==
  /\ status[s] # "gone" /\ Cardinality(edits) < MaxReads
  /\ edits' = edits \cup {[on |-> s, read |-> status[s]]}
  /\ UNCHANGED <<decisions, call, applied, mark, status, torn>>

\* What the owner's own switch can do.
Switched(old, new) == old = new \/ {old, new} \subseteq {"live", "disabled"}

\* Save writes the status that was read, however late, and inserts a row that has
\* gone: only an edit that changes something has a revision to fail on.
SaveRow(e) ==
  LET s == e.on IN
  /\ status' = [status EXCEPT ![s] = e.read]
  /\ torn' = IF Switched(status[s], e.read) THEN torn ELSE torn \cup {s}
  /\ UNCHANGED <<decisions, call, applied, mark, edits>>

-----------------------------------------------------------------------------
Init ==
  /\ decisions = <<>> /\ call = [c \in Calls |-> NoCall]
  /\ applied = {} /\ mark = [s \in Subjects |-> 0]
  /\ status = [s \in Subjects |-> "live"] /\ edits = {} /\ torn = {}

Apply(c) == Replayed(c) \/ Superseded(c) \/ Claim(c) \/ Act(c) \/ Commit(c)

Next ==
  \/ \E s \in Subjects : Toggle(s) \/ Delete(s) \/ ReadRow(s) \/ \E a \in Actions : Decide(s, a)
  \/ \E e \in edits : SaveRow(e)
  \/ \E c \in Calls : Apply(c) \/ Fail(c) \/ \E d \in Ids : Deliver(c, d)

Spec == Init /\ [][Next]_vars

-----------------------------------------------------------------------------
TypeOK ==
  /\ decisions \in Seq([on : Subjects, action : Actions])
  /\ applied \subseteq Ids
  /\ call \in [Calls -> [id : Nat, at : {"idle", "claim", "claimed", "acted"}]]
  /\ \A c \in Calls : IF call[c].at = "idle" THEN call[c].id = 0 ELSE call[c].id \in Ids
  /\ mark \in [Subjects -> Nat] /\ status \in [Subjects -> Statuses]
  /\ edits \subseteq [on : Subjects, read : Statuses \ {"gone"}]
  /\ torn \subseteq Subjects

Obeys(st, action) ==
  CASE action = "hide" -> st \in {"hidden", "gone"}
    [] action = "remove" -> st = "gone"
    [] action = "dismiss" -> st # "hidden"
    [] OTHER -> TRUE

\* Whatever order the decisions and their retries arrive in, wherever a call
\* fails and whatever the owner switches, deletes and edits: a subject shows what
\* some decision says that is at least as new as the newest one applied to it, so
\* an older one never comes back over a newer.  The exception is a row that an
\* edit had read before it was hidden, shown again or removed, and saved after
\* that: it stands as it was read until a decision is enforced again.
NewestRules ==
  \A s \in Subjects \ torn : mark[s] # 0 =>
    \E d \in Ids : d >= mark[s] /\ Subject(d) = s /\ SetsVisibility(d) /\ Obeys(status[s], Action(d))
=============================================================================
