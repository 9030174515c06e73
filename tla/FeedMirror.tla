----------------------------- MODULE FeedMirror -----------------------------
(***************************************************************************)
(* What the activity push promises, with no queue, no ledger and no        *)
(* reconcile: a feed that mirrors a source key by key.                     *)
(*                                                                         *)
(* The feed may lag, and one item may mix fields read at different times.  *)
(* But it never shows what the source never had, no field of a shown item  *)
(* goes back, and nothing is withdrawn that was public throughout.         *)
(***************************************************************************)
EXTENDS Naturals

CONSTANT Key

VARIABLES
  source,   \* per key: public now, its fields, whether it ever stopped being public
  feed      \* per key: shown now, with which fields

vars == <<source, feed>>

\* Field by field: each field is a version number.
Leq(a, b) == a.ver <= b.ver /\ a.edits <= b.edits /\ a.title <= b.title

Init == \A k \in Key : ~feed[k].live

\* Writers: fields only move on, and to have lapsed is for ever.
SourceStep(k) ==
  /\ Leq(source[k].content, source'[k].content)
  /\ source[k].lapsed => source'[k].lapsed
  /\ source[k].public /\ ~source'[k].public => source'[k].lapsed

Publish(k) ==
  /\ feed'[k].live
  /\ Leq(feed'[k].content, source[k].content)
  /\ feed[k].live => Leq(feed[k].content, feed'[k].content)

Withdraw(k) ==
  /\ feed[k].live /\ ~feed'[k].live
  /\ source[k].lapsed

Next ==
  \/ feed' = feed /\ \A k \in Key : source'[k] = source[k] \/ SourceStep(k)
  \/ source' = source /\ \A k \in Key : feed'[k] = feed[k] \/ Publish(k) \/ Withdraw(k)

Spec == Init /\ [][Next]_vars
=============================================================================
