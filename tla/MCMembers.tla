------------------------------- MODULE MCMembers -------------------------------
(***************************************************************************)
(* What belongs to one reader, each for TLC: a session under the requests  *)
(* of one page load, and an account with the purge of it.  They share no   *)
(* state; one runs in a behaviour and the other stays as it starts.        *)
(* SessionRefresh is extended, Account is an instance.                     *)
(***************************************************************************)
EXTENDS SessionRefresh, TLC

CONSTANTS Resources, Calls, MaxSign, MaxReq  \* of Account

ASSUME AccountAssumption == MaxSign \in Nat \ {0} /\ MaxReq \in Nat

VARIABLES
  part,  \* which component runs
  a_user, a_page, a_res, a_store, a_posts, a_tokens, a_sess, a_revoke, a_call,
  a_purge, a_reqs, a_faults, a_made, a_left, a_stray, a_missed, a_active, a_owned

\* Requests, calls and resources are interchangeable: no definition names one.
Symmetry == Permutations(Requests) \cup Permutations(Calls) \cup Permutations(Resources)

Member == INSTANCE Account WITH
  user <- a_user, page <- a_page, res <- a_res, store <- a_store,
  posts <- a_posts, tokens <- a_tokens, sess <- a_sess, revoke <- a_revoke,
  call <- a_call, purge <- a_purge, reqs <- a_reqs, faults <- a_faults,
  made <- a_made, left <- a_left, stray <- a_stray, missed <- a_missed,
  active <- a_active, owned <- a_owned
memberVars == <<a_user, a_page, a_res, a_store, a_posts, a_tokens, a_sess,
  a_revoke, a_call, a_purge, a_reqs, a_faults, a_made, a_left, a_stray,
  a_missed, a_active, a_owned>>

-----------------------------------------------------------------------------
allVars == <<part, vars, memberVars>>

InitOfOne ==
  /\ part \in {"session", "account"}
  /\ Init
  /\ Member!Init /\ (part # "account" => a_page = "none")

NextOfOne ==
  \/ part = "session" /\ Next /\ UNCHANGED <<part, memberVars>>
  \/ part = "account" /\ Member!Next /\ UNCHANGED <<part, vars>>

SpecOfOne == InitOfOne /\ [][NextOfOne]_allVars

-----------------------------------------------------------------------------
\* The state of the component that runs has its shape.
Shapes ==
  /\ part = "session" => TypeOK
  /\ part = "account" => Member!TypeOK

\* What an account leaves behind is accounted for (Account).
AccountKept == part = "account" => Member!AccountKept
=============================================================================
