-------------------------------- MODULE Account --------------------------------
(***************************************************************************)
(* One account: signing in and out (internal/auth), what its requests      *)
(* leave on this site, and an admin's purge of it (internal/admin), which  *)
(* lists its files, deletes its posts at community, its rows here, its     *)
(* files and at last its sessions, while it may still be at work.          *)
(*                                                                         *)
(* Abstractions.  A session and the refresh token OAuth issued for it have *)
(* one number; SessionRefresh models how the token is rotated.  One page,  *)
(* and resources of the account and of others on it; PatchPage models what *)
(* a resource settles.  Only one purge runs at a time.  Messages, logs and *)
(* merge records are left out.  History variables: left, stray, missed,    *)
(* active, owned.                                                          *)
(***************************************************************************)
EXTENDS Naturals, FiniteSets

CONSTANTS
  Resources,
  Calls,     \* requests of the account that may run at once
  MaxSign,   \* bound: sessions and posts
  MaxReq,    \* bound: requests made, purges included
  MaxFault   \* bound: calls that fail, processes that end

VARIABLES
  user,    \* the "user" row
  page,    \* whose the page is, or none
  res,     \* patch_resource: whose it is, none, or purged as whose
  store,   \* external: the files the artifact service holds
  posts,   \* external: the account's posts at community
  tokens,  \* external: refresh tokens OAuth takes
  sess,    \* sessions in Redis
  revoke,  \* revokes on their way to OAuth
  call,    \* what a request is at
  purge,   \* what the admin's purge is at
  reqs, faults,
  made,    \* sessions and posts made
  left,    \* files a purge did not reach
  stray,   \* tokens given up without a revoke
  missed,  \* sessions a purge or a sign-out could not delete
  active,  \* the account was at work when a purge deleted what it has
  owned    \* a purge took the account's pages with it

here == <<user, page, res>>
outside == <<store, posts, tokens>>
bounds == <<reqs, faults, made>>
history == <<left, stray, missed, active, owned>>
vars == <<here, outside, sess, revoke, call, purge, bounds, history>>

Numbers == 1..MaxSign
NoCall == [at |-> "idle", n |-> 0, r |-> {}]
NoPurge == [at |-> "idle", owned |-> FALSE, list |-> {}, todo |-> {}, before |-> {}]
Mine == {r \in Resources : res[r] = "account"}
Others == {r \in Resources : res[r] = "other"}
Working == \E c \in Calls : call[c].at \notin {"idle", "destroy"}

-----------------------------------------------------------------------------
(* The steps of a request. *)

Begin(c, rec) ==
  /\ call[c] = NoCall /\ reqs < MaxReq /\ reqs' = reqs + 1
  /\ call' = [call EXCEPT ![c] = rec]
  /\ active' = (active \/ purge.at \notin {"idle", "list", "author"})
Goes(c, step) == call' = [call EXCEPT ![c].at = step]
Answered(c) == call' = [call EXCEPT ![c] = NoCall]
Fault == faults < MaxFault /\ faults' = faults + 1

-----------------------------------------------------------------------------
(* OAuthCallback and Logout. *)

SignIn(c) ==
  /\ Begin(c, [NoCall EXCEPT !.at = "exchange"])
  /\ UNCHANGED <<here, outside, sess, revoke, purge, faults, made, left, stray, missed, owned>>

\* The code buys a token; with the answer lost nobody knows which.
ExchangeCode(c) ==
  LET n == made + 1 IN
  /\ call[c].at = "exchange" /\ n \in Numbers /\ made' = n
  /\ tokens' = tokens \cup {n}
  /\ \/ call' = [call EXCEPT ![c].at = "info", ![c].n = n] /\ UNCHANGED <<faults, stray>>
     \/ Fault /\ Answered(c) /\ stray' = stray \cup {n}
  /\ UNCHANGED <<here, store, posts, sess, revoke, purge, reqs, left, missed, active, owned>>

\* Mutant of Abandon: the reader is refused and the token left as it is.
Refuse(c) == Answered(c) /\ UNCHANGED revoke
\* The code is spent: whatever fails from here on, its token is revoked.
Abandon(c) == Answered(c) /\ revoke' = revoke \cup {call[c].n}

\* A banned account is refused.
GetUserInfo(c) ==
  /\ call[c].at = "info"
  /\ (Goes(c, "row") /\ UNCHANGED revoke) \/ Abandon(c)
  /\ UNCHANGED <<here, outside, sess, purge, bounds, history>>

FindOrCreateUser(c) ==
  /\ call[c].at = "row"
  /\ \/ user' = TRUE /\ Goes(c, "session") /\ UNCHANGED <<revoke, faults>>
     \/ Fault /\ Abandon(c) /\ UNCHANGED user
  /\ UNCHANGED <<page, res, outside, sess, purge, reqs, made, history>>

\* A session that comes during the scan may be in a part that was scanned.
Scanned(n) ==
  \E todo \in IF purge.at = "scan" THEN {purge.todo, purge.todo \cup {n}} ELSE {purge.todo} :
    purge' = [purge EXCEPT !.todo = todo]

CreateSession(c) ==
  LET n == call[c].n IN
  /\ call[c].at = "session"
  /\ \/ sess' = sess \cup {n} /\ Scanned(n) /\ Answered(c) /\ UNCHANGED <<revoke, faults>>
     \/ Fault /\ Abandon(c) /\ UNCHANGED <<sess, purge>>
  /\ UNCHANGED <<here, outside, reqs, made, history>>

\* Logout revokes the token of the session it reads, and deletes it read or not.
Logout(c, n) ==
  /\ n \in sess /\ Begin(c, [NoCall EXCEPT !.at = "destroy", !.n = n])
  /\ \/ revoke' = revoke \cup {n} /\ UNCHANGED <<faults, stray>>
     \/ Fault /\ stray' = stray \cup {n} /\ UNCHANGED revoke
  /\ UNCHANGED <<here, outside, sess, purge, made, left, missed, owned>>

DestroySession(c) ==
  /\ call[c].at = "destroy" /\ Answered(c)
  /\ \/ sess' = sess \ {call[c].n} /\ UNCHANGED <<faults, missed>>
     \/ Fault /\ missed' = missed \cup {call[c].n} /\ UNCHANGED sess
  /\ UNCHANGED <<here, outside, revoke, purge, reqs, made, left, stray, active, owned>>

RevokeOAuthToken(n) ==
  /\ n \in revoke /\ revoke' = revoke \ {n}
  /\ \/ tokens' = tokens \ {n} /\ UNCHANGED <<faults, stray>>
     \/ Fault /\ stray' = stray \cup {n} /\ UNCHANGED tokens
  /\ UNCHANGED <<here, store, posts, sess, call, purge, reqs, made, left, missed, active, owned>>

-----------------------------------------------------------------------------
(* What the account does with a session. *)

Publish(c, n, r) ==
  /\ n \in sess /\ res[r] = "none" /\ \A o \in Calls : r \notin call[o].r
  /\ Begin(c, [NoCall EXCEPT !.at = IF page = "none" THEN "provision" ELSE "post", !.r = {r}])
  /\ UNCHANGED <<here, outside, sess, revoke, purge, faults, made, left, stray, missed, owned>>

\* ensureLocalPatch inserts the row of the account, then a stub of its own.
ProvisionUser(c) ==
  /\ call[c].at = "provision" /\ Goes(c, "stub") /\ user' = TRUE
  /\ UNCHANGED <<page, res, outside, sess, revoke, purge, bounds, history>>

InsertStub(c) ==
  /\ call[c].at = "stub"
  /\ IF page # "none" \/ user THEN Goes(c, "post") ELSE Answered(c)
  /\ page' = IF page = "none" /\ user THEN "account" ELSE page
  /\ UNCHANGED <<user, res, outside, sess, revoke, purge, bounds, history>>

\* The row needs the page and the account.
InsertResource(c) ==
  /\ call[c].at = "post" /\ Answered(c)
  /\ IF user /\ page # "none"
     THEN /\ res' = [r \in Resources |-> IF r \in call[c].r THEN "account" ELSE res[r]]
          /\ store' = store \cup call[c].r
     ELSE UNCHANGED <<res, store>>
  /\ UNCHANGED <<user, page, posts, tokens, sess, revoke, purge, bounds, history>>

Comment(c, n) ==
  /\ n \in sess /\ Begin(c, [NoCall EXCEPT !.at = "comment"])
  /\ UNCHANGED <<here, outside, sess, revoke, purge, faults, made, left, stray, missed, owned>>

CreatePost(c) ==
  /\ call[c].at = "comment" /\ Answered(c)
  /\ made < MaxSign /\ made' = made + 1 /\ posts' = posts \cup {made'}
  /\ UNCHANGED <<here, store, tokens, sess, revoke, purge, reqs, faults, history>>

\* Somebody else publishes on the page.
OtherPublishes(r) ==
  /\ page # "none" /\ res[r] = "none" /\ \A c \in Calls : r \notin call[c].r
  /\ reqs < MaxReq /\ reqs' = reqs + 1
  /\ res' = [res EXCEPT ![r] = "other"] /\ store' = store \cup {r}
  /\ UNCHANGED <<user, page, posts, tokens, sess, revoke, call, purge, faults, made, history>>

-----------------------------------------------------------------------------
(* PurgeUser. *)

PurgeGoes(step) == purge' = [purge EXCEPT !.at = step]

PurgeUser(pagesToo) ==
  /\ purge.at \in {"idle", "done"} /\ reqs < MaxReq /\ reqs' = reqs + 1
  /\ purge' = [NoPurge EXCEPT !.at = "list", !.owned = pagesToo, !.before = sess]
  /\ active' = FALSE
  /\ UNCHANGED <<here, outside, sess, revoke, call, faults, made, left, stray, missed, owned>>

\* What a purge takes: the account's resources, and those of others on its page.
Doomed == Mine \cup IF purge.owned /\ page = "account" THEN Others ELSE {}

CollectUserArtifactUUIDs ==
  /\ purge.at = "list"
  /\ \/ purge' = [purge EXCEPT !.at = "author", !.list = Doomed] /\ UNCHANGED faults
     \/ Fault /\ PurgeGoes("author")
  /\ UNCHANGED <<here, outside, sess, revoke, call, reqs, made, history>>

\* The posts go first: without the rows here nothing could find them again.
PurgeAuthor ==
  /\ purge.at = "author" /\ posts' = {}
  /\ \/ PurgeGoes("local") /\ active' = (active \/ Working) /\ UNCHANGED faults
     \/ Fault /\ PurgeGoes("idle") /\ UNCHANGED active
  /\ UNCHANGED <<here, store, tokens, sess, revoke, call, reqs, made, left, stray, missed, owned>>

\* Pages the account keeps no more go to whoever else published on them, or to
\* the admin.
Heir == IF purge.owned THEN "none" ELSE IF Others # {} THEN "other" ELSE "admin"

\* One transaction; the admin may start the purge over when it fails.
PurgeRows ==
  /\ purge.at = "local"
  /\ \/ /\ res' = [r \in Resources |->
                     IF r \notin Doomed THEN res[r] ELSE IF r \in Mine THEN "gone" ELSE "lost"]
        /\ page' = IF page = "account" THEN Heir ELSE page
        /\ user' = FALSE /\ PurgeGoes("sweep")
        /\ left' = left \cup (Doomed \ purge.list)
        /\ owned' = (owned \/ purge.owned) /\ active' = (active \/ Working)
        /\ UNCHANGED faults
     \/ Fault /\ PurgeGoes("idle") /\ UNCHANGED <<here, left, owned, active>>
  /\ UNCHANGED <<outside, sess, revoke, call, reqs, made, stray, missed>>

SoftDeleteArtifacts ==
  /\ purge.at = "sweep"
  /\ \/ store' = store \ purge.list /\ UNCHANGED <<faults, left>>
     \/ /\ Fault
        /\ \E r \in purge.list : store' = store \ (purge.list \ {r}) /\ left' = left \cup {r}
  /\ purge' = [purge EXCEPT !.at = "scan", !.todo = sess]
  /\ UNCHANGED <<here, posts, tokens, sess, revoke, call, reqs, made, stray, missed, active, owned>>

\* RevokeUserSessions deletes what the cursor shows; OAuth is not told.
DeleteSession(n) ==
  /\ purge.at = "scan" /\ n \in purge.todo
  /\ purge' = [purge EXCEPT !.todo = @ \ {n}]
  /\ \/ sess' = sess \ {n} /\ stray' = stray \cup {n} /\ UNCHANGED <<faults, missed>>
     \/ Fault /\ missed' = missed \cup {n} /\ UNCHANGED <<sess, stray>>
  /\ UNCHANGED <<here, outside, revoke, call, reqs, made, left, active, owned>>

\* A scan that fails ends there, with a warning.
ScanEnds ==
  /\ purge.at = "scan" /\ PurgeGoes("done")
  /\ \/ purge.todo = {} /\ UNCHANGED <<faults, missed>>
     \/ Fault /\ missed' = missed \cup purge.todo
  /\ UNCHANGED <<here, outside, sess, revoke, call, reqs, made, left, stray, active, owned>>

-----------------------------------------------------------------------------
\* The process ends between two steps of a purge or of a sign-in.
PurgeDies ==
  /\ purge.at \in {"author", "local", "sweep", "scan"} /\ Fault /\ PurgeGoes("idle")
  /\ left' = left \cup IF purge.at = "sweep" THEN purge.list ELSE {}
  /\ UNCHANGED <<here, outside, sess, revoke, call, reqs, made, stray, missed, active, owned>>

SignInDies(c) ==
  /\ call[c].at \in {"info", "row", "session"} /\ Fault /\ Answered(c)
  /\ stray' = stray \cup {call[c].n}
  /\ UNCHANGED <<here, outside, sess, revoke, purge, reqs, made, left, missed, active, owned>>

\* The account is signed in; the page and a resource may be there.
Init ==
  /\ user = TRUE /\ page \in {"none", "account", "other"}
  /\ \E who \in {"none", "account", "other"}, r \in Resources :
       /\ page = "none" => who = "none"
       /\ res = [q \in Resources |-> IF q = r THEN who ELSE "none"]
       /\ store = IF who = "none" THEN {} ELSE {r}
  /\ posts = {} /\ tokens = {1} /\ sess = {1} /\ revoke = {}
  /\ call = [c \in Calls |-> NoCall] /\ purge = NoPurge
  /\ reqs = 0 /\ faults = 0 /\ made = 1
  /\ left = {} /\ stray = {} /\ missed = {} /\ active = FALSE /\ owned = FALSE

Next ==
  \/ \E c \in Calls :
       \/ SignIn(c) \/ ExchangeCode(c) \/ GetUserInfo(c) \/ FindOrCreateUser(c)
       \/ CreateSession(c) \/ DestroySession(c) \/ SignInDies(c)
       \/ ProvisionUser(c) \/ InsertStub(c) \/ InsertResource(c) \/ CreatePost(c)
       \/ \E n \in sess :
            \/ Logout(c, n) \/ Comment(c, n)
            \/ \E r \in Resources : Publish(c, n, r)
  \/ \E r \in Resources : OtherPublishes(r)
  \/ \E n \in Numbers : RevokeOAuthToken(n) \/ DeleteSession(n)
  \/ \E pagesToo \in BOOLEAN : PurgeUser(pagesToo)
  \/ CollectUserArtifactUUIDs \/ PurgeAuthor \/ PurgeRows \/ SoftDeleteArtifacts
  \/ ScanEnds \/ PurgeDies

Spec == Init /\ [][Next]_vars

-----------------------------------------------------------------------------
Idle == purge.at \in {"idle", "done"} /\ \A c \in Calls : call[c] = NoCall

\* Every variable has its shape.
TypeOK ==
  /\ user \in BOOLEAN /\ page \in {"none", "account", "other", "admin"}
  /\ \A r \in Resources : res[r] \in {"none", "account", "other", "gone", "lost"}
  /\ store \cup left \subseteq Resources
  /\ posts \cup tokens \cup sess \cup revoke \cup stray \cup missed \subseteq Numbers
  /\ \A c \in Calls : call[c].n \in {0} \cup Numbers /\ call[c].r \subseteq Resources
  /\ purge.list \subseteq Resources /\ purge.todo \cup purge.before \subseteq Numbers
  /\ reqs \in 0..MaxReq /\ faults \in 0..MaxFault /\ made \in 1..MaxSign

\* A refresh token is in a session or on its way to be revoked; one that is in
\* neither was given up by a step that failed, or by a purge.
TokensHeld ==
  /\ tokens \subseteq sess \cup revoke \cup stray \cup {call[c].n : c \in Calls}
  /\ \A n \in sess : n \in tokens \cup missed \/ \E c \in Calls : call[c] = [NoCall EXCEPT !.at = "destroy", !.n = n]

\* A purge that is done has ended every session it began with, and one that did
\* not meet the account at work has left nothing of it.
PurgeEnds ==
  purge.at = "done" =>
    /\ purge.before \cap sess \subseteq missed
    /\ active \/ (~user /\ page # "account" /\ Mine = {} /\ posts = {})

\* What others published stays, unless a purge was to take the account's pages;
\* it keeps its page and its file, and a file outlives its resource only if it
\* could not be deleted or was not listed.
OthersKept ==
  /\ owned \/ \A r \in Resources : res[r] # "lost"
  /\ Mine \cup Others # {} => page # "none"
  /\ (page = "account" \/ Mine # {}) => user
  /\ Mine \cup Others \subseteq store
  /\ Idle => store \subseteq Mine \cup Others \cup left

\* What an account leaves behind is accounted for.
AccountKept == TokensHeld /\ PurgeEnds /\ OthersKept
=============================================================================
