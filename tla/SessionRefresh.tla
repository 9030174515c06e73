--------------------------- MODULE SessionRefresh ---------------------------
(***************************************************************************)
(* One reader's session and the requests that use it at the same time:     *)
(* internal/middleware/session.go and auth.go.                             *)
(*                                                                         *)
(* The session is a Redis key that holds an access token and a rotating    *)
(* refresh token.  A request that finds the access token expired refreshes *)
(* it before it answers; one that finds it about to expire answers and     *)
(* refreshes in the background.  A Redis lock lets one request refresh;    *)
(* the others poll.  OAuth rotates the refresh token on every use and      *)
(* revokes the session when an old one comes back too late.                *)
(*                                                                         *)
(* Abstractions.  A refresh token is its number in the chain.  Time is an  *)
(* epoch: a token is fresh for one epoch, about to expire for one, then    *)
(* expired.  An epoch, and OAuth's two-minute grace, are longer than any   *)
(* request lives (10s of HTTP, 11s of polling).  A session with no expiry, *)
(* or whose blob does not decode, and the sliding of the key's TTL (EXPIRE *)
(* only) are left out.  History variables: over, faults, missed.           *)
(***************************************************************************)
EXTENDS Naturals, FiniteSets

CONSTANTS
  Requests,   \* requests of this session in flight at once
  NoOne,      \* the lock is free
  MaxEpoch,   \* (bound)
  MaxFault    \* (bound)

ASSUME SessionAssumption ==
  /\ NoOne \notin Requests
  /\ MaxEpoch \in Nat
  /\ MaxFault \in Nat

VARIABLES
  session,    \* the Redis key: here or not, its refresh token, its expiry
  lockBy,     \* lock:refresh:<id>; Redis knows only that it is taken
  oauth,      \* external: current refresh token, grace for the one before, revoked
  pc, mode,   \* a request's position, and whether its reader waits for it
  seen,       \* the session as the request read it
  reply,      \* OAuth's answer on its way to the request
  held,       \* a waiter's last look at the lock
  verdict,    \* what the request answers
  epoch,
  over,       \* history: the reader logged out or an admin revoked the session
  faults,     \* history: what went wrong, kind by kind
  missed      \* history: waiters since whose start a refresh went unsaved

vars == <<session, lockBy, oauth, pc, mode, seen, reply, held, verdict, epoch, over,
          faults, missed>>

NoToken  == [tok |-> 0, exp |-> 0]
Refused  == [tok |-> 0, exp |-> 0]
Kinds    == {"unsaved", "undeleted", "lost", "crash", "expired"}
Waiting  == {p \in Requests : pc[p] \in {"poll", "polled"}}
Working  == {"lock", "refresh", "answered", "unlock", "poll", "polled"}
Verdicts == {"none", "ok", "gone", "unavailable", "failed"}

Finish(p, v) == /\ pc' = [pc EXCEPT ![p] = "done"]
                /\ verdict' = [verdict EXCEPT ![p] = v]

\* A lock holder is through with OAuth; its deferred Del is still to come.
ToUnlock(p, v) == /\ pc' = [pc EXCEPT ![p] = "unlock"]
                  /\ verdict' = [verdict EXCEPT ![p] = v]
                  /\ reply' = [reply EXCEPT ![p] = NoToken]

Fault(kind) == /\ Cardinality(faults) < MaxFault \/ kind \in faults
               /\ faults' = faults \cup {kind}

-----------------------------------------------------------------------------
(* liveSession *)

\* readSession, and which of the three paths the expiry selects.
Read(p) ==
  /\ pc[p] = "idle"
  /\ IF ~session.here
     THEN Finish(p, "gone") /\ UNCHANGED <<mode, seen>>
     ELSE IF epoch + 1 < session.exp
     THEN Finish(p, "ok") /\ UNCHANGED <<mode, seen>>
     ELSE /\ seen' = [seen EXCEPT ![p] = [tok |-> session.tok, exp |-> session.exp]]
          /\ mode' = [mode EXCEPT ![p] = IF epoch < session.exp THEN "background" ELSE "sync"]
          /\ pc' = [pc EXCEPT ![p] = "lock"]
          /\ UNCHANGED verdict
  /\ UNCHANGED <<session, lockBy, oauth, reply, held, epoch, over, faults, missed>>

\* SetNX.  The token it will present was read before the lock was taken.  A
\* waiter misses its refresh at once when the lock is an abandoned one, or its
\* holder is through and saved nothing newer.
TryLock(p) ==
  /\ pc[p] = "lock"
  /\ IF lockBy = NoOne
     THEN /\ lockBy' = p
          /\ pc' = [pc EXCEPT ![p] = "refresh"]
          /\ UNCHANGED <<verdict, missed>>
     ELSE /\ UNCHANGED lockBy
          /\ IF mode[p] = "sync"
             THEN /\ pc' = [pc EXCEPT ![p] = "poll"]
                  /\ missed' = IF pc[lockBy] \in {"refresh", "answered"} \/ session.exp > seen[p].exp
                               THEN missed ELSE missed \cup {p}
                  /\ UNCHANGED verdict
             ELSE Finish(p, "ok") /\ UNCHANGED missed
  /\ UNCHANGED <<session, oauth, mode, seen, reply, held, epoch, over, faults>>

-----------------------------------------------------------------------------
(* requestRefresh, and OAuth's side of it *)

\* Rotation.  The token before the current one is answered during its grace,
\* two minutes, or until the next rotation when this one was slow.
Answer(p) ==
  LET tok == seen[p].tok IN
  \/ /\ ~oauth.revoked /\ tok = oauth.cur
     /\ \E g \in {"short", "long"} :
          oauth' = [oauth EXCEPT !.cur = @ + 1, !.grace = g]
     /\ reply' = [reply EXCEPT ![p] = [tok |-> oauth.cur + 1, exp |-> epoch + 2]]
  \/ /\ ~oauth.revoked /\ tok + 1 = oauth.cur /\ oauth.grace # "none"
     /\ UNCHANGED oauth
     /\ reply' = [reply EXCEPT ![p] = [tok |-> oauth.cur, exp |-> epoch + 2]]
  \/ /\ oauth.revoked \/ tok + 1 < oauth.cur \/ (tok + 1 = oauth.cur /\ oauth.grace = "none")
     /\ oauth' = [oauth EXCEPT !.revoked = TRUE]
     /\ reply' = [reply EXCEPT ![p] = Refused]

\* Mutant of CallOAuth: the lock is released when the answer arrives.
CallOAuthThenRelease(p) ==
  /\ pc[p] = "refresh"
  /\ Answer(p)
  /\ pc' = [pc EXCEPT ![p] = "answered"]
  /\ lockBy' = NoOne
  /\ UNCHANGED <<session, mode, seen, held, verdict, epoch, over, faults, missed>>

CallOAuth(p) ==
  /\ pc[p] = "refresh"
  /\ Answer(p)
  /\ pc' = [pc EXCEPT ![p] = "answered"]
  /\ UNCHANGED <<session, lockBy, mode, seen, held, verdict, epoch, over, faults, missed>>

\* Mutant of Transient: whatever OAuth answers, the session is over.
TransientEnds(p) ==
  /\ pc[p] = "refresh"
  /\ session' = [session EXCEPT !.here = FALSE]
  /\ ToUnlock(p, "gone")
  /\ missed' = missed \cup Waiting
  /\ UNCHANGED <<lockBy, oauth, mode, seen, held, epoch, over, faults>>

\* 5xx, 429, invalid_client, unauthorized_client, no connection: nothing
\* rotated, and the session is kept.
Transient(p) ==
  /\ pc[p] = "refresh"
  /\ ToUnlock(p, "unavailable")
  /\ missed' = missed \cup Waiting
  /\ UNCHANGED <<session, lockBy, oauth, mode, seen, held, epoch, over, faults>>

\* Timed out after OAuth rotated: the answer never arrives.
LostReply(p) ==
  /\ pc[p] = "answered"
  /\ Fault("lost")
  /\ ToUnlock(p, "unavailable")
  /\ missed' = missed \cup Waiting
  /\ UNCHANGED <<session, lockBy, oauth, mode, seen, held, epoch, over>>

-----------------------------------------------------------------------------
(* What the winner does with the answer *)

\* Only invalid_grant is about the reader's grant.
EndsSession(p) == reply[p] = Refused

EndSession(p) ==
  /\ pc[p] = "answered" /\ EndsSession(p)
  /\ \/ session' = [session EXCEPT !.here = FALSE] /\ UNCHANGED faults
     \/ Fault("undeleted") /\ UNCHANGED session          \* logged, and that is all
  /\ ToUnlock(p, "gone")
  /\ missed' = missed \cup Waiting
  /\ UNCHANGED <<lockBy, oauth, mode, seen, held, epoch, over>>

\* Mutant of MayWrite: a blind SET.
MayAlwaysWrite == TRUE
\* The Lua script rewrites a session that is still there.
MayWrite == session.here

\* Mutants of Renewed: the rotated refresh token is not kept, or not there.
RenewedAccessOnly(p) == [session EXCEPT !.exp = reply[p].exp]
RenewedBlank(p) == [here |-> TRUE, tok |-> 0, exp |-> reply[p].exp]
\* The blob the script saves.
Renewed(p) == [here |-> TRUE, tok |-> reply[p].tok, exp |-> reply[p].exp]

WriteBack(p) ==
  /\ pc[p] = "answered" /\ ~EndsSession(p)
  /\ IF MayWrite
     THEN /\ session' = Renewed(p)
          /\ ToUnlock(p, "ok")
          /\ UNCHANGED missed
     ELSE /\ UNCHANGED session
          /\ ToUnlock(p, "gone")
          /\ missed' = missed \cup Waiting
  /\ UNCHANGED <<lockBy, oauth, mode, seen, held, epoch, over, faults>>

\* Redis refuses the write: this request answers with the token it holds.
WriteBackFails(p) ==
  /\ pc[p] = "answered" /\ ~EndsSession(p)
  /\ Fault("unsaved")
  /\ ToUnlock(p, "ok")
  /\ missed' = missed \cup Waiting
  /\ UNCHANGED <<session, lockBy, oauth, mode, seen, held, epoch, over>>

\* The deferred Del takes the lock away from whoever holds it.
Unlock(p) ==
  /\ pc[p] = "unlock"
  /\ \/ lockBy' = NoOne /\ UNCHANGED faults
     \/ Fault("undeleted") /\ UNCHANGED lockBy
  /\ pc' = [pc EXCEPT ![p] = "done"]
  /\ UNCHANGED <<session, oauth, mode, seen, reply, held, verdict, epoch, over, missed>>

-----------------------------------------------------------------------------
(* waitForRefreshedSession *)

\* The lock first.
PollLock(p) ==
  /\ pc[p] = "poll"
  /\ held' = [held EXCEPT ![p] = lockBy # NoOne]
  /\ pc' = [pc EXCEPT ![p] = "polled"]
  /\ UNCHANGED <<session, lockBy, oauth, mode, seen, reply, verdict, epoch, over, faults, missed>>

\* Then the session, judged with the lock as it was before.
PollSession(p) ==
  /\ pc[p] = "polled"
  /\ IF ~session.here THEN Finish(p, "gone")
     ELSE IF session.exp > seen[p].exp THEN Finish(p, "ok")
     ELSE IF ~held[p] THEN Finish(p, "failed")
     ELSE pc' = [pc EXCEPT ![p] = "poll"] /\ UNCHANGED verdict
  /\ UNCHANGED <<session, lockBy, oauth, mode, seen, reply, held, epoch, over, faults, missed>>

\* Mutant of WaitTimeout: the poll has no deadline.
NoDeadline(p) == FALSE /\ pc[p] = "poll" /\ UNCHANGED vars

\* oauthRefreshHTTP.Timeout + 1s are over, or the reader's own deadline is.
WaitTimeout(p) ==
  /\ pc[p] = "poll"
  /\ Finish(p, "unavailable")
  /\ UNCHANGED <<session, lockBy, oauth, mode, seen, reply, held, epoch, over, faults, missed>>

\* Redis does not answer: 503, and nothing changed.
StoreFails(p) ==
  /\ pc[p] \in {"idle", "lock", "poll", "polled"}
  /\ Finish(p, "unavailable")
  /\ UNCHANGED <<session, lockBy, oauth, mode, seen, reply, held, epoch, over, faults, missed>>

\* The request is answered; its place is taken by a later one.
NextRequest(p) ==
  /\ pc[p] = "done"
  /\ pc' = [pc EXCEPT ![p] = "idle"]
  /\ mode' = [mode EXCEPT ![p] = "sync"]
  /\ seen' = [seen EXCEPT ![p] = NoToken]
  /\ held' = [held EXCEPT ![p] = FALSE]
  /\ verdict' = [verdict EXCEPT ![p] = "none"]
  /\ missed' = missed \ {p}
  /\ UNCHANGED <<session, lockBy, oauth, reply, epoch, over, faults>>

-----------------------------------------------------------------------------
(* The rest of the world *)

\* DestroySession, and RevokeUserSessions for a banned reader.
Logout ==
  /\ session.here
  /\ session' = [session EXCEPT !.here = FALSE]
  /\ over' = TRUE
  /\ UNCHANGED <<lockBy, oauth, pc, mode, seen, reply, held, verdict, epoch, faults, missed>>

\* The process dies, and the lock outlives it.
Crash(p) ==
  /\ pc[p] \in Working
  /\ Fault("crash")
  /\ Finish(p, "unavailable")
  /\ reply' = [reply EXCEPT ![p] = NoToken]
  /\ missed' = IF pc[p] \in {"refresh", "answered"} THEN missed \cup Waiting ELSE missed
  /\ UNCHANGED <<session, lockBy, oauth, mode, seen, held, epoch, over>>

\* refreshLockTTL.  A holder it overtakes is a fault: 30s is meant to be longer.
HolderGone == pc[lockBy] \notin {"refresh", "answered", "unlock"}
LockExpires ==
  /\ lockBy # NoOne
  /\ IF HolderGone THEN UNCHANGED faults ELSE Fault("expired")
  /\ lockBy' = NoOne
  /\ UNCHANGED <<session, oauth, pc, mode, seen, reply, held, verdict, epoch, over, missed>>

\* Two minutes pass, which is longer than from a request's read to its save.
GraceLapses ==
  /\ oauth.grace = "short"
  /\ \A p \in Requests :
       pc[p] \in {"lock", "refresh", "answered"} => seen[p].tok = oauth.cur
  /\ oauth' = [oauth EXCEPT !.grace = "none"]
  /\ UNCHANGED <<session, lockBy, pc, mode, seen, reply, held, verdict, epoch, over,
                 faults, missed>>

\* The life of an access token passes, which is longer than any request.
NextEpoch ==
  /\ epoch < MaxEpoch
  /\ \A p \in Requests : pc[p] \notin Working
  /\ lockBy = NoOne
  /\ epoch' = epoch + 1
  /\ UNCHANGED <<session, lockBy, oauth, pc, mode, seen, reply, held, verdict, over,
                 faults, missed>>

Init ==
  /\ session = [here |-> TRUE, tok |-> 1, exp |-> 2]    \* CreateSession
  /\ lockBy = NoOne
  /\ oauth = [cur |-> 1, grace |-> "none", revoked |-> FALSE]
  /\ pc = [p \in Requests |-> "idle"]
  /\ mode = [p \in Requests |-> "sync"]
  /\ seen = [p \in Requests |-> NoToken]
  /\ reply = [p \in Requests |-> NoToken]
  /\ held = [p \in Requests |-> FALSE]
  /\ verdict = [p \in Requests |-> "none"]
  /\ epoch = 0 /\ over = FALSE /\ faults = {} /\ missed = {}

\* A request's own steps; CallOAuth and Transient are OAuth's choice.
Step(p) == \/ Read(p) \/ TryLock(p) \/ CallOAuth(p) \/ Transient(p)
           \/ EndSession(p) \/ WriteBack(p) \/ Unlock(p)
           \/ PollLock(p) \/ PollSession(p)

Next == \/ \E p \in Requests : \/ Step(p) \/ WaitTimeout(p) \/ StoreFails(p) \/ NextRequest(p)
                               \/ LostReply(p) \/ WriteBackFails(p) \/ Crash(p)
        \/ Logout \/ LockExpires \/ GraceLapses \/ NextEpoch

Spec == Init /\ [][Next]_vars

\* A request runs until it answers; an abandoned lock expires; a poll has a
\* deadline.
FairSpec == /\ Spec
            /\ \A p \in Requests : WF_vars(Step(p)) /\ SF_vars(WaitTimeout(p))
            /\ WF_vars(LockExpires /\ HolderGone)

-----------------------------------------------------------------------------
(* Properties *)

Token == [tok : Nat, exp : Nat]

\* The shape of the state; no token is one that OAuth has not issued.
TypeOK ==
  /\ session \in [here : BOOLEAN, tok : 1..oauth.cur, exp : Nat]
  /\ lockBy \in Requests \cup {NoOne}
  /\ oauth \in [cur : Nat, grace : {"none", "short", "long"}, revoked : BOOLEAN]
  /\ pc \in [Requests -> Working \cup {"idle", "done"}]
  /\ mode \in [Requests -> {"sync", "background"}]
  /\ seen \in [Requests -> Token]
  /\ reply \in [Requests -> Token]
  /\ held \in [Requests -> BOOLEAN]
  /\ verdict \in [Requests -> Verdicts]
  /\ epoch \in Nat
  /\ over \in BOOLEAN
  /\ faults \subseteq Kinds
  /\ missed \subseteq Requests

\* Concurrent requests alone never log a reader out: as long as no answer was
\* lost, no save failed, no process died and no lock ran out under its holder,
\* the session stays until someone ends it, however the requests interleave
\* and however often OAuth is unavailable.
NoSpuriousLogout == faults = {} /\ ~over => session.here

\* Without a fault, the saved refresh token is
\* the current one whenever nobody holds the lock: nothing saves an older token
\* over a newer one, and no rotation is forgotten.  And a waiter that reports the
\* refresh as failed has seen, since it began to wait, some refresh end without
\* saving a session.
RefreshSettles ==
  /\ faults = {} /\ session.here /\ lockBy = NoOne => session.tok = oauth.cur
  /\ "expired" \notin faults =>
       \A p \in Requests : verdict[p] = "failed" => p \in missed

\* A session that is gone stays gone: no refresh in flight brings back what a
\* logout, a ban or OAuth's refusal removed.
NoResurrection == [][~session.here => ~session'.here]_vars

\* Every request answers: no interleaving of crashes, abandoned locks and slow
\* refreshes leaves a waiter polling.
EveryRequestAnswers == \A p \in Requests : pc[p] \in Working ~> pc[p] = "done"

\* What the log line of a failed write-back says: the token was not saved, this
\* request uses it and a later one refreshes again.
UnsavedIsRefreshedAgain == faults \subseteq {"unsaved"} /\ ~over => session.here
=============================================================================
