---------------------------- MODULE MembersProofs ----------------------------
(***************************************************************************)
(* What belongs to one reader.  Concurrent requests neither log a reader   *)
(* out nor lose a rotated token, for any number of requests, epochs and    *)
(* faults; what an account leaves behind is accounted for, however many    *)
(* requests and purges of it (the second part).                            *)
(*                                                                         *)
(* Why, of the session: the token a request presents was read before it    *)
(* had the lock, so another request may have rotated it in between, but    *)
(* only once: a token just saved is fresh for as long as any request that  *)
(* read the one before it lives, so nobody refreshes it (Calm).  A waiter  *)
(* whose refresh has neither been missed nor saved sees the lock held by a *)
(* request that is still at it (Waits).                                    *)
(***************************************************************************)
EXTENDS MCMembers, TLAPS

Holding == {"refresh", "answered", "unlock"}
Behind(p) == pc[p] \in {"lock", "refresh"}

\* What is saved or on its way was issued, in this epoch at the latest; what a
\* request goes by is older; a session that was ended is not there.
Issued ==
  /\ session.exp <= epoch + 2
  /\ over => ~session.here
  /\ \A p \in Requests :
       /\ pc[p] = "answered" => EndsSession(p) \/ (reply[p].tok \in 1..oauth.cur /\ reply[p].exp = epoch + 2)
       /\ pc[p] \in Working => seen[p].exp <= epoch + 1

\* Who is between the lock and its deferred Del has the lock; without a fault,
\* who has the lock is there.
OneHolder ==
  \A p \in Requests :
    /\ "expired" \notin faults /\ pc[p] \in Holding => lockBy = p
    /\ faults = {} /\ lockBy = p => pc[p] \in Holding

\* The session holds OAuth's current token, or the answer that brings it is on
\* its way; a request that refreshes presents that token or, in its grace, the
\* one before.
Calm ==
  faults = {} /\ ~over =>
    /\ session.here /\ ~oauth.revoked
    /\ (\A p \in Requests : pc[p] # "answered") => session.tok = oauth.cur
    /\ \A p \in Requests : pc[p] = "answered" =>
         /\ reply[p].tok = oauth.cur /\ reply[p].exp = epoch + 2
         /\ \/ session.tok = oauth.cur /\ session.exp = epoch + 2
            \/ session.tok + 1 = oauth.cur /\ session.exp <= epoch + 1 /\ seen[p].tok = session.tok
    /\ \A p \in Requests : Behind(p) =>
         \/ session.exp <= epoch + 1 /\ seen[p].tok = session.tok
         \/ session.exp = epoch + 2 /\ seen[p].tok + 1 = session.tok
    /\ \A p \in Requests : Behind(p) \/ pc[p] = "answered" =>
         seen[p].tok = oauth.cur \/ oauth.grace # "none"

\* A waiter that has missed no refresh has one to wait for, or its session.
Settled(p) == session.exp > seen[p].exp \/ ~session.here
AtIt == lockBy # NoOne /\ pc[lockBy] \in {"refresh", "answered"}
Waits ==
  "expired" \notin faults => \A p \in Requests :
    /\ verdict[p] = "failed" => p \in missed
    /\ p \in Waiting \ missed => Settled(p) \/ AtIt
    /\ pc[p] = "polled" /\ ~held[p] /\ p \notin missed => Settled(p)

SessionInv == TypeOK /\ Issued /\ OneHolder /\ Calm /\ Waits

\* OAuth's answers: a rotation, the token just rotated, or a refusal.
LEMMA Answers ==
  ASSUME TypeOK, NEW p \in Requests, Answer(p)
  PROVE  /\ oauth' \in [cur : Nat, grace : {"none", "short", "long"}, revoked : BOOLEAN]
         /\ reply' \in [Requests -> Token] /\ \A q \in Requests \ {p} : reply'[q] = reply[q]
         /\ \/ /\ ~oauth.revoked /\ seen[p].tok = oauth.cur
               /\ oauth'.cur = oauth.cur + 1 /\ oauth'.grace # "none" /\ ~oauth'.revoked
               /\ reply'[p].tok = oauth'.cur /\ reply'[p].exp = epoch + 2
            \/ /\ ~oauth.revoked /\ seen[p].tok + 1 = oauth.cur /\ oauth.grace # "none" /\ oauth' = oauth
               /\ reply'[p].tok = oauth.cur /\ reply'[p].exp = epoch + 2
            \/ /\ \/ oauth.revoked \/ seen[p].tok + 1 < oauth.cur
                  \/ seen[p].tok + 1 = oauth.cur /\ oauth.grace = "none"
               /\ oauth'.cur = oauth.cur /\ reply'[p] = Refused
<1>1. /\ oauth \in [cur : Nat, grace : {"none", "short", "long"}, revoked : BOOLEAN]
      /\ reply \in [Requests -> Token] /\ epoch \in Nat /\ oauth.cur \in Nat
  BY DEF TypeOK
<1>2. \A x \in Token : reply' = [reply EXCEPT ![p] = x] =>
        reply' \in [Requests -> Token] /\ reply'[p] = x /\ \A q \in Requests \ {p} : reply'[q] = reply[q]
  BY <1>1
<1>3. CASE /\ ~oauth.revoked /\ seen[p].tok = oauth.cur
           /\ \E g \in {"short", "long"} : oauth' = [oauth EXCEPT !.cur = @ + 1, !.grace = g]
           /\ reply' = [reply EXCEPT ![p] = [tok |-> oauth.cur + 1, exp |-> epoch + 2]]
  <2>1. PICK g \in {"short", "long"} : oauth' = [oauth EXCEPT !.cur = @ + 1, !.grace = g]
    BY <1>3
  <2>2. /\ oauth' \in [cur : Nat, grace : {"none", "short", "long"}, revoked : BOOLEAN]
        /\ oauth'.cur = oauth.cur + 1 /\ oauth'.grace = g /\ oauth'.revoked = oauth.revoked
    <3>1. oauth' = [cur |-> oauth.cur + 1, grace |-> g, revoked |-> oauth.revoked]
      BY <1>1, <2>1
    <3>2. g \in {"none", "short", "long"} /\ oauth.cur + 1 \in Nat /\ oauth.revoked \in BOOLEAN
      BY <1>1
    <3> QED BY <3>1, <3>2
  <2>3. [tok |-> oauth.cur + 1, exp |-> epoch + 2] \in Token
    BY <1>1 DEF Token
  <2> QED BY <1>2, <1>3, <2>2, <2>3
<1>4. CASE /\ ~oauth.revoked /\ seen[p].tok + 1 = oauth.cur /\ oauth.grace # "none" /\ oauth' = oauth
           /\ reply' = [reply EXCEPT ![p] = [tok |-> oauth.cur, exp |-> epoch + 2]]
  <2>1. [tok |-> oauth.cur, exp |-> epoch + 2] \in Token
    BY <1>1 DEF Token
  <2> QED BY <1>1, <1>2, <1>4, <2>1
<1>5. CASE /\ \/ oauth.revoked \/ seen[p].tok + 1 < oauth.cur
              \/ seen[p].tok + 1 = oauth.cur /\ oauth.grace = "none"
           /\ oauth' = [oauth EXCEPT !.revoked = TRUE]
           /\ reply' = [reply EXCEPT ![p] = Refused]
  <2>1. oauth' \in [cur : Nat, grace : {"none", "short", "long"}, revoked : BOOLEAN] /\ oauth'.cur = oauth.cur
    BY <1>1, <1>5
  <2>2. Refused \in Token
    BY DEF Refused, Token
  <2> QED BY <1>2, <1>5, <2>1, <2>2
<1> QED BY <1>3, <1>4, <1>5 DEF Answer

\* Every step keeps the types.
LEMMA NextType ==
  ASSUME TypeOK, Issued, [Next]_vars
  PROVE  TypeOK'
<1>1. ASSUME NEW p \in Requests, Read(p) PROVE TypeOK'
  <2>1. seen' \in [Requests -> Token] /\ mode' \in [Requests -> {"sync", "background"}]
    <3>1. [tok |-> session.tok, exp |-> session.exp] \in Token
      BY DEF TypeOK, Token
    <3> QED BY <1>1, <3>1 DEF Read, TypeOK
  <2>2. pc' \in [Requests -> Working \cup {"idle", "done"}] /\ verdict' \in [Requests -> Verdicts]
    BY <1>1 DEF Read, Finish, TypeOK, Working, Verdicts
  <2> QED BY <1>1, <2>1, <2>2 DEF Read, TypeOK
<1>2. ASSUME NEW p \in Requests, TryLock(p) PROVE TypeOK'
  <2>1. pc' \in [Requests -> Working \cup {"idle", "done"}] /\ verdict' \in [Requests -> Verdicts]
    BY <1>2 DEF TryLock, Finish, TypeOK, Working, Verdicts
  <2>2. lockBy' \in Requests \cup {NoOne} /\ missed' \subseteq Requests
    BY <1>2 DEF TryLock, TypeOK
  <2> QED BY <1>2, <2>1, <2>2 DEF TryLock, TypeOK
<1>3. ASSUME NEW p \in Requests, CallOAuth(p) PROVE TypeOK'
  <2>1. reply' \in [Requests -> Token] /\ oauth' \in [cur : Nat, grace : {"none", "short", "long"}, revoked : BOOLEAN]
    BY <1>3, Answers DEF CallOAuth
  <2>3. oauth'.cur = oauth.cur \/ oauth'.cur = oauth.cur + 1
    BY <1>3, Answers DEF CallOAuth
  <2>4. session \in [here : BOOLEAN, tok : 1..oauth'.cur, exp : Nat]
    BY <2>3 DEF TypeOK
  <2>5. pc' \in [Requests -> Working \cup {"idle", "done"}]
    BY <1>3 DEF CallOAuth, TypeOK, Working
  <2> QED BY <1>3, <2>1, <2>4, <2>5 DEF CallOAuth, TypeOK
<1>4. ASSUME NEW p \in Requests, Transient(p) PROVE TypeOK'
  BY <1>4 DEF Transient, ToUnlock, TypeOK, Token, Working, Kinds, Verdicts, NoToken, Refused, Waiting
<1>5. ASSUME NEW p \in Requests, EndSession(p) PROVE TypeOK'
  BY <1>5 DEF EndSession, ToUnlock, Fault, TypeOK, Token, Working, Kinds, Verdicts, NoToken, Refused, Waiting
<1>6. ASSUME NEW p \in Requests, WriteBack(p) PROVE TypeOK'
  <2>1. session' \in [here : BOOLEAN, tok : 1..oauth.cur, exp : Nat]
    <3>1. CASE session' = session
      BY <3>1 DEF TypeOK
    <3>2. CASE session' = Renewed(p)
      <4>1. reply[p].tok \in 1..oauth.cur /\ reply[p].exp \in Nat
        BY <1>6 DEF WriteBack, Issued, TypeOK, Token
      <4> QED BY <3>2, <4>1 DEF Renewed
    <3> QED BY <1>6, <3>1, <3>2 DEF WriteBack
  <2>2. missed' \subseteq Requests
    BY <1>6 DEF WriteBack, TypeOK, Waiting
  <2>3. ToUnlock(p, "ok") \/ ToUnlock(p, "gone")
    BY <1>6 DEF WriteBack
  <2>4. /\ pc' \in [Requests -> Working \cup {"idle", "done"}]
        /\ verdict' \in [Requests -> Verdicts] /\ reply' \in [Requests -> Token]
    <3>1. NoToken \in Token
      BY DEF NoToken, Token
    <3> QED BY <2>3, <3>1 DEF ToUnlock, TypeOK, Working, Verdicts
  <2> QED BY <1>6, <2>1, <2>2, <2>4 DEF WriteBack, TypeOK
<1>7. ASSUME NEW p \in Requests, Unlock(p) PROVE TypeOK'
  BY <1>7 DEF Unlock, Fault, TypeOK, Token, Working, Kinds, Verdicts, NoToken, Refused, Waiting
<1>8. ASSUME NEW p \in Requests, PollLock(p) PROVE TypeOK'
  BY <1>8 DEF PollLock, TypeOK, Token, Working, Kinds, Verdicts, NoToken, Refused, Waiting
<1>9. ASSUME NEW p \in Requests, PollSession(p) PROVE TypeOK'
  BY <1>9 DEF PollSession, Finish, TypeOK, Token, Working, Kinds, Verdicts, NoToken, Refused, Waiting
<1>10. ASSUME NEW p \in Requests, WaitTimeout(p) PROVE TypeOK'
  BY <1>10 DEF WaitTimeout, Finish, TypeOK, Token, Working, Kinds, Verdicts, NoToken, Refused, Waiting
<1>11. ASSUME NEW p \in Requests, StoreFails(p) PROVE TypeOK'
  BY <1>11 DEF StoreFails, Finish, TypeOK, Token, Working, Kinds, Verdicts, NoToken, Refused, Waiting
<1>12. ASSUME NEW p \in Requests, NextRequest(p) PROVE TypeOK'
  BY <1>12 DEF NextRequest, TypeOK, Token, Working, Kinds, Verdicts, NoToken, Refused, Waiting
<1>13. ASSUME NEW p \in Requests, LostReply(p) PROVE TypeOK'
  BY <1>13 DEF LostReply, ToUnlock, Fault, TypeOK, Token, Working, Kinds, Verdicts, NoToken, Refused, Waiting
<1>14. ASSUME NEW p \in Requests, WriteBackFails(p) PROVE TypeOK'
  BY <1>14 DEF WriteBackFails, ToUnlock, Fault, TypeOK, Token, Working, Kinds, Verdicts, NoToken, Refused, Waiting
<1>15. ASSUME NEW p \in Requests, Crash(p) PROVE TypeOK'
  BY <1>15 DEF Crash, Finish, Fault, TypeOK, Token, Working, Kinds, Verdicts, NoToken, Refused, Waiting
<1>16. CASE Logout
  BY <1>16 DEF Logout, TypeOK, Token, Working, Kinds, Verdicts, NoToken, Refused, Waiting
<1>17. CASE LockExpires
  BY <1>17 DEF LockExpires, Fault, HolderGone, TypeOK, Token, Working, Kinds, Verdicts, NoToken, Refused, Waiting
<1>18. CASE GraceLapses
  BY <1>18 DEF GraceLapses, TypeOK, Token, Working, Kinds, Verdicts, NoToken, Refused, Waiting
<1>19. CASE NextEpoch
  BY <1>19 DEF NextEpoch, TypeOK, Token, Working, Kinds, Verdicts, NoToken, Refused, Waiting
<1>20. CASE UNCHANGED vars
  BY <1>20 DEF vars, TypeOK, Token, Working, Kinds, Verdicts, NoToken, Refused, Waiting
<1> QED BY <1>1, <1>2, <1>3, <1>4, <1>5, <1>6, <1>7, <1>8, <1>9, <1>10, <1>11, <1>12, <1>13, <1>14, <1>15, <1>16, <1>17, <1>18, <1>19, <1>20 DEF Next, Step

\* Every step keeps what is issued.
LEMMA NextIssued ==
  ASSUME TypeOK, Issued, [Next]_vars
  PROVE  Issued'
<1>1. ASSUME NEW p \in Requests, Read(p) PROVE Issued'
  BY <1>1 DEF Read, Finish, TypeOK, Token, Issued, EndsSession, Working, NoToken, Refused
<1>2. ASSUME NEW p \in Requests, TryLock(p) PROVE Issued'
  BY <1>2 DEF TryLock, Finish, TypeOK, Token, Issued, EndsSession, Working, NoToken, Refused
<1>3. ASSUME NEW p \in Requests, CallOAuth(p) PROVE Issued'
  <2>1. oauth.cur \in Nat /\ oauth.cur >= 1 /\ epoch \in Nat /\ session.tok \in Nat
    BY DEF TypeOK
  <2>2. oauth'.cur \in Nat /\ oauth'.cur >= oauth.cur
    BY <1>3, <2>1, Answers DEF CallOAuth
  <2>3. EndsSession(p)' \/ (reply'[p].tok \in 1..oauth'.cur /\ reply'[p].exp = epoch + 2)
    BY <1>3, <2>1, Answers DEF CallOAuth, EndsSession
  <2>4. \A q \in Requests \ {p} : reply'[q] = reply[q] /\ pc'[q] = pc[q]
    BY <1>3, Answers DEF CallOAuth, TypeOK
  <2>5. \A n \in 1..oauth.cur : n \in 1..oauth'.cur
    BY <2>1, <2>2
  <2>6. pc[p] \in Working
    BY <1>3 DEF CallOAuth, Working
  <2> QED BY <1>3, <2>3, <2>4, <2>5, <2>6 DEF CallOAuth, Issued, EndsSession
<1>4. ASSUME NEW p \in Requests, Transient(p) PROVE Issued'
  BY <1>4 DEF Transient, ToUnlock, TypeOK, Token, Issued, EndsSession, Working, NoToken, Refused
<1>5. ASSUME NEW p \in Requests, EndSession(p) PROVE Issued'
  BY <1>5 DEF EndSession, ToUnlock, Fault, TypeOK, Token, Issued, EndsSession, Working, NoToken, Refused
<1>6. ASSUME NEW p \in Requests, WriteBack(p) PROVE Issued'
  BY <1>6 DEF WriteBack, ToUnlock, Renewed, MayWrite, TypeOK, Token, Issued, EndsSession, Working, NoToken, Refused
<1>7. ASSUME NEW p \in Requests, Unlock(p) PROVE Issued'
  BY <1>7 DEF Unlock, Fault, TypeOK, Token, Issued, EndsSession, Working, NoToken, Refused
<1>8. ASSUME NEW p \in Requests, PollLock(p) PROVE Issued'
  BY <1>8 DEF PollLock, TypeOK, Token, Issued, EndsSession, Working, NoToken, Refused
<1>9. ASSUME NEW p \in Requests, PollSession(p) PROVE Issued'
  BY <1>9 DEF PollSession, Finish, TypeOK, Token, Issued, EndsSession, Working, NoToken, Refused
<1>10. ASSUME NEW p \in Requests, WaitTimeout(p) PROVE Issued'
  BY <1>10 DEF WaitTimeout, Finish, TypeOK, Token, Issued, EndsSession, Working, NoToken, Refused
<1>11. ASSUME NEW p \in Requests, StoreFails(p) PROVE Issued'
  BY <1>11 DEF StoreFails, Finish, TypeOK, Token, Issued, EndsSession, Working, NoToken, Refused
<1>12. ASSUME NEW p \in Requests, NextRequest(p) PROVE Issued'
  BY <1>12 DEF NextRequest, TypeOK, Token, Issued, EndsSession, Working, NoToken, Refused
<1>13. ASSUME NEW p \in Requests, LostReply(p) PROVE Issued'
  BY <1>13 DEF LostReply, ToUnlock, Fault, TypeOK, Token, Issued, EndsSession, Working, NoToken, Refused
<1>14. ASSUME NEW p \in Requests, WriteBackFails(p) PROVE Issued'
  BY <1>14 DEF WriteBackFails, ToUnlock, Fault, TypeOK, Token, Issued, EndsSession, Working, NoToken, Refused
<1>15. ASSUME NEW p \in Requests, Crash(p) PROVE Issued'
  BY <1>15 DEF Crash, Finish, Fault, TypeOK, Token, Issued, EndsSession, Working, NoToken, Refused
<1>16. CASE Logout
  BY <1>16 DEF Logout, TypeOK, Token, Issued, EndsSession, Working, NoToken, Refused
<1>17. CASE LockExpires
  BY <1>17 DEF LockExpires, Fault, HolderGone, TypeOK, Token, Issued, EndsSession, Working, NoToken, Refused
<1>18. CASE GraceLapses
  BY <1>18 DEF GraceLapses, TypeOK, Token, Issued, EndsSession, Working, NoToken, Refused
<1>19. CASE NextEpoch
  BY <1>19 DEF NextEpoch, TypeOK, Token, Issued, EndsSession, Working, NoToken, Refused
<1>20. CASE UNCHANGED vars
  BY <1>20 DEF vars, TypeOK, Token, Issued, EndsSession, Working, NoToken, Refused
<1> QED BY <1>1, <1>2, <1>3, <1>4, <1>5, <1>6, <1>7, <1>8, <1>9, <1>10, <1>11, <1>12, <1>13, <1>14, <1>15, <1>16, <1>17, <1>18, <1>19, <1>20 DEF Next, Step

\* Every step keeps the lock with its holder.
LEMMA NextHolder ==
  ASSUME TypeOK, OneHolder, [Next]_vars
  PROVE  OneHolder'
<1>1. ASSUME NEW p \in Requests, Read(p) PROVE OneHolder'
  BY <1>1 DEF Read, Finish, TypeOK, OneHolder, Holding, Working
<1>2. ASSUME NEW p \in Requests, TryLock(p) PROVE OneHolder'
  <2>1. UNCHANGED faults /\ pc[p] = "lock"
    BY <1>2 DEF TryLock
  <2>2. CASE lockBy = NoOne
    <3>1. lockBy' = p /\ pc' = [pc EXCEPT ![p] = "refresh"]
      BY <1>2, <2>2 DEF TryLock
    <3>2. \A q \in Requests : pc'[q] = IF q = p THEN "refresh" ELSE pc[q]
      BY <3>1 DEF TypeOK
    <3> QED BY <2>1, <2>2, <3>1, <3>2, SessionAssumption DEF OneHolder, Holding
  <2>3. CASE lockBy # NoOne
    <3>1. lockBy' = lockBy /\ (pc' = [pc EXCEPT ![p] = "poll"] \/ pc' = [pc EXCEPT ![p] = "done"])
      BY <1>2, <2>3 DEF TryLock, Finish
    <3>2. \A q \in Requests : pc'[q] = pc[q] \/ (q = p /\ pc'[q] \in {"poll", "done"})
      BY <3>1 DEF TypeOK
    <3> QED BY <2>1, <3>1, <3>2 DEF OneHolder, Holding
  <2> QED BY <2>2, <2>3
<1>3. ASSUME NEW p \in Requests, CallOAuth(p) PROVE OneHolder'
  BY <1>3 DEF CallOAuth, Answer, TypeOK, OneHolder, Holding, Working
<1>4. ASSUME NEW p \in Requests, Transient(p) PROVE OneHolder'
  BY <1>4 DEF Transient, ToUnlock, TypeOK, OneHolder, Holding, Working
<1>5. ASSUME NEW p \in Requests, EndSession(p) PROVE OneHolder'
  BY <1>5 DEF EndSession, ToUnlock, Fault, TypeOK, OneHolder, Holding, Working
<1>6. ASSUME NEW p \in Requests, WriteBack(p) PROVE OneHolder'
  BY <1>6 DEF WriteBack, ToUnlock, Renewed, MayWrite, TypeOK, OneHolder, Holding, Working
<1>7. ASSUME NEW p \in Requests, Unlock(p) PROVE OneHolder'
  <2>1. pc' = [pc EXCEPT ![p] = "done"] /\ faults \subseteq faults'
    BY <1>7 DEF Unlock, Fault
  <2>2. \A q \in Requests : pc'[q] = IF q = p THEN "done" ELSE pc[q]
    BY <2>1 DEF TypeOK
  <2>3. "expired" \notin faults' => lockBy = p /\ \A q \in Requests \ {p} : pc[q] \notin Holding
    BY <1>7, <2>1 DEF Unlock, OneHolder, Holding
  <2>4. faults' = {} => lockBy' = NoOne
    BY <1>7 DEF Unlock, Fault
  <2> QED BY <2>2, <2>3, <2>4, SessionAssumption DEF OneHolder, Holding
<1>8. ASSUME NEW p \in Requests, PollLock(p) PROVE OneHolder'
  BY <1>8 DEF PollLock, TypeOK, OneHolder, Holding, Working
<1>9. ASSUME NEW p \in Requests, PollSession(p) PROVE OneHolder'
  BY <1>9 DEF PollSession, Finish, TypeOK, OneHolder, Holding, Working
<1>10. ASSUME NEW p \in Requests, WaitTimeout(p) PROVE OneHolder'
  BY <1>10 DEF WaitTimeout, Finish, TypeOK, OneHolder, Holding, Working
<1>11. ASSUME NEW p \in Requests, StoreFails(p) PROVE OneHolder'
  BY <1>11 DEF StoreFails, Finish, TypeOK, OneHolder, Holding, Working
<1>12. ASSUME NEW p \in Requests, NextRequest(p) PROVE OneHolder'
  BY <1>12 DEF NextRequest, TypeOK, OneHolder, Holding, Working
<1>13. ASSUME NEW p \in Requests, LostReply(p) PROVE OneHolder'
  BY <1>13 DEF LostReply, ToUnlock, Fault, TypeOK, OneHolder, Holding, Working
<1>14. ASSUME NEW p \in Requests, WriteBackFails(p) PROVE OneHolder'
  BY <1>14 DEF WriteBackFails, ToUnlock, Fault, TypeOK, OneHolder, Holding, Working
<1>15. ASSUME NEW p \in Requests, Crash(p) PROVE OneHolder'
  BY <1>15 DEF Crash, Finish, Fault, TypeOK, OneHolder, Holding, Working
<1>16. CASE Logout
  BY <1>16 DEF Logout, TypeOK, OneHolder, Holding, Working
<1>17. CASE LockExpires
  BY <1>17 DEF LockExpires, Fault, HolderGone, TypeOK, OneHolder, Holding, Working
<1>18. CASE GraceLapses
  BY <1>18 DEF GraceLapses, TypeOK, OneHolder, Holding, Working
<1>19. CASE NextEpoch
  BY <1>19 DEF NextEpoch, TypeOK, OneHolder, Holding, Working
<1>20. CASE UNCHANGED vars
  BY <1>20 DEF vars, TypeOK, OneHolder, Holding, Working
<1> QED BY <1>1, <1>2, <1>3, <1>4, <1>5, <1>6, <1>7, <1>8, <1>9, <1>10, <1>11, <1>12, <1>13, <1>14, <1>15, <1>16, <1>17, <1>18, <1>19, <1>20 DEF Next, Step

\* Every step keeps the token current.
LEMMA NextCalm ==
  ASSUME TypeOK, Issued, OneHolder, Calm, [Next]_vars
  PROVE  Calm'
<1>1. ASSUME NEW p \in Requests, Read(p) PROVE Calm'
  BY <1>1 DEF Read, Finish, TypeOK, Calm, Behind, Working
<1>2. ASSUME NEW p \in Requests, TryLock(p) PROVE Calm'
  BY <1>2 DEF TryLock, Finish, TypeOK, Calm, Behind, Working
<1>3. ASSUME NEW p \in Requests, CallOAuth(p) PROVE Calm'
  <2> SUFFICES ASSUME faults = {}, ~over PROVE Calm'
    BY <1>3 DEF CallOAuth, Calm
  <2>1. /\ session.here /\ ~oauth.revoked /\ oauth.cur \in Nat /\ oauth.cur >= 1 /\ epoch \in Nat
        /\ session.tok \in Nat /\ session.exp \in Nat
    BY DEF Calm, TypeOK
  <2>2. \A q \in Requests : pc[q] # "answered"
    BY <1>3 DEF CallOAuth, OneHolder, Holding
  <2>3. session.tok = oauth.cur
    BY <2>2 DEF Calm
  <2>4. /\ \/ session.exp <= epoch + 1 /\ seen[p].tok = session.tok
           \/ session.exp = epoch + 2 /\ seen[p].tok + 1 = session.tok
        /\ seen[p].tok = oauth.cur \/ oauth.grace # "none"
    BY <1>3 DEF CallOAuth, Calm, Behind
  <2>5. seen[p].tok \in Nat
    BY DEF TypeOK, Token
  <2>6. /\ UNCHANGED <<session, seen, epoch, over, faults>>
        /\ \A q \in Requests : pc'[q] = IF q = p THEN "answered" ELSE pc[q]
    BY <1>3 DEF CallOAuth, TypeOK
  <2>7. CASE session.exp <= epoch + 1 /\ seen[p].tok = session.tok
    <3>1. /\ oauth'.cur = oauth.cur + 1 /\ oauth'.grace # "none" /\ ~oauth'.revoked
          /\ reply'[p].tok = oauth'.cur /\ reply'[p].exp = epoch + 2
      BY <1>3, <2>1, <2>3, <2>7, Answers DEF CallOAuth
    <3> QED BY <2>1, <2>2, <2>3, <2>6, <2>7, <3>1 DEF Calm, Behind
  <2>8. CASE session.exp = epoch + 2 /\ seen[p].tok + 1 = session.tok
    <3>1. oauth' = oauth /\ reply'[p].tok = oauth.cur /\ reply'[p].exp = epoch + 2
      BY <1>3, <2>1, <2>3, <2>4, <2>5, <2>8, Answers DEF CallOAuth
    <3> QED BY <2>1, <2>2, <2>3, <2>4, <2>6, <2>8, <3>1 DEF Calm, Behind
  <2> QED BY <2>4, <2>7, <2>8
<1>4. ASSUME NEW p \in Requests, Transient(p) PROVE Calm'
  BY <1>4 DEF Transient, ToUnlock, TypeOK, Calm, Behind, Working
<1>5. ASSUME NEW p \in Requests, EndSession(p) PROVE Calm'
  <2> SUFFICES ASSUME Calm, faults = {}, ~over PROVE FALSE
    BY <1>5 DEF EndSession, ToUnlock, Fault, Calm
  <2>1. reply[p].exp = epoch + 2 /\ epoch \in Nat
    BY <1>5 DEF EndSession, Calm, TypeOK
  <2>2. reply[p].exp = 0
    BY <1>5 DEF EndSession, EndsSession, Refused
  <2> QED BY <2>1, <2>2
<1>6. ASSUME NEW p \in Requests, WriteBack(p) PROVE Calm'
  BY <1>6 DEF WriteBack, ToUnlock, Renewed, MayWrite, TypeOK, Calm, Behind, Working
<1>7. ASSUME NEW p \in Requests, Unlock(p) PROVE Calm'
  BY <1>7 DEF Unlock, Fault, TypeOK, Calm, Behind, Working
<1>8. ASSUME NEW p \in Requests, PollLock(p) PROVE Calm'
  BY <1>8 DEF PollLock, TypeOK, Calm, Behind, Working
<1>9. ASSUME NEW p \in Requests, PollSession(p) PROVE Calm'
  BY <1>9 DEF PollSession, Finish, TypeOK, Calm, Behind, Working
<1>10. ASSUME NEW p \in Requests, WaitTimeout(p) PROVE Calm'
  BY <1>10 DEF WaitTimeout, Finish, TypeOK, Calm, Behind, Working
<1>11. ASSUME NEW p \in Requests, StoreFails(p) PROVE Calm'
  BY <1>11 DEF StoreFails, Finish, TypeOK, Calm, Behind, Working
<1>12. ASSUME NEW p \in Requests, NextRequest(p) PROVE Calm'
  BY <1>12 DEF NextRequest, TypeOK, Calm, Behind, Working
<1>13. ASSUME NEW p \in Requests, LostReply(p) PROVE Calm'
  BY <1>13 DEF LostReply, ToUnlock, Fault, TypeOK, Calm, Behind, Working
<1>14. ASSUME NEW p \in Requests, WriteBackFails(p) PROVE Calm'
  BY <1>14 DEF WriteBackFails, ToUnlock, Fault, TypeOK, Calm, Behind, Working
<1>15. ASSUME NEW p \in Requests, Crash(p) PROVE Calm'
  BY <1>15 DEF Crash, Finish, Fault, TypeOK, Calm, Behind, Working
<1>16. CASE Logout
  BY <1>16 DEF Logout, TypeOK, Calm, Behind, Working
<1>17. CASE LockExpires
  BY <1>17 DEF LockExpires, Fault, HolderGone, TypeOK, Calm, Behind, Working
<1>18. CASE GraceLapses
  BY <1>18 DEF GraceLapses, TypeOK, Calm, Behind, Working
<1>19. CASE NextEpoch
  BY <1>19 DEF NextEpoch, TypeOK, Calm, Behind, Working
<1>20. CASE UNCHANGED vars
  BY <1>20 DEF vars, TypeOK, Calm, Behind, Working
<1> QED BY <1>1, <1>2, <1>3, <1>4, <1>5, <1>6, <1>7, <1>8, <1>9, <1>10, <1>11, <1>12, <1>13, <1>14, <1>15, <1>16, <1>17, <1>18, <1>19, <1>20 DEF Next, Step

\* Every step leaves a waiter something to wait for.
LEMMA NextWaits ==
  ASSUME TypeOK, Issued, OneHolder, Waits, [Next]_vars
  PROVE  Waits'
<1>1. ASSUME NEW p \in Requests, Read(p) PROVE Waits'
  BY <1>1 DEF Read, Finish, TypeOK, OneHolder, Holding, Issued, Waits, Settled, AtIt, Waiting, Working
<1>2. ASSUME NEW p \in Requests, TryLock(p) PROVE Waits'
  BY <1>2 DEF TryLock, Finish, TypeOK, OneHolder, Holding, Issued, Waits, Settled, AtIt, Waiting, Working
<1>3. ASSUME NEW p \in Requests, CallOAuth(p) PROVE Waits'
  BY <1>3 DEF CallOAuth, Answer, TypeOK, OneHolder, Holding, Issued, Waits, Settled, AtIt, Waiting, Working
<1>4. ASSUME NEW p \in Requests, Transient(p) PROVE Waits'
  BY <1>4 DEF Transient, ToUnlock, TypeOK, OneHolder, Holding, Issued, Waits, Settled, AtIt, Waiting, Working
<1>5. ASSUME NEW p \in Requests, EndSession(p) PROVE Waits'
  BY <1>5 DEF EndSession, ToUnlock, Fault, TypeOK, OneHolder, Holding, Issued, Waits, Settled, AtIt, Waiting, Working
<1>6. ASSUME NEW p \in Requests, WriteBack(p) PROVE Waits'
  <2> SUFFICES ASSUME "expired" \notin faults PROVE Waits'
    BY <1>6 DEF WriteBack, Waits
  <2>1. pc[p] = "answered" /\ UNCHANGED <<lockBy, seen, held, epoch, faults>>
    BY <1>6 DEF WriteBack
  <2>2. /\ \A q \in Requests : pc'[q] = IF q = p THEN "unlock" ELSE pc[q]
        /\ \A q \in Requests : verdict'[q] = IF q = p THEN verdict'[p] ELSE verdict[q]
        /\ verdict'[p] # "failed"
    BY <1>6 DEF WriteBack, ToUnlock, TypeOK
  <2>3. CASE session.here
    <3>1. session'.exp = epoch + 2 /\ UNCHANGED missed
      BY <1>6, <2>3 DEF WriteBack, MayWrite, Renewed, Issued, EndsSession
    <3>2. \A q \in Requests : pc[q] \in Working => seen[q].exp < epoch + 2
      BY DEF Issued, TypeOK, Token
    <3> QED BY <2>1, <2>2, <3>1, <3>2 DEF Waits, Settled, Waiting, Working
  <2>4. CASE ~session.here
    <3>1. session' = session /\ missed' = missed \cup Waiting
      BY <1>6, <2>4 DEF WriteBack, MayWrite
    <3> QED BY <2>1, <2>2, <2>4, <3>1 DEF Waits, Settled, Waiting, Working
  <2> QED BY <2>3, <2>4
<1>7. ASSUME NEW p \in Requests, Unlock(p) PROVE Waits'
  BY <1>7 DEF Unlock, Fault, TypeOK, OneHolder, Holding, Issued, Waits, Settled, AtIt, Waiting, Working
<1>8. ASSUME NEW p \in Requests, PollLock(p) PROVE Waits'
  BY <1>8 DEF PollLock, TypeOK, OneHolder, Holding, Issued, Waits, Settled, AtIt, Waiting, Working
<1>9. ASSUME NEW p \in Requests, PollSession(p) PROVE Waits'
  BY <1>9 DEF PollSession, Finish, TypeOK, OneHolder, Holding, Issued, Waits, Settled, AtIt, Waiting, Working
<1>10. ASSUME NEW p \in Requests, WaitTimeout(p) PROVE Waits'
  BY <1>10 DEF WaitTimeout, Finish, TypeOK, OneHolder, Holding, Issued, Waits, Settled, AtIt, Waiting, Working
<1>11. ASSUME NEW p \in Requests, StoreFails(p) PROVE Waits'
  BY <1>11 DEF StoreFails, Finish, TypeOK, OneHolder, Holding, Issued, Waits, Settled, AtIt, Waiting, Working
<1>12. ASSUME NEW p \in Requests, NextRequest(p) PROVE Waits'
  BY <1>12 DEF NextRequest, TypeOK, OneHolder, Holding, Issued, Waits, Settled, AtIt, Waiting, Working
<1>13. ASSUME NEW p \in Requests, LostReply(p) PROVE Waits'
  BY <1>13 DEF LostReply, ToUnlock, Fault, TypeOK, OneHolder, Holding, Issued, Waits, Settled, AtIt, Waiting, Working
<1>14. ASSUME NEW p \in Requests, WriteBackFails(p) PROVE Waits'
  BY <1>14 DEF WriteBackFails, ToUnlock, Fault, TypeOK, OneHolder, Holding, Issued, Waits, Settled, AtIt, Waiting, Working
<1>15. ASSUME NEW p \in Requests, Crash(p) PROVE Waits'
  BY <1>15 DEF Crash, Finish, Fault, TypeOK, OneHolder, Holding, Issued, Waits, Settled, AtIt, Waiting, Working
<1>16. CASE Logout
  BY <1>16 DEF Logout, TypeOK, OneHolder, Holding, Issued, Waits, Settled, AtIt, Waiting, Working
<1>17. CASE LockExpires
  BY <1>17 DEF LockExpires, Fault, HolderGone, TypeOK, OneHolder, Holding, Issued, Waits, Settled, AtIt, Waiting, Working
<1>18. CASE GraceLapses
  BY <1>18 DEF GraceLapses, TypeOK, OneHolder, Holding, Issued, Waits, Settled, AtIt, Waiting, Working
<1>19. CASE NextEpoch
  BY <1>19 DEF NextEpoch, TypeOK, OneHolder, Holding, Issued, Waits, Settled, AtIt, Waiting, Working
<1>20. CASE UNCHANGED vars
  BY <1>20 DEF vars, TypeOK, OneHolder, Holding, Issued, Waits, Settled, AtIt, Waiting, Working
<1> QED BY <1>1, <1>2, <1>3, <1>4, <1>5, <1>6, <1>7, <1>8, <1>9, <1>10, <1>11, <1>12, <1>13, <1>14, <1>15, <1>16, <1>17, <1>18, <1>19, <1>20 DEF Next, Step

\* The first state: a session as CreateSession made it.
LEMMA InitSession == Init => SessionInv
<1> SUFFICES ASSUME Init PROVE SessionInv
  OBVIOUS
<1>1. TypeOK
  <2>1. oauth.cur = 1 /\ oauth \in [cur : Nat, grace : {"none", "short", "long"}, revoked : BOOLEAN]
    BY DEF Init
  <2>2. session \in [here : BOOLEAN, tok : 1..oauth.cur, exp : Nat]
    BY <2>1 DEF Init
  <2>3. NoToken \in Token
    BY DEF NoToken, Token
  <2> QED BY <2>1, <2>2, <2>3 DEF Init, TypeOK, Working, Verdicts, Kinds
<1>2. Issued
  BY DEF Init, Issued, Working
<1>3. OneHolder
  BY SessionAssumption DEF Init, OneHolder, Holding
<1>4. Calm
  BY DEF Init, Calm, Behind
<1>5. Waits
  BY DEF Init, Waits, Waiting
<1> QED BY <1>1, <1>2, <1>3, <1>4, <1>5 DEF SessionInv

\* Every step keeps the whole of it.
LEMMA NextSession == SessionInv /\ [Next]_vars => SessionInv'
BY NextType, NextIssued, NextHolder, NextCalm, NextWaits DEF SessionInv

\* The variables keep their types, and the session never holds a token that
\* OAuth has not issued (session.go, every handler).
THEOREM TypeCorrect == Spec => []TypeOK
<1>1. SessionInv => TypeOK
  BY DEF SessionInv
<1> QED BY <1>1, InitSession, NextSession, PTL DEF Spec

\* Concurrent requests alone never log a reader out (liveSession and
\* refreshLive of internal/middleware/session.go).
THEOREM NobodyIsLoggedOut == Spec => []NoSpuriousLogout
<1>1. SessionInv => NoSpuriousLogout
  BY DEF SessionInv, Calm, NoSpuriousLogout
<1> QED BY <1>1, InitSession, NextSession, PTL DEF Spec

\* Without a fault the saved token is the current one whenever the lock is
\* free, and a waiter that reports a failure has missed a refresh
\* (waitForRefreshedSession).
THEOREM RefreshesSettle == Spec => []RefreshSettles
<1>1. SessionInv => RefreshSettles
  <2> SUFFICES ASSUME SessionInv PROVE RefreshSettles
    OBVIOUS
  <2>1. ASSUME faults = {}, session.here, lockBy = NoOne PROVE session.tok = oauth.cur
    <3>1. ~over
      BY <2>1 DEF SessionInv, Issued
    <3>2. \A p \in Requests : pc[p] # "answered"
      BY <2>1, SessionAssumption DEF SessionInv, OneHolder, Holding
    <3> QED BY <2>1, <3>1, <3>2 DEF SessionInv, Calm
  <2> QED BY <2>1 DEF SessionInv, Waits, RefreshSettles
<1> QED BY <1>1, InitSession, NextSession, PTL DEF Spec

\* No refresh in flight brings back a session that is gone (the Lua script of
\* the write-back rewrites only what is there).
THEOREM GoneStaysGone == Spec => NoResurrection
<1>1. TypeOK /\ [Next]_vars => [~session.here => ~session'.here]_vars
  <2> SUFFICES ASSUME TypeOK, [Next]_vars, ~session.here PROVE ~session'.here
    OBVIOUS
  <2>1. CASE UNCHANGED vars
    BY <2>1 DEF vars
  <2>2. ASSUME NEW p \in Requests, WriteBack(p) PROVE ~session'.here
    BY <2>2 DEF WriteBack, MayWrite
  <2>3. ASSUME NEW p \in Requests, EndSession(p) PROVE ~session'.here
    BY <2>3 DEF EndSession, TypeOK
  <2>4. ASSUME NEW p \in Requests, \/ Read(p) \/ TryLock(p) \/ CallOAuth(p) \/ Transient(p) \/ Unlock(p)
                                   \/ PollLock(p) \/ PollSession(p) \/ WaitTimeout(p) \/ StoreFails(p)
                                   \/ NextRequest(p) \/ LostReply(p) \/ WriteBackFails(p) \/ Crash(p)
        PROVE ~session'.here
    <3>1. session' = session
      BY <2>4 DEF Read, TryLock, CallOAuth, Transient, Unlock, PollLock, PollSession, WaitTimeout,
                  StoreFails, NextRequest, LostReply, WriteBackFails, Crash
    <3> QED BY <3>1
  <2>5. CASE Logout \/ LockExpires \/ GraceLapses \/ NextEpoch
    BY <2>5 DEF Logout, LockExpires, GraceLapses, NextEpoch, TypeOK
  <2> QED BY <2>1, <2>2, <2>3, <2>4, <2>5 DEF Next, Step
<1> QED BY <1>1, TypeCorrect, PTL DEF Spec, NoResurrection
-----------------------------------------------------------------------------
(***************************************************************************)
(* What an account leaves behind (Account).                                *)
(*                                                                         *)
(* Why: a token that is not in a session is with the sign-in that bought   *)
(* it, alone, or on its way to be revoked, and one that is both has a      *)
(* sign-out at it (Owned).  A purge that met nobody at work since it       *)
(* deleted the posts has nobody at work (Quiet), and it sweeps only files  *)
(* whose rows are gone (Listed).                                           *)
(***************************************************************************)

SigningIn == {"info", "row", "session"}
Publishing == {"provision", "stub", "post"}
Visit == [at : {"idle", "exchange", "destroy", "comment"} \cup SigningIn \cup Publishing,
          n : {0} \cup Member!Numbers, r : SUBSET Resources]
Purge == [at : {"idle", "list", "author", "local", "sweep", "scan", "done"}, owned : BOOLEAN,
          list : SUBSET Resources, todo : SUBSET Member!Numbers, before : SUBSET Member!Numbers]
Fate == {"none", "account", "other", "gone", "lost"}

\* A request has a token or resources only where it needs them.
VisitShape ==
  /\ a_call \in [Calls -> Visit]
  /\ \A c \in Calls :
       /\ a_call[c].at \in SigningIn \cup {"destroy"} <=> a_call[c].n # 0
       /\ a_call[c].at \notin Publishing => a_call[c].r = {}

AccountShape ==
  /\ Member!TypeOK /\ VisitShape /\ a_purge \in Purge
  /\ a_res \in [Resources -> Fate] /\ a_active \in BOOLEAN /\ a_owned \in BOOLEAN

\* Who signs in with token n has it alone.
HasToken(c, n) == a_call[c].at \in SigningIn /\ a_call[c].n = n
Leaves(n) == \E c \in Calls : a_call[c].at = "destroy" /\ a_call[c].n = n
Owned ==
  /\ a_sess \cup a_revoke \cup a_tokens \cup a_purge.before \subseteq 1..a_made
  /\ \A c \in Calls : a_call[c].n \in 0..a_made
  /\ \A c \in Calls, n \in Member!Numbers : HasToken(c, n) =>
       /\ n \in a_tokens /\ n \notin a_sess \cup a_revoke \cup a_purge.before
       /\ \A o \in Calls : HasToken(o, n) => o = c
  /\ \A n \in a_tokens :
       n \in a_sess \cup a_revoke \cup a_stray \/ \E c \in Calls : HasToken(c, n)
  /\ \A n \in a_sess : (n \in a_tokens /\ n \notin a_revoke) \/ n \in a_missed \/ Leaves(n)
  /\ \A n \in a_tokens : Leaves(n) => n \in a_revoke \cup a_stray

\* After the posts went, who is at work has been noticed; the scan has before it
\* what is left of the sessions the purge began with.
PostsGone == {"local", "sweep", "scan", "done"}
Quiet ==
  /\ a_purge.at \in PostsGone =>
       a_active \/ (~Member!Working /\ a_posts = {})
  /\ a_purge.at \in {"sweep", "scan", "done"} =>
       a_active \/ (~a_user /\ a_page # "account" /\ Member!Mine = {})
  /\ a_purge.at = "scan" => a_purge.before \cap a_sess \subseteq a_purge.todo \cup a_missed
  /\ a_purge.at = "done" => a_purge.before \cap a_sess \subseteq a_missed

\* The files a purge has listed are those it takes, then those whose rows are gone.
Listed ==
  /\ a_purge.at = "list" => a_purge.list = {}
  /\ a_purge.at \in {"author", "local"} => a_purge.list \subseteq Member!Doomed
  /\ a_purge.at = "sweep" => \A r \in a_purge.list : a_res[r] \in {"gone", "lost"}
  /\ \A c \in Calls : \A r \in a_call[c].r :
       a_res[r] = "none" /\ \A o \in Calls : r \in a_call[o].r => o = c
  /\ a_store \subseteq Member!Mine \cup Member!Others \cup a_left
                        \cup IF a_purge.at = "sweep" THEN a_purge.list ELSE {}

\* What is on a page has its page, its owner and its file.
Homes ==
  /\ a_owned \/ \A r \in Resources : a_res[r] # "lost"
  /\ Member!Mine \cup Member!Others # {} => a_page # "none"
  /\ (a_page = "account" \/ Member!Mine # {}) => a_user
  /\ Member!Mine \cup Member!Others \subseteq a_store

AccountInv == AccountShape /\ Owned /\ Quiet /\ Listed /\ Homes

LEMMA VisitMoves ==
  ASSUME VisitShape, NEW c \in Calls, NEW v \in Visit, a_call' = [a_call EXCEPT ![c] = v],
         v.at \in SigningIn \cup {"destroy"} <=> v.n # 0,
         v.at \notin Publishing => v.r = {}
  PROVE  VisitShape' /\ \A o \in Calls : a_call'[o] = IF o = c THEN v ELSE a_call[o]
  BY DEF VisitShape

\* A request that ends, or goes on without its token, leaves the shape.
LEMMA NoVisit == Member!NoCall \in Visit /\ Member!NoCall.at = "idle" /\ Member!NoCall.n = 0 /\ Member!NoCall.r = {}
  BY DEF Member!NoCall, Visit

LEMMA BoundsKept ==
  ASSUME Member!TypeOK,
         Member!Fault \/ a_faults' = a_faults,
         (a_reqs < MaxReq /\ a_reqs' = a_reqs + 1) \/ a_reqs' = a_reqs
  PROVE  a_faults' \in 0..MaxFault /\ a_reqs' \in 0..MaxReq
  BY SessionAssumption, AccountAssumption DEF Member!Fault, Member!TypeOK

\* A step that moves no token.
LEMMA OwnedKept ==
  ASSUME Owned, a_tokens \subseteq Member!Numbers,
         UNCHANGED <<a_tokens, a_sess, a_revoke, a_missed, a_stray>>,
         a_made \in Nat, a_made' \in Nat, a_made <= a_made', a_purge'.before \subseteq a_purge.before \cup a_sess,
         \A c \in Calls : a_call'[c].n \in 0..a_made',
         \A c \in Calls, n \in Member!Numbers : HasToken(c, n)' <=> HasToken(c, n),
         \A n : Leaves(n)' <=> Leaves(n)
  PROVE  Owned'
  <1>1. a_sess' \cup a_revoke' \cup a_tokens' \cup a_purge'.before \subseteq 1..a_made'
    <2>1. 1..a_made \subseteq 1..a_made'
      OBVIOUS
    <2> QED
      BY <2>1 DEF Owned
  <1>2. \A c \in Calls, n \in Member!Numbers : HasToken(c, n)' => n \notin a_purge'.before
    BY DEF Owned
  <1> QED
    BY <1>1, <1>2 DEF Owned

\* A sign-in parts with its token.
LEMMA OwnedGiven ==
  ASSUME Owned, a_made \in Nat, a_tokens \subseteq Member!Numbers, NEW c \in Calls, NEW n \in Member!Numbers, HasToken(c, n),
         UNCHANGED <<a_tokens, a_missed, a_made>>, a_purge'.before = a_purge.before,
         \/ a_revoke' = a_revoke \cup {n} /\ UNCHANGED <<a_sess, a_stray>>
         \/ a_stray' = a_stray \cup {n} /\ UNCHANGED <<a_sess, a_revoke>>
         \/ a_sess' = a_sess \cup {n} /\ UNCHANGED <<a_stray, a_revoke>>,
         \A o \in Calls : a_call'[o].n \in {0, a_call[o].n},
         \A o \in Calls, m \in Member!Numbers : HasToken(o, m)' <=> o # c /\ HasToken(o, m),
         \A m : Leaves(m)' <=> Leaves(m)
  PROVE  Owned'
  <1>1. n \in 1..a_made /\ \A o \in Calls : a_call'[o].n \in 0..a_made
    <2>1. a_call[c].n = n /\ n # 0 /\ 0 \in 0..a_made
      BY AccountAssumption DEF HasToken, Member!Numbers, Owned
    <2> QED
      BY <2>1 DEF Owned
  <1>2. /\ n \in a_tokens /\ n \notin a_sess \cup a_revoke \cup a_purge.before
        /\ \A o \in Calls : HasToken(o, n) => o = c
    BY DEF Owned
  <1>3. \A m : HasToken(c, m) => m = n
    BY DEF HasToken
  <1>4. \A m \in a_tokens : m \in a_sess' \cup a_revoke' \cup a_stray' \/ \E o \in Calls : HasToken(o, m)'
    <2> SUFFICES ASSUME NEW m \in a_tokens, m # n
                 PROVE  m \in a_sess' \cup a_revoke' \cup a_stray' \/ \E o \in Calls : HasToken(o, m)'
      OBVIOUS
    <2>1. m \in a_sess \cup a_revoke \cup a_stray \/ \E o \in Calls : HasToken(o, m)
      BY DEF Owned
    <2>2. m \in Member!Numbers
      OBVIOUS
    <2> QED
      BY <2>1, <2>2, <1>3
  <1>5. \A o \in Calls, m \in Member!Numbers : HasToken(o, m)' => m # n
    BY <1>2
  <1> QED
    BY <1>1, <1>2, <1>4, <1>5 DEF Owned

\* Who is at work when its step comes has been noticed.
LEMMA QuietKept ==
  ASSUME Quiet, a_purge.at \in PostsGone => a_active',
         a_purge'.at = a_purge.at, a_purge'.before = a_purge.before,
         a_purge.before \cap a_sess' \subseteq a_sess,
         a_purge.todo \subseteq a_purge'.todo, a_missed \subseteq a_missed'
  PROVE  Quiet'
  BY DEF Quiet, PostsGone

\* A step that touches neither rows nor files.
LEMMA FilesKept ==
  ASSUME Listed, Homes, UNCHANGED <<a_res, a_page, a_store, a_left, a_owned>>, a_user => a_user',
         a_purge'.at = a_purge.at, a_purge'.list = a_purge.list, a_purge'.owned = a_purge.owned,
         \A c \in Calls : a_call'[c].r \subseteq a_call[c].r
  PROVE  Listed' /\ Homes'
  <1>1. Listed'
    BY DEF Listed, Member!Doomed, Member!Mine, Member!Others
  <1>2. Homes'
    BY DEF Homes, Member!Mine, Member!Others
  <1> QED
    BY <1>1, <1>2


\* What a sign-in does with the token it buys.
LEMMA ExchangeSteps ==
  ASSUME AccountInv, NEW c \in Calls, Member!ExchangeCode(c)
  PROVE  AccountInv'
  <1>0. PICK n : n = a_made + 1
    OBVIOUS
  <1> DEFINE v == [a_call[c] EXCEPT !.at = "info", !.n = n]
  <1>1. PICK w \in {v, Member!NoCall} :
          a_call' = [a_call EXCEPT ![c] = w] /\ (w = v \/ a_stray' = a_stray \cup {n})
    BY <1>0 DEF Member!ExchangeCode, Member!Answered
  <1>2. /\ a_call[c] \in Visit /\ a_call[c].at = "exchange" /\ a_call[c].r = {}
        /\ n \in Member!Numbers /\ n # 0 /\ a_made \in Nat
    BY <1>0 DEF Member!ExchangeCode, AccountInv, AccountShape, VisitShape, Publishing, Member!Numbers, Member!TypeOK
  <1>3. v \in Visit /\ v.at = "info" /\ v.n = n /\ v.r = {}
    BY <1>2 DEF Visit, SigningIn
  <1>4. w \in Visit /\ w.r = {} /\ w.at \notin Publishing /\ (w.at \in SigningIn \cup {"destroy"} <=> w.n # 0)
    BY <1>2, <1>3, NoVisit DEF SigningIn, Publishing
  <1>5. VisitShape' /\ \A o \in Calls : a_call'[o] = IF o = c THEN w ELSE a_call[o]
    BY <1>1, <1>4, VisitMoves DEF AccountInv, AccountShape
  <1>6. AccountShape'
    <2>1. a_made' \in 1..MaxSign /\ a_faults' \in 0..MaxFault
      BY <1>0, <1>2, BoundsKept, AccountAssumption DEF Member!ExchangeCode, AccountInv, AccountShape, Member!Numbers
    <2> QED
      BY <1>5, <1>2, <2>1 DEF AccountInv, AccountShape, Member!ExchangeCode, Member!TypeOK, VisitShape, Visit,
       Member!here
  <1>7. Owned'
    <2>1. /\ a_tokens' = a_tokens \cup {n} /\ a_stray \subseteq a_stray' /\ a_made' = n
          /\ UNCHANGED <<a_sess, a_revoke, a_purge, a_missed>>
      BY <1>0 DEF Member!ExchangeCode
    <2>2. /\ n \notin 1..a_made /\ n \in 1..n /\ 1..a_made \subseteq 1..n
          /\ n \notin a_sess \cup a_revoke \cup a_tokens \cup a_purge.before
      BY <1>0, <1>2 DEF AccountInv, Owned
    <2>3. \A o \in Calls, m \in Member!Numbers : HasToken(o, m)' <=>
             (o = c /\ m = n /\ w = v) \/ (o # c /\ HasToken(o, m))
      BY <1>5, <1>2, <1>3, <1>1, NoVisit DEF HasToken, SigningIn
    <2>4. \A m : Leaves(m)' <=> Leaves(m)
      BY <1>5, <1>2, <1>3, <1>1, NoVisit DEF Leaves
    <2>5. \A m \in Member!Numbers : ~HasToken(c, m)
      BY <1>2 DEF HasToken, SigningIn
    <2>6. a_tokens \subseteq Member!Numbers
      BY DEF AccountInv, AccountShape, Member!TypeOK
    <2>7. \A m \in a_tokens' : m \in a_sess' \cup a_revoke' \cup a_stray' \/ \E o \in Calls : HasToken(o, m)'
      BY <2>1, <2>3, <2>5, <2>6, <1>1, <1>2 DEF AccountInv, Owned
    <2>8. \A o \in Calls : a_call[o].n \in 0..a_made /\ a_call'[o].n \in 0..n
      <3>1. \A o \in Calls : a_call[o].n \in 0..a_made
        BY DEF AccountInv, Owned
      <3>2. w.n \in {0, n}
        BY <1>1, <1>3, NoVisit
      <3> QED
        BY <3>1, <3>2, <1>0, <1>2, <1>5
    <2>9. \A m \in a_tokens' : Leaves(m)' => m \in a_revoke' \cup a_stray'
      <3>1. ~Leaves(n)
        BY <2>8, <1>0, <1>2 DEF Leaves
      <3> QED
        BY <2>1, <2>4, <3>1 DEF AccountInv, Owned
    <2>10. \A o \in Calls, m \in Member!Numbers : HasToken(o, m) => m # n
      BY <2>8, <1>0, <1>2 DEF HasToken
    <2> QED
      BY <2>1, <2>2, <2>3, <2>4, <2>7, <2>8, <2>9, <2>10 DEF AccountInv, Owned
  <1>8. Quiet'
    <2>1. a_purge.at \in PostsGone => a_active'
      BY <1>2 DEF AccountInv, Quiet, Member!Working, Member!ExchangeCode
    <2> QED
      BY <2>1, QuietKept DEF AccountInv, Member!ExchangeCode
  <1>9. Listed' /\ Homes'
    BY <1>5, <1>2, <1>4, FilesKept DEF AccountInv, Member!ExchangeCode, Member!here
  <1> QED
    BY <1>6, <1>7, <1>8, <1>9 DEF AccountInv

\* The shape of what a step of a request reads.
LEMMA AccountTypes ==
  ASSUME AccountInv
  PROVE  /\ Member!TypeOK /\ VisitShape /\ a_made \in Nat /\ a_made \in 1..MaxSign
         /\ a_tokens \subseteq Member!Numbers /\ 1..a_made \subseteq Member!Numbers
         /\ \A c \in Calls : a_call[c] \in Visit /\ a_call[c].n \in 0..a_made
  BY AccountAssumption DEF AccountInv, AccountShape, VisitShape, Member!TypeOK, Owned, Member!Numbers

LEMMA NotBoth ==
  ASSUME AccountInv, NEW c \in Calls, NEW s \in {"row", "session"},
         Member!Goes(c, s), Member!Answered(c)
  PROVE  FALSE
  <1>1. a_call'[c].at = s
    BY AccountTypes DEF Member!Goes, VisitShape, Visit
  <1>2. a_call'[c] = Member!NoCall
    BY AccountTypes DEF Member!Answered, VisitShape
  <1> QED
    BY <1>1, <1>2, NoVisit

\* A sign-in parts with its token: to OAuth, to nobody, or to a session.
LEMMA PartSteps ==
  ASSUME AccountInv, NEW c \in Calls, a_call[c].at \in SigningIn, Member!Answered(c),
         \/ Member!GetUserInfo(c) \/ Member!FindOrCreateUser(c)
         \/ Member!CreateSession(c) \/ Member!SignInDies(c)
  PROVE  AccountInv'
  <1>0. PICK n : n = a_call[c].n
    OBVIOUS
  <1>1. n \in Member!Numbers /\ n # 0 /\ n \in 0..a_made /\ a_call[c] \in Visit
    BY <1>0, AccountTypes DEF Visit, VisitShape
  <1>2. HasToken(c, n)
    BY <1>0 DEF HasToken
  <1>3. VisitShape' /\ \A o \in Calls : a_call'[o] = IF o = c THEN Member!NoCall ELSE a_call[o]
    BY VisitMoves, NoVisit, AccountTypes DEF Member!Answered, SigningIn
  <1>4. \/ a_revoke' = a_revoke \cup {n} /\ UNCHANGED <<a_sess, a_stray>>
        \/ a_stray' = a_stray \cup {n} /\ UNCHANGED <<a_sess, a_revoke>>
        \/ a_sess' = a_sess \cup {n} /\ UNCHANGED <<a_stray, a_revoke>>
    <2>1. CASE Member!GetUserInfo(c)
      <3>1. ~Member!Goes(c, "row")
        BY NotBoth
      <3> QED
        BY <2>1, <3>1, <1>0 DEF Member!GetUserInfo, Member!Abandon, Member!history
    <2>2. CASE Member!FindOrCreateUser(c)
      <3>1. ~Member!Goes(c, "session")
        BY NotBoth
      <3> QED
        BY <2>2, <3>1, <1>0 DEF Member!FindOrCreateUser, Member!Abandon, Member!history
    <2>3. CASE Member!CreateSession(c)
      BY <2>3, <1>0 DEF Member!CreateSession, Member!Abandon, Member!history
    <2>4. CASE Member!SignInDies(c)
      BY <2>4, <1>0 DEF Member!SignInDies
    <2> QED
      BY <2>1, <2>2, <2>3, <2>4
  <1>5. /\ UNCHANGED <<a_tokens, a_missed, a_made, a_reqs, a_posts, a_store, a_res, a_page, a_left, a_active, a_owned>>
        /\ a_purge' = a_purge \/ a_purge' = [a_purge EXCEPT !.todo = a_purge.todo \cup {n}]
        /\ Member!Fault \/ a_faults' = a_faults
        /\ a_user' = a_user \/ a_user' = TRUE
    <2>1. CASE Member!CreateSession(c)
      <3>1. Member!Scanned(n) \/ a_purge' = a_purge
        BY <2>1, <1>0 DEF Member!CreateSession
      <3>2. \A S : S = a_purge.todo => [a_purge EXCEPT !.todo = S] = a_purge
        BY DEF AccountInv, AccountShape, Purge
      <3>3. a_purge' = a_purge \/ a_purge' = [a_purge EXCEPT !.todo = a_purge.todo \cup {n}]
        BY <3>1, <3>2 DEF Member!Scanned
      <3> QED
        BY <2>1, <3>3 DEF Member!CreateSession, Member!here, Member!outside, Member!history
    <2>2. CASE Member!GetUserInfo(c) \/ Member!FindOrCreateUser(c) \/ Member!SignInDies(c)
      BY <2>2 DEF Member!GetUserInfo, Member!FindOrCreateUser, Member!SignInDies, Member!here, Member!outside, Member!history, Member!bounds
    <2> QED
      BY <2>1, <2>2
  <1>6. /\ a_purge' \in Purge /\ a_purge'.at = a_purge.at /\ a_purge'.before = a_purge.before
        /\ a_purge'.list = a_purge.list /\ a_purge'.owned = a_purge.owned
        /\ a_purge.todo \subseteq a_purge'.todo
    <2>1. a_purge \in Purge
      BY DEF AccountInv, AccountShape
    <2> QED
      BY <2>1, <1>1, <1>5 DEF Purge
  <1>7. AccountShape'
    BY <1>1, <1>3, <1>4, <1>5, <1>6, BoundsKept DEF AccountInv, AccountShape, Member!TypeOK, VisitShape, Visit, Purge
  <1>8. Owned'
    <2>1. \A o \in Calls, m \in Member!Numbers : HasToken(o, m)' <=> o # c /\ HasToken(o, m)
      BY <1>3, NoVisit DEF HasToken, SigningIn
    <2>2. \A m : Leaves(m)' <=> Leaves(m)
      BY <1>3, NoVisit DEF Leaves, SigningIn
    <2>3. \A o \in Calls : a_call'[o].n \in {0, a_call[o].n}
      BY <1>3, NoVisit
    <2> QED
      BY <1>1, <1>2, <1>4, <1>5, <1>6, <2>1, <2>2, <2>3, OwnedGiven, AccountTypes DEF AccountInv
  <1>9. Quiet'
    <2>1. a_purge.at \in PostsGone => a_active'
      BY <1>5 DEF AccountInv, Quiet, Member!Working, SigningIn
    <2>2. a_purge.before \cap a_sess' \subseteq a_sess
      BY <1>1, <1>2, <1>4 DEF AccountInv, Owned
    <2> QED
      BY <2>1, <2>2, <1>5, <1>6, QuietKept DEF AccountInv
  <1>10. Listed' /\ Homes'
    <2>1. \A o \in Calls : a_call'[o].r \subseteq a_call[o].r
      BY <1>3, NoVisit
    <2> QED
      BY <2>1, <1>5, <1>6, FilesKept DEF AccountInv
  <1> QED
    BY <1>7, <1>8, <1>9, <1>10 DEF AccountInv

\* A request goes to its next step, or ends, with the token it had.
LEMMA GoesOn ==
  ASSUME AccountInv, NEW c \in Calls, NEW v \in Visit, a_call' = [a_call EXCEPT ![c] = v],
         v.n = a_call[c].n, v.at \in SigningIn <=> a_call[c].at \in SigningIn,
         v.at = "destroy" <=> a_call[c].at = "destroy",
         v.r \subseteq a_call[c].r, v.at \notin Publishing => v.r = {}
  PROVE  /\ VisitShape' /\ \A o \in Calls : a_call'[o] = IF o = c THEN v ELSE a_call[o]
         /\ \A o \in Calls, n \in Member!Numbers : HasToken(o, n)' <=> HasToken(o, n)
         /\ \A n : Leaves(n)' <=> Leaves(n)
         /\ \A o \in Calls : a_call'[o].n \in 0..a_made /\ a_call'[o].r \subseteq a_call[o].r
  <1>1. VisitShape' /\ \A o \in Calls : a_call'[o] = IF o = c THEN v ELSE a_call[o]
    BY VisitMoves, AccountTypes DEF VisitShape
  <1> QED
    BY <1>1, AccountTypes DEF HasToken, Leaves

\* A sign-in goes on; a page is provided; a comment is written.
LEMMA WorkSteps ==
  ASSUME AccountInv, NEW c \in Calls,
         \/ Member!GetUserInfo(c) /\ Member!Goes(c, "row")
         \/ Member!FindOrCreateUser(c) /\ Member!Goes(c, "session")
         \/ Member!ProvisionUser(c) \/ Member!InsertStub(c) \/ Member!CreatePost(c)
  PROVE  AccountInv'
  <1>1. PICK v \in Visit :
          /\ a_call' = [a_call EXCEPT ![c] = v]
          /\ v.n = a_call[c].n /\ (v.at \in SigningIn <=> a_call[c].at \in SigningIn)
          /\ v.at # "destroy" /\ a_call[c].at \notin {"idle", "destroy"}
          /\ v.r \subseteq a_call[c].r /\ (v.at \notin Publishing => v.r = {})
    <2>1. a_call[c] \in Visit
      BY AccountTypes
    <2>2. ASSUME NEW s \in {"row", "session", "stub", "post"}, Member!Goes(c, s)
          PROVE  [a_call[c] EXCEPT !.at = s] \in Visit /\ a_call' = [a_call EXCEPT ![c] = [a_call[c] EXCEPT !.at = s]]
      BY <2>1, <2>2 DEF Visit, Member!Goes, SigningIn, Publishing
    <2>3. CASE Member!GetUserInfo(c) /\ Member!Goes(c, "row")
      BY <2>3, <2>2, <2>1, AccountTypes DEF Member!GetUserInfo, SigningIn, Publishing, Visit, VisitShape
    <2>4. CASE Member!FindOrCreateUser(c) /\ Member!Goes(c, "session")
      BY <2>4, <2>2, <2>1, AccountTypes DEF Member!FindOrCreateUser, SigningIn, Publishing, Visit, VisitShape
    <2>5. CASE Member!ProvisionUser(c)
      BY <2>5, <2>2, <2>1 DEF Member!ProvisionUser, SigningIn, Publishing, Visit
    <2>6. CASE Member!InsertStub(c)
      <3>1. CASE Member!Goes(c, "post")
        BY <3>1, <2>6, <2>2, <2>1 DEF Member!InsertStub, SigningIn, Publishing, Visit
      <3>2. CASE Member!Answered(c)
        BY <3>2, <2>6, <2>1, NoVisit, AccountTypes DEF Member!InsertStub, Member!Answered, SigningIn, Publishing, VisitShape
      <3> QED
        BY <2>6, <3>1, <3>2 DEF Member!InsertStub
    <2>7. CASE Member!CreatePost(c)
      BY <2>7, <2>1, NoVisit, AccountTypes DEF Member!CreatePost, Member!Answered, SigningIn, Publishing, VisitShape
    <2> QED
      BY <2>3, <2>4, <2>5, <2>6, <2>7
  <1>2. /\ VisitShape' /\ \A o \in Calls : a_call'[o] = IF o = c THEN v ELSE a_call[o]
        /\ \A o \in Calls, n \in Member!Numbers : HasToken(o, n)' <=> HasToken(o, n)
        /\ \A n : Leaves(n)' <=> Leaves(n)
        /\ \A o \in Calls : a_call'[o].n \in 0..a_made /\ a_call'[o].r \subseteq a_call[o].r
    BY <1>1, GoesOn
  <1>3. /\ UNCHANGED <<a_tokens, a_sess, a_revoke, a_missed, a_reqs, a_store, a_res, a_left, a_stray, a_purge, a_active, a_owned>>
        /\ Member!Fault \/ a_faults' = a_faults
        /\ \/ a_made' = a_made /\ a_posts' = a_posts
           \/ a_made < MaxSign /\ a_made' = a_made + 1 /\ a_posts' = a_posts \cup {a_made'}
        /\ \/ a_page' = a_page /\ (a_user' = a_user \/ a_user')
           \/ a_page = "none" /\ a_page' = "account" /\ a_user /\ a_user' = a_user
    <2>1. CASE Member!GetUserInfo(c) /\ Member!Goes(c, "row")
      <3>1. ~Member!Answered(c)
        BY <2>1, NotBoth
      <3> QED
        BY <2>1, <3>1 DEF Member!GetUserInfo, Member!Abandon, Member!here, Member!outside, Member!history, Member!bounds
    <2>2. CASE Member!FindOrCreateUser(c) /\ Member!Goes(c, "session")
      <3>1. ~Member!Answered(c)
        BY <2>2, NotBoth
      <3> QED
        BY <2>2, <3>1 DEF Member!FindOrCreateUser, Member!Abandon, Member!outside, Member!history
    <2>3. CASE Member!ProvisionUser(c) \/ Member!InsertStub(c) \/ Member!CreatePost(c)
      BY <2>3 DEF Member!ProvisionUser, Member!InsertStub, Member!CreatePost, Member!here, Member!outside, Member!history, Member!bounds
    <2> QED
      BY <2>1, <2>2, <2>3
  <1>4. a_made' \in 1..MaxSign /\ a_made' \in Nat /\ a_made <= a_made'
    BY <1>3, AccountTypes, AccountAssumption
  <1>5. AccountShape'
    BY <1>2, <1>3, <1>4, BoundsKept DEF AccountInv, AccountShape, Member!TypeOK, VisitShape, Visit, Member!Numbers
  <1>6. Owned'
    <2>1. \A o \in Calls : a_call'[o].n \in 0..a_made'
      BY <1>2, <1>4, AccountTypes
    <2> QED
      BY <2>1, <1>2, <1>3, <1>4, OwnedKept, AccountTypes DEF AccountInv
  <1>7. Quiet'
    <2>1. a_purge.at \in PostsGone => a_active'
      BY <1>1, <1>3 DEF AccountInv, Quiet, Member!Working, SigningIn
    <2> QED
      BY <2>1, <1>3, QuietKept DEF AccountInv
  <1>8. Listed' /\ Homes'
    <2>1. CASE a_page' = a_page
      BY <2>1, <1>2, <1>3, FilesKept DEF AccountInv
    <2>2. CASE a_page = "none" /\ a_page' = "account" /\ a_user /\ a_user' = a_user
      BY <2>2, <1>2, <1>3 DEF AccountInv, Listed, Homes, Member!Doomed, Member!Mine, Member!Others
    <2> QED
      BY <1>3, <2>1, <2>2
  <1> QED
    BY <1>5, <1>6, <1>7, <1>8 DEF AccountInv

\* A request arrives: to sign in, to comment, to publish.
LEMMA BeginSteps ==
  ASSUME AccountInv, NEW c \in Calls,
         \/ Member!SignIn(c) \/ \E n \in a_sess : Member!Comment(c, n)
         \/ \E n \in a_sess, r \in Resources : Member!Publish(c, n, r)
  PROVE  AccountInv'
  <1>1. PICK v \in Visit :
          /\ Member!Begin(c, v) /\ v.n = 0 /\ v.at \notin SigningIn /\ v.at # "destroy"
          /\ v.at \notin Publishing => v.r = {}
          /\ \A r \in v.r : a_res[r] = "none" /\ \A o \in Calls : r \notin a_call[o].r
    <2>1. CASE Member!SignIn(c)
      BY <2>1, NoVisit DEF Member!SignIn, Member!NoCall, Visit, SigningIn, Publishing
    <2>2. ASSUME NEW n \in a_sess, Member!Comment(c, n)
          PROVE  Member!Begin(c, [Member!NoCall EXCEPT !.at = "comment"])
      BY <2>2 DEF Member!Comment
    <2>3. ASSUME NEW n \in a_sess, NEW r \in Resources, Member!Publish(c, n, r)
          PROVE  \E s \in {"provision", "post"} :
                   /\ Member!Begin(c, [Member!NoCall EXCEPT !.at = s, !.r = {r}])
                   /\ a_res[r] = "none" /\ \A o \in Calls : r \notin a_call[o].r
      BY <2>3 DEF Member!Publish
    <2>4. [Member!NoCall EXCEPT !.at = "comment"] \in
            {v \in Visit : v.at = "comment" /\ v.n = 0 /\ v.r = {}}
      BY DEF Member!NoCall, Visit
    <2>6. CASE \E n \in a_sess : Member!Comment(c, n)
      BY <2>2, <2>4, <2>6 DEF SigningIn
    <2>7. CASE \E n \in a_sess, r \in Resources : Member!Publish(c, n, r)
      <3>1. PICK n \in a_sess, r \in Resources : Member!Publish(c, n, r)
        BY <2>7
      <3>2. PICK s \in {"provision", "post"} :
                   /\ Member!Begin(c, [Member!NoCall EXCEPT !.at = s, !.r = {r}])
                   /\ a_res[r] = "none" /\ \A o \in Calls : r \notin a_call[o].r
        BY <2>3, <3>1
      <3>4. PICK v \in Visit : /\ v = [Member!NoCall EXCEPT !.at = s, !.r = {r}]
                               /\ v.at = s /\ v.n = 0 /\ v.r = {r}
        <4> DEFINE v == [Member!NoCall EXCEPT !.at = s, !.r = {r}]
        <4>1. v \in Visit /\ v.at = s /\ v.n = 0 /\ v.r = {r}
          BY DEF Member!NoCall, Visit, Publishing
        <4> HIDE DEF v
        <4>2. \E w \in Visit : w = v /\ w.at = s /\ w.n = 0 /\ w.r = {r}
          BY <4>1
        <4> QED
          BY <4>2 DEF v
      <3>5. Member!Begin(c, v)
        BY <3>2, <3>4
      <3> QED
        BY <3>2, <3>4, <3>5 DEF SigningIn, Publishing
    <2> QED
      BY <2>1, <2>6, <2>7
  <1>2. /\ a_call[c] = Member!NoCall /\ a_call' = [a_call EXCEPT ![c] = v]
        /\ a_reqs < MaxReq /\ a_reqs' = a_reqs + 1
        /\ a_active' = (a_active \/ a_purge.at \notin {"idle", "list", "author"})
        /\ UNCHANGED <<a_tokens, a_sess, a_revoke, a_missed, a_stray, a_made, a_posts, a_store, a_res, a_page,
                       a_user, a_left, a_owned, a_purge, a_faults>>
    BY <1>1 DEF Member!Begin, Member!SignIn, Member!Comment, Member!Publish, Member!here, Member!outside
  <1>3. VisitShape' /\ \A o \in Calls : a_call'[o] = IF o = c THEN v ELSE a_call[o]
    BY <1>1, <1>2, VisitMoves, AccountTypes DEF SigningIn
  <1>4. AccountShape'
    BY <1>2, <1>3, BoundsKept DEF AccountInv, AccountShape, Member!TypeOK, VisitShape, Visit
  <1>5. Owned'
    <2>1. \A o \in Calls : a_call'[o].n \in 0..a_made'
      BY <1>1, <1>2, <1>3, AccountTypes
    <2>2. \A o \in Calls, n \in Member!Numbers : HasToken(o, n)' <=> HasToken(o, n)
      BY <1>1, <1>2, <1>3, NoVisit DEF HasToken, SigningIn
    <2>3. \A n : Leaves(n)' <=> Leaves(n)
      BY <1>1, <1>2, <1>3, NoVisit DEF Leaves
    <2> QED
      BY <2>1, <2>2, <2>3, <1>2, OwnedKept, AccountTypes DEF AccountInv
  <1>6. Quiet'
    <2>1. a_purge.at \in PostsGone => a_active'
      BY <1>2 DEF PostsGone
    <2> QED
      BY <2>1, <1>2, QuietKept DEF AccountInv
  <1>7. Listed'
    <2>1. \A o \in Calls : \A r \in a_call'[o].r :
            a_res[r] = "none" /\ \A q \in Calls : r \in a_call'[q].r => q = o
      BY <1>1, <1>3 DEF AccountInv, Listed
    <2> QED
      BY <2>1, <1>2 DEF AccountInv, Listed, Member!Doomed, Member!Mine, Member!Others
  <1>8. Homes'
    BY <1>2 DEF AccountInv, Homes, Member!Mine, Member!Others
  <1> QED
    BY <1>4, <1>5, <1>6, <1>7, <1>8 DEF AccountInv

\* A sign-out has the token of its session revoked, or gives it up.
LEMMA LogoutSteps ==
  ASSUME AccountInv, NEW c \in Calls, NEW n \in a_sess, Member!Logout(c, n)
  PROVE  AccountInv'
  <1> DEFINE v == [Member!NoCall EXCEPT !.at = "destroy", !.n = n]
  <1>1. n \in Member!Numbers /\ n # 0 /\ n \in 1..a_made
    BY AccountAssumption DEF AccountInv, Owned, AccountShape, Member!TypeOK, Member!Numbers
  <1>2. v \in Visit /\ v.at = "destroy" /\ v.n = n /\ v.r = {}
    BY <1>1 DEF Member!NoCall, Visit
  <1> HIDE DEF v
  <1>3. /\ a_call[c] = Member!NoCall /\ a_call' = [a_call EXCEPT ![c] = v]
        /\ a_reqs < MaxReq /\ a_reqs' = a_reqs + 1
        /\ a_active' = (a_active \/ a_purge.at \notin {"idle", "list", "author"})
        /\ UNCHANGED <<a_tokens, a_sess, a_missed, a_made, a_posts, a_store, a_res, a_page,
                       a_user, a_left, a_owned, a_purge>>
        /\ \/ a_revoke' = a_revoke \cup {n} /\ UNCHANGED <<a_faults, a_stray>>
           \/ Member!Fault /\ a_stray' = a_stray \cup {n} /\ UNCHANGED a_revoke
    BY DEF Member!Begin, Member!Logout, Member!here, Member!outside, v
  <1>4. VisitShape' /\ \A o \in Calls : a_call'[o] = IF o = c THEN v ELSE a_call[o]
    BY <1>1, <1>2, <1>3, VisitMoves, AccountTypes DEF SigningIn, Publishing
  <1>5. AccountShape'
    BY <1>1, <1>3, <1>4, BoundsKept DEF AccountInv, AccountShape, Member!TypeOK, VisitShape, Visit
  <1>6. Owned'
    <2>1. \A o \in Calls : a_call'[o].n \in 0..a_made'
      BY <1>1, <1>2, <1>3, <1>4, AccountTypes
    <2>2. \A o \in Calls, m \in Member!Numbers : HasToken(o, m)' <=> HasToken(o, m)
      BY <1>2, <1>3, <1>4, NoVisit DEF HasToken, SigningIn
    <2>3. \A m : Leaves(m)' <=> Leaves(m) \/ m = n
      BY <1>2, <1>3, <1>4, NoVisit DEF Leaves
    <2>4. \A o \in Calls : ~HasToken(o, n)
      BY <1>1 DEF AccountInv, Owned
    <2>5. a_sess \cup a_revoke' \cup a_tokens \cup a_purge.before \subseteq 1..a_made
      BY <1>1, <1>3 DEF AccountInv, Owned
    <2>6. \A m \in a_tokens : m \in a_sess \cup a_revoke' \cup a_stray' \/ \E o \in Calls : HasToken(o, m)'
      BY <2>2, <1>3, AccountTypes DEF AccountInv, Owned
    <2>7. \A m \in a_tokens : Leaves(m)' => m \in a_revoke' \cup a_stray'
      BY <2>3, <1>3 DEF AccountInv, Owned
    <2>8. \A m \in a_sess : (m \in a_tokens /\ m \notin a_revoke') \/ m \in a_missed \/ Leaves(m)'
      BY <2>3, <1>3 DEF AccountInv, Owned
    <2> QED
      BY <2>1, <2>2, <2>4, <2>5, <2>6, <2>7, <2>8, <1>3 DEF AccountInv, Owned
  <1>7. Quiet'
    <2>1. a_purge.at \in PostsGone => a_active'
      BY <1>3 DEF PostsGone
    <2> QED
      BY <2>1, <1>3, QuietKept DEF AccountInv
  <1>8. Listed' /\ Homes'
    <2>1. \A o \in Calls : a_call'[o].r \subseteq a_call[o].r
      BY <1>2, <1>4
    <2> QED
      BY <2>1, <1>3, FilesKept DEF AccountInv
  <1> QED
    BY <1>5, <1>6, <1>7, <1>8 DEF AccountInv

\* The session goes, or is missed.
LEMMA DestroySteps ==
  ASSUME AccountInv, NEW c \in Calls, Member!DestroySession(c)
  PROVE  AccountInv'
  <1>0. PICK n : n = a_call[c].n
    OBVIOUS
  <1>1. n \in Member!Numbers /\ a_call[c].at = "destroy" /\ a_call[c].r = {}
    BY <1>0, AccountTypes DEF Member!DestroySession, VisitShape, Visit, Publishing
  <1>2. /\ UNCHANGED <<a_tokens, a_revoke, a_stray, a_made, a_posts, a_store, a_res, a_page, a_reqs,
                       a_user, a_left, a_owned, a_purge, a_active>>
        /\ \/ a_sess' = a_sess \ {n} /\ UNCHANGED <<a_faults, a_missed>>
           \/ Member!Fault /\ a_missed' = a_missed \cup {n} /\ UNCHANGED a_sess
    BY <1>0 DEF Member!DestroySession, Member!here, Member!outside
  <1>3. VisitShape' /\ \A o \in Calls : a_call'[o] = IF o = c THEN Member!NoCall ELSE a_call[o]
    BY VisitMoves, NoVisit, AccountTypes DEF Member!DestroySession, Member!Answered, SigningIn
  <1>4. AccountShape'
    BY <1>1, <1>2, <1>3, BoundsKept DEF AccountInv, AccountShape, Member!TypeOK, VisitShape, Visit
  <1>5. Owned'
    <2>1. \A o \in Calls : a_call'[o].n \in 0..a_made'
      BY <1>2, <1>3, NoVisit, AccountTypes
    <2>2. \A o \in Calls, m \in Member!Numbers : HasToken(o, m)' <=> HasToken(o, m)
      BY <1>1, <1>2, <1>3, NoVisit DEF HasToken, SigningIn
    <2>3. \A m : (Leaves(m)' => Leaves(m)) /\ (m # n /\ Leaves(m) => Leaves(m)')
      BY <1>0, <1>1, <1>2, <1>3, NoVisit DEF Leaves
    <2>4. Leaves(n)
      BY <1>0, <1>1 DEF Leaves
    <2>5. \A m \in a_tokens : m \in a_sess' \cup a_revoke \cup a_stray \/ \E o \in Calls : HasToken(o, m)'
      BY <2>2, <2>4, <1>2, AccountTypes DEF AccountInv, Owned
    <2>6. \A m \in a_sess' : (m \in a_tokens /\ m \notin a_revoke) \/ m \in a_missed' \/ Leaves(m)'
      BY <2>3, <1>2 DEF AccountInv, Owned
    <2>7. a_sess' \subseteq a_sess
      BY <1>2
    <2> QED
      BY <2>1, <2>2, <2>3, <2>5, <2>6, <2>7, <1>2 DEF AccountInv, Owned
  <1>6. Quiet'
    <2>1. ~Member!Working => ~Member!Working'
      BY <1>1, <1>3, NoVisit DEF Member!Working
    <2> QED
      BY <2>1, <1>2 DEF AccountInv, Quiet, PostsGone, Member!Mine
  <1>7. Listed' /\ Homes'
    <2>1. \A o \in Calls : a_call'[o].r \subseteq a_call[o].r
      BY NoVisit, <1>3
    <2> QED
      BY <2>1, <1>2, FilesKept DEF AccountInv
  <1> QED
    BY <1>4, <1>5, <1>6, <1>7 DEF AccountInv

\* OAuth takes a revoke, or loses it.
LEMMA RevokeSteps ==
  ASSUME AccountInv, NEW n \in Member!Numbers, Member!RevokeOAuthToken(n)
  PROVE  AccountInv'
  <1>1. /\ UNCHANGED <<a_sess, a_missed, a_made, a_posts, a_store, a_res, a_page, a_reqs, a_call,
                       a_user, a_left, a_owned, a_purge, a_active>>
        /\ n \in a_revoke /\ a_revoke' = a_revoke \ {n}
        /\ \/ a_tokens' = a_tokens \ {n} /\ UNCHANGED <<a_faults, a_stray>>
           \/ Member!Fault /\ a_stray' = a_stray \cup {n} /\ UNCHANGED a_tokens
    BY DEF Member!RevokeOAuthToken, Member!here
  <1>2. AccountShape'
    BY <1>1, BoundsKept DEF AccountInv, AccountShape, Member!TypeOK, VisitShape, Visit
  <1>3. Owned'
    <2>1. \A o \in Calls, m \in Member!Numbers : HasToken(o, m)' <=> HasToken(o, m)
      BY <1>1 DEF HasToken
    <2>2. \A m : Leaves(m)' <=> Leaves(m)
      BY <1>1 DEF Leaves
    <2>3. \A o \in Calls, m \in Member!Numbers : HasToken(o, m) => m # n
      BY <1>1 DEF AccountInv, Owned
    <2>4. \A m \in a_tokens' : m \in a_sess \cup a_revoke' \cup a_stray' \/ \E o \in Calls : HasToken(o, m)'
      BY <2>1, <1>1, AccountTypes DEF AccountInv, Owned
    <2>5. \A m \in a_sess : (m \in a_tokens' /\ m \notin a_revoke') \/ m \in a_missed \/ Leaves(m)'
      BY <2>2, <1>1 DEF AccountInv, Owned
    <2>6. \A m \in a_tokens' : Leaves(m)' => m \in a_revoke' \cup a_stray'
      BY <2>2, <1>1 DEF AccountInv, Owned
    <2> QED
      BY <2>1, <2>3, <2>4, <2>5, <2>6, <1>1 DEF AccountInv, Owned
  <1>4. Quiet'
    BY <1>1 DEF AccountInv, Quiet, PostsGone, Member!Mine, Member!Working
  <1>5. Listed' /\ Homes'
    BY <1>1, FilesKept DEF AccountInv
  <1> QED
    BY <1>2, <1>3, <1>4, <1>5 DEF AccountInv

\* A resource is inserted, with its file, if its page and its owner are there.
LEMMA InsertSteps ==
  ASSUME AccountInv, NEW c \in Calls, Member!InsertResource(c)
  PROVE  AccountInv'
  <1>0. PICK R : R = a_call[c].r
    OBVIOUS
  <1>1. /\ R \subseteq Resources /\ a_call[c].at = "post" /\ a_call[c].n = 0
        /\ \A r \in R : a_res[r] = "none"
        /\ \A o \in Calls : o # c => R \cap a_call[o].r = {}
    BY <1>0, AccountTypes DEF Member!InsertResource, VisitShape, Visit, SigningIn, AccountInv, Listed
  <1>2. /\ UNCHANGED <<a_tokens, a_sess, a_revoke, a_missed, a_stray, a_made, a_posts, a_page, a_reqs,
                       a_faults, a_user, a_left, a_owned, a_purge, a_active>>
        /\ \/ /\ a_user /\ a_page # "none" /\ a_store' = a_store \cup R
              /\ a_res' = [r \in Resources |-> IF r \in R THEN "account" ELSE a_res[r]]
           \/ UNCHANGED <<a_res, a_store>>
    BY <1>0 DEF Member!InsertResource, Member!bounds, Member!history
  <1>3. VisitShape' /\ \A o \in Calls : a_call'[o] = IF o = c THEN Member!NoCall ELSE a_call[o]
    BY VisitMoves, NoVisit, AccountTypes DEF Member!InsertResource, Member!Answered, SigningIn
  <1>4. AccountShape'
    BY <1>1, <1>2, <1>3 DEF AccountInv, AccountShape, Member!TypeOK, VisitShape, Visit, Fate
  <1>5. Owned'
    <2>1. \A o \in Calls : a_call'[o].n \in 0..a_made'
      BY <1>2, <1>3, NoVisit, AccountTypes
    <2>2. \A o \in Calls, n \in Member!Numbers : HasToken(o, n)' <=> HasToken(o, n)
      BY <1>1, <1>3, NoVisit DEF HasToken, SigningIn
    <2>3. \A n : Leaves(n)' <=> Leaves(n)
      BY <1>1, <1>3, NoVisit DEF Leaves
    <2> QED
      BY <2>1, <2>2, <2>3, <1>2, OwnedKept, AccountTypes DEF AccountInv
  <1>6. Quiet'
    <2>1. a_purge.at \in PostsGone => a_active'
      BY <1>1, <1>2 DEF AccountInv, Quiet, Member!Working
    <2> QED
      BY <2>1, <1>2, QuietKept DEF AccountInv
  <1>7. Listed' /\ Homes'
    <2>1. \A o \in Calls : a_call'[o].r \subseteq a_call[o].r /\ R \cap a_call'[o].r = {}
      BY NoVisit, <1>1, <1>3
    <2>2. CASE UNCHANGED <<a_res, a_store>>
      BY <2>1, <2>2, <1>2, FilesKept DEF AccountInv
    <2>3. CASE /\ a_user /\ a_page # "none" /\ a_store' = a_store \cup R
               /\ a_res' = [r \in Resources |-> IF r \in R THEN "account" ELSE a_res[r]]
      <3>1. Member!Mine' = Member!Mine \cup R /\ Member!Others' = Member!Others
        BY <2>3, <1>1 DEF Member!Mine, Member!Others
      <3>2. Member!Doomed \subseteq Member!Doomed'
        BY <3>1, <1>2 DEF Member!Doomed
      <3>3. Listed'
        <4>1. \A r \in a_purge.list : a_res[r] \in {"gone", "lost"} => a_res'[r] = a_res[r]
          BY <2>3, <1>1 DEF AccountInv, AccountShape, Purge
        <4>2. \A o \in Calls : \A r \in a_call'[o].r : a_res'[r] = a_res[r]
          BY <2>1, <2>3, AccountTypes DEF Visit
        <4>3. \A o \in Calls : \A r \in a_call'[o].r :
                 a_res'[r] = "none" /\ \A q \in Calls : r \in a_call'[q].r => q = o
          BY <4>2, <2>1 DEF AccountInv, Listed
        <4> QED
          BY <4>1, <4>3, <3>1, <3>2, <2>3, <1>2 DEF AccountInv, Listed
      <3>4. Homes'
        BY <3>1, <2>3, <1>1, <1>2 DEF AccountInv, Homes
      <3> QED
        BY <3>3, <3>4
    <2> QED
      BY <1>2, <2>2, <2>3
  <1> QED
    BY <1>4, <1>5, <1>6, <1>7 DEF AccountInv

\* Somebody else publishes: neither a listed file nor one on its way is its.
LEMMA OtherSteps ==
  ASSUME AccountInv, NEW r \in Resources, Member!OtherPublishes(r)
  PROVE  AccountInv'
  <1>1. /\ UNCHANGED <<a_tokens, a_sess, a_revoke, a_missed, a_stray, a_made, a_posts, a_page, a_call,
                       a_faults, a_user, a_left, a_owned, a_purge, a_active>>
        /\ a_page # "none" /\ a_res[r] = "none" /\ \A c \in Calls : r \notin a_call[c].r
        /\ a_reqs < MaxReq /\ a_reqs' = a_reqs + 1
        /\ a_res' = [a_res EXCEPT ![r] = "other"] /\ a_store' = a_store \cup {r}
    BY DEF Member!OtherPublishes, Member!history
  <1>2. a_res' \in [Resources -> Fate] /\ \A q \in Resources : a_res'[q] = IF q = r THEN "other" ELSE a_res[q]
    BY <1>1 DEF AccountInv, AccountShape, Fate
  <1>3. AccountShape'
    BY <1>1, <1>2, BoundsKept DEF AccountInv, AccountShape, Member!TypeOK, VisitShape, Visit, Fate
  <1>4. Owned'
    BY <1>1, OwnedKept, AccountTypes DEF AccountInv, HasToken, Leaves
  <1>5. Member!Mine' = Member!Mine /\ Member!Others' = Member!Others \cup {r}
    BY <1>1, <1>2 DEF Member!Mine, Member!Others
  <1>6. Quiet'
    BY <1>1, <1>5 DEF AccountInv, Quiet, PostsGone, Member!Working
  <1>7. Listed'
    <2>1. Member!Doomed \subseteq Member!Doomed'
      BY <1>1, <1>5 DEF Member!Doomed
    <2>2. a_purge.list \subseteq Resources /\ \A c \in Calls : a_call[c].r \subseteq Resources
      BY AccountTypes DEF AccountInv, AccountShape, Purge, Visit
    <2> QED
      BY <2>1, <2>2, <1>1, <1>2, <1>5 DEF AccountInv, Listed
  <1>8. Homes'
    BY <1>1, <1>2, <1>5 DEF AccountInv, Homes
  <1> QED
    BY <1>3, <1>4, <1>6, <1>7, <1>8 DEF AccountInv

-----------------------------------------------------------------------------
\* A purge begins with the sessions there are.
LEMMA PurgeBegins ==
  ASSUME AccountInv, NEW pagesToo \in BOOLEAN, Member!PurgeUser(pagesToo)
  PROVE  AccountInv'
  <1>1. /\ UNCHANGED <<a_tokens, a_sess, a_revoke, a_missed, a_stray, a_made, a_posts, a_page, a_call,
                       a_res, a_store, a_faults, a_user, a_left, a_owned>>
        /\ a_reqs < MaxReq /\ a_reqs' = a_reqs + 1 /\ a_active' = FALSE
        /\ a_purge' = [Member!NoPurge EXCEPT !.at = "list", !.owned = pagesToo, !.before = a_sess]
        /\ a_purge.at \in {"idle", "done"}
    BY DEF Member!PurgeUser, Member!here, Member!outside
  <1>2. a_purge' \in Purge /\ a_purge'.at = "list" /\ a_purge'.list = {} /\ a_purge'.before = a_sess
    BY <1>1, AccountTypes DEF Member!TypeOK, Member!NoPurge, Purge
  <1>3. AccountShape'
    BY <1>1, <1>2, BoundsKept DEF AccountInv, AccountShape, Member!TypeOK, VisitShape, Visit, Purge
  <1>4. Owned'
    BY <1>1, <1>2, OwnedKept, AccountTypes DEF AccountInv, HasToken, Leaves
  <1>5. Quiet' /\ Listed' /\ Homes'
    BY <1>1, <1>2 DEF AccountInv, Quiet, PostsGone, Listed, Homes, Member!Mine, Member!Others
  <1> QED
    BY <1>3, <1>4, <1>5 DEF AccountInv

\* Any other step of a purge keeps its sessions and moves on.
LEMMA PurgeMoves ==
  ASSUME AccountInv, NEW s \in {"idle", "author", "local", "sweep", "scan", "done"}, Member!PurgeGoes(s)
  PROVE  /\ a_purge' \in Purge /\ a_purge'.at = s /\ a_purge'.list = a_purge.list
         /\ a_purge'.owned = a_purge.owned /\ a_purge'.todo = a_purge.todo
         /\ a_purge'.before = a_purge.before
  BY DEF AccountInv, AccountShape, Purge, Member!PurgeGoes

LEMMA PurgeOwned ==
  ASSUME AccountInv, UNCHANGED <<a_call, a_tokens, a_sess, a_revoke, a_missed, a_stray, a_made>>,
         a_purge'.before = a_purge.before
  PROVE  Owned'
  BY OwnedKept, AccountTypes DEF AccountInv, HasToken, Leaves

\* The files are listed; the posts are deleted.
LEMMA CollectSteps ==
  ASSUME AccountInv, Member!CollectUserArtifactUUIDs
  PROVE  AccountInv'
  <1>1. /\ UNCHANGED <<a_tokens, a_sess, a_revoke, a_missed, a_stray, a_made, a_posts, a_page, a_call, a_reqs,
                       a_res, a_store, a_user, a_left, a_owned, a_active>>
        /\ a_purge.at = "list" /\ (Member!Fault \/ a_faults' = a_faults)
        /\ \/ a_purge' = [a_purge EXCEPT !.at = "author", !.list = Member!Doomed]
           \/ Member!PurgeGoes("author")
    BY DEF Member!CollectUserArtifactUUIDs, Member!here, Member!outside, Member!history
  <1>2. Member!Doomed \subseteq Resources /\ a_purge.list = {}
    BY <1>1 DEF Member!Doomed, Member!Mine, Member!Others, AccountInv, Listed
  <1>3. /\ a_purge' \in Purge /\ a_purge'.at = "author" /\ a_purge'.owned = a_purge.owned
        /\ a_purge'.before = a_purge.before /\ a_purge'.list \subseteq Member!Doomed
    <2>1. CASE Member!PurgeGoes("author")
      BY <2>1, <1>2, PurgeMoves
    <2>2. CASE a_purge' = [a_purge EXCEPT !.at = "author", !.list = Member!Doomed]
      BY <2>2, <1>2 DEF AccountInv, AccountShape, Purge
    <2> QED
      BY <1>1, <2>1, <2>2
  <1>4. AccountShape'
    BY <1>1, <1>3, BoundsKept DEF AccountInv, AccountShape, Member!TypeOK, VisitShape, Visit, Purge
  <1>5. Owned'
    BY <1>1, <1>3, PurgeOwned
  <1>6. Quiet' /\ Listed' /\ Homes'
    BY <1>1, <1>3 DEF AccountInv, Quiet, PostsGone, Listed, Homes, Member!Doomed, Member!Mine, Member!Others
  <1> QED
    BY <1>4, <1>5, <1>6 DEF AccountInv

LEMMA AuthorSteps ==
  ASSUME AccountInv, Member!PurgeAuthor
  PROVE  AccountInv'
  <1>1. /\ UNCHANGED <<a_tokens, a_sess, a_revoke, a_missed, a_stray, a_made, a_page, a_call, a_reqs,
                       a_res, a_store, a_user, a_left, a_owned>>
        /\ a_purge.at = "author" /\ a_posts' = {}
        /\ \/ Member!PurgeGoes("local") /\ a_active' = (a_active \/ Member!Working) /\ a_faults' = a_faults
           \/ Member!Fault /\ Member!PurgeGoes("idle") /\ a_active' = a_active
    BY DEF Member!PurgeAuthor, Member!here
  <1>2. /\ a_purge' \in Purge /\ a_purge'.at \in {"local", "idle"} /\ a_purge'.list = a_purge.list
        /\ a_purge'.owned = a_purge.owned /\ a_purge'.before = a_purge.before
    BY <1>1, PurgeMoves
  <1>3. a_purge'.at = "local" => a_active' = (a_active \/ Member!Working)
    BY <1>1, PurgeMoves
  <1>4. AccountShape'
    BY <1>1, <1>2, BoundsKept DEF AccountInv, AccountShape, Member!TypeOK, VisitShape, Visit, Purge, Member!Working
  <1>5. Owned'
    BY <1>1, <1>2, PurgeOwned
  <1>6. Quiet'
    BY <1>1, <1>2, <1>3 DEF AccountInv, Quiet, PostsGone, Member!Working
  <1>7. Listed' /\ Homes'
    BY <1>1, <1>2 DEF AccountInv, Listed, Homes, Member!Doomed, Member!Mine, Member!Others
  <1> QED
    BY <1>4, <1>5, <1>6, <1>7 DEF AccountInv

\* The rows go, and the pages to their heirs.
LEMMA RowSteps ==
  ASSUME AccountInv, Member!PurgeRows
  PROVE  AccountInv'
  <1>1. /\ UNCHANGED <<a_tokens, a_sess, a_revoke, a_missed, a_stray, a_made, a_posts, a_call, a_reqs, a_store>>
        /\ a_purge.at = "local" /\ (Member!Fault \/ a_faults' = a_faults)
    BY DEF Member!PurgeRows, Member!outside
  <1>2. CASE Member!PurgeGoes("idle") /\ UNCHANGED <<a_user, a_page, a_res, a_left, a_owned, a_active>>
    <2>1. /\ a_purge' \in Purge /\ a_purge'.at = "idle" /\ a_purge'.list = a_purge.list
          /\ a_purge'.before = a_purge.before
      BY <1>2, PurgeMoves
    <2>2. AccountShape'
      BY <1>1, <1>2, <2>1, BoundsKept DEF AccountInv, AccountShape, Member!TypeOK, VisitShape, Visit, Purge
    <2>3. Owned'
      BY <1>1, <2>1, PurgeOwned
    <2>4. Quiet' /\ Listed' /\ Homes'
      BY <1>1, <1>2, <2>1 DEF AccountInv, Quiet, PostsGone, Listed, Homes, Member!Mine, Member!Others
    <2> QED
      BY <2>2, <2>3, <2>4 DEF AccountInv
  <1>3. CASE /\ a_res' = [r \in Resources |->
                            IF r \notin Member!Doomed THEN a_res[r] ELSE IF r \in Member!Mine THEN "gone" ELSE "lost"]
             /\ a_page' = IF a_page = "account" THEN Member!Heir ELSE a_page
             /\ a_user' = FALSE /\ Member!PurgeGoes("sweep")
             /\ a_left' = a_left \cup (Member!Doomed \ a_purge.list)
             /\ a_owned' = (a_owned \/ a_purge.owned) /\ a_active' = (a_active \/ Member!Working)
    <2>1. /\ a_purge' \in Purge /\ a_purge'.at = "sweep" /\ a_purge'.list = a_purge.list
          /\ a_purge'.owned = a_purge.owned /\ a_purge'.before = a_purge.before
      BY <1>3, PurgeMoves
    <2>2. /\ a_purge.list \subseteq Member!Doomed
          /\ Member!Mine \subseteq Member!Doomed /\ Member!Doomed \subseteq Member!Mine \cup Member!Others
          /\ Member!Mine \cup Member!Others \subseteq Resources /\ Member!Mine \cap Member!Others = {}
      BY <1>1 DEF AccountInv, Listed, Member!Doomed, Member!Mine, Member!Others
    <2>3. Member!Mine' = {} /\ Member!Others' = Member!Others \ Member!Doomed
      BY <1>3, <2>2 DEF Member!Mine, Member!Others
    <2>4. a_res' \in [Resources -> Fate] /\ a_page' \in {"none", "other", "admin"}
      BY <1>3 DEF AccountInv, AccountShape, Fate, Member!Heir, Member!TypeOK
    <2>5. AccountShape'
      BY <1>1, <1>3, <2>1, <2>2, <2>4, BoundsKept DEF AccountInv, AccountShape, Member!TypeOK, VisitShape, Visit,
         Purge, Member!Working
    <2>6. Owned'
      BY <1>1, <2>1, PurgeOwned
    <2>7. Quiet'
      BY <1>1, <1>3, <2>1, <2>3, <2>4 DEF AccountInv, Quiet, PostsGone, Member!Working
    <2>8. Listed'
      <3>1. \A r \in a_purge.list : a_res'[r] \in {"gone", "lost"}
        BY <1>3, <2>2
      <3>2. \A c \in Calls : \A r \in a_call[c].r : r \notin Member!Doomed /\ r \in Resources
        BY AccountTypes, <2>2 DEF AccountInv, Listed, Visit, Member!Mine, Member!Others
      <3>3. \A c \in Calls : \A r \in a_call[c].r : a_res'[r] = a_res[r]
        BY <1>3, <3>2
      <3>4. a_store \subseteq Member!Others' \cup a_left' \cup a_purge.list
        BY <1>1, <1>3, <2>2, <2>3 DEF AccountInv, Listed
      <3> QED
        BY <1>1, <2>1, <3>1, <3>3, <3>4 DEF AccountInv, Listed
    <2>9. Homes'
      <3>1. a_owned' \/ \A r \in Resources : a_res'[r] # "lost"
        BY <1>3, <2>2 DEF AccountInv, Homes, Member!Doomed
      <3>2. Member!Others' # {} => a_page' # "none"
        <4>1. CASE a_page = "account" /\ a_purge.owned
          BY <4>1, <2>2, <2>3 DEF Member!Doomed
        <4>2. CASE a_page = "account" /\ ~a_purge.owned
          BY <4>2, <1>3 DEF Member!Heir
        <4>3. CASE a_page # "account"
          BY <4>3, <1>3, <2>2, <2>3 DEF AccountInv, Homes
        <4> QED
          BY <4>1, <4>2, <4>3
      <3> QED
        BY <3>1, <3>2, <2>3, <2>4, <1>1 DEF AccountInv, Homes
    <2> QED
      BY <2>5, <2>6, <2>7, <2>8, <2>9 DEF AccountInv
  <1> QED
    BY <1>2, <1>3 DEF Member!PurgeRows, Member!here

\* The files that were listed go.
LEMMA SweepSteps ==
  ASSUME AccountInv, Member!SoftDeleteArtifacts
  PROVE  AccountInv'
  <1>1. /\ UNCHANGED <<a_tokens, a_sess, a_revoke, a_missed, a_stray, a_made, a_posts, a_call, a_reqs, a_user,
                       a_page, a_res, a_owned, a_active>>
        /\ a_purge.at = "sweep" /\ (Member!Fault \/ a_faults' = a_faults)
        /\ a_purge' = [a_purge EXCEPT !.at = "scan", !.todo = a_sess]
        /\ \/ a_store' = a_store \ a_purge.list /\ a_left' = a_left
           \/ \E r \in a_purge.list : a_store' = a_store \ (a_purge.list \ {r}) /\ a_left' = a_left \cup {r}
    BY DEF Member!SoftDeleteArtifacts, Member!here
  <1>2. /\ a_purge' \in Purge /\ a_purge'.at = "scan" /\ a_purge'.list = a_purge.list /\ a_purge'.todo = a_sess
        /\ a_purge'.before = a_purge.before
    BY <1>1, AccountTypes DEF AccountInv, AccountShape, Purge, Member!TypeOK
  <1>3. a_purge.list \subseteq Resources
    BY DEF AccountInv, AccountShape, Purge
  <1>4. AccountShape'
    BY <1>1, <1>2, <1>3, BoundsKept DEF AccountInv, AccountShape, Member!TypeOK, VisitShape, Visit, Purge
  <1>5. Owned'
    BY <1>1, <1>2, PurgeOwned
  <1>6. Quiet'
    BY <1>1, <1>2 DEF AccountInv, Quiet, PostsGone, Member!Working, Member!Mine
  <1>7. Listed'
    BY <1>1, <1>2 DEF AccountInv, Listed, Member!Mine, Member!Others
  <1>8. Homes'
    <2>1. \A r \in a_purge.list : r \notin Member!Mine \cup Member!Others
      BY <1>1 DEF AccountInv, Listed, Member!Mine, Member!Others
    <2> QED
      BY <2>1, <1>1 DEF AccountInv, Homes, Member!Mine, Member!Others
  <1> QED
    BY <1>4, <1>5, <1>6, <1>7, <1>8 DEF AccountInv

\* The scan deletes a session, or misses it.
LEMMA ScanSteps ==
  ASSUME AccountInv, NEW n \in Member!Numbers, Member!DeleteSession(n)
  PROVE  AccountInv'
  <1>1. /\ UNCHANGED <<a_tokens, a_revoke, a_made, a_posts, a_call, a_reqs, a_user, a_page, a_res, a_store,
                       a_left, a_owned, a_active>>
        /\ a_purge.at = "scan" /\ (Member!Fault \/ a_faults' = a_faults)
        /\ a_purge' = [a_purge EXCEPT !.todo = a_purge.todo \ {n}]
        /\ \/ a_sess' = a_sess \ {n} /\ a_stray' = a_stray \cup {n} /\ a_missed' = a_missed
           \/ a_missed' = a_missed \cup {n} /\ UNCHANGED <<a_sess, a_stray>>
    BY DEF Member!DeleteSession, Member!here, Member!outside
  <1>2. /\ a_purge' \in Purge /\ a_purge'.at = "scan" /\ a_purge'.list = a_purge.list
        /\ a_purge'.todo = a_purge.todo \ {n} /\ a_purge'.before = a_purge.before
    BY <1>1 DEF AccountInv, AccountShape, Purge
  <1>3. AccountShape'
    BY <1>1, <1>2, BoundsKept DEF AccountInv, AccountShape, Member!TypeOK, VisitShape, Visit, Purge
  <1>4. Owned'
    <2>1. \A o \in Calls, m \in Member!Numbers : HasToken(o, m)' <=> HasToken(o, m)
      BY <1>1 DEF HasToken
    <2>2. \A m : Leaves(m)' <=> Leaves(m)
      BY <1>1 DEF Leaves
    <2>3. \A m \in a_tokens : m \in a_sess' \cup a_revoke \cup a_stray' \/ \E o \in Calls : HasToken(o, m)'
      BY <2>1, <1>1, AccountTypes DEF AccountInv, Owned
    <2>4. \A m \in a_sess' : (m \in a_tokens /\ m \notin a_revoke) \/ m \in a_missed' \/ Leaves(m)'
      BY <2>2, <1>1 DEF AccountInv, Owned
    <2>5. \A m \in a_tokens : Leaves(m)' => m \in a_revoke \cup a_stray'
      BY <2>2, <1>1 DEF AccountInv, Owned
    <2>6. a_sess' \subseteq a_sess
      BY <1>1
    <2> QED
      BY <2>1, <2>3, <2>4, <2>5, <2>6, <1>1, <1>2 DEF AccountInv, Owned
  <1>5. Quiet'
    BY <1>1, <1>2 DEF AccountInv, Quiet, PostsGone, Member!Working, Member!Mine
  <1>6. Listed' /\ Homes'
    BY <1>1, <1>2 DEF AccountInv, Listed, Homes, Member!Mine, Member!Others
  <1> QED
    BY <1>3, <1>4, <1>5, <1>6 DEF AccountInv

\* The scan ends, or the process does.
LEMMA EndSteps ==
  ASSUME AccountInv, Member!ScanEnds \/ Member!PurgeDies
  PROVE  AccountInv'
  <1>1. /\ UNCHANGED <<a_tokens, a_revoke, a_made, a_posts, a_call, a_reqs, a_user, a_page, a_res, a_store,
                       a_sess, a_stray, a_owned, a_active>>
        /\ Member!Fault \/ a_faults' = a_faults
        /\ \/ /\ a_purge.at = "scan" /\ Member!PurgeGoes("done") /\ a_left' = a_left
              /\ (a_purge.todo = {} /\ a_missed' = a_missed) \/ a_missed' = a_missed \cup a_purge.todo
           \/ /\ Member!PurgeGoes("idle") /\ a_missed' = a_missed
              /\ a_left' = a_left \cup IF a_purge.at = "sweep" THEN a_purge.list ELSE {}
    BY DEF Member!ScanEnds, Member!PurgeDies, Member!here, Member!outside
  <1>2. /\ a_purge' \in Purge /\ a_purge'.list = a_purge.list /\ a_purge'.before = a_purge.before
        /\ a_purge'.at \in {"idle", "done"}
        /\ a_purge'.at = "done" => a_purge.at = "scan" /\ a_purge.todo \subseteq a_missed'
    BY <1>1, PurgeMoves
  <1>3. a_purge.list \subseteq Resources /\ a_purge.todo \subseteq Member!Numbers
    BY DEF AccountInv, AccountShape, Purge
  <1>4. AccountShape'
    BY <1>1, <1>2, <1>3, BoundsKept DEF AccountInv, AccountShape, Member!TypeOK, VisitShape, Visit, Purge
  <1>5. Owned'
    <2>1. \A o \in Calls, m \in Member!Numbers : HasToken(o, m)' <=> HasToken(o, m)
      BY <1>1 DEF HasToken
    <2>2. \A m : Leaves(m)' <=> Leaves(m)
      BY <1>1 DEF Leaves
    <2>3. a_missed \subseteq a_missed'
      BY <1>1
    <2>4. \A m \in a_tokens : m \in a_sess \cup a_revoke \cup a_stray \/ \E o \in Calls : HasToken(o, m)'
      BY <2>1, AccountTypes DEF AccountInv, Owned
    <2>5. \A m \in a_sess : (m \in a_tokens /\ m \notin a_revoke) \/ m \in a_missed' \/ Leaves(m)'
      BY <2>2, <2>3 DEF AccountInv, Owned
    <2>6. \A m \in a_tokens : Leaves(m)' => m \in a_revoke \cup a_stray
      BY <2>2 DEF AccountInv, Owned
    <2> QED
      BY <2>1, <2>4, <2>5, <2>6, <1>1, <1>2 DEF AccountInv, Owned
  <1>6. Quiet'
    BY <1>1, <1>2 DEF AccountInv, Quiet, PostsGone, Member!Working, Member!Mine
  <1>7. Listed'
    <2>1. a_store \subseteq Member!Mine \cup Member!Others \cup a_left'
      BY <1>1, <1>2, PurgeMoves DEF AccountInv, Listed
    <2> QED
      BY <2>1, <1>1, <1>2 DEF AccountInv, Listed, Member!Mine, Member!Others
  <1>8. Homes'
    BY <1>1 DEF AccountInv, Homes, Member!Mine, Member!Others
  <1> QED
    BY <1>4, <1>5, <1>6, <1>7, <1>8 DEF AccountInv

-----------------------------------------------------------------------------
\* One session, one token; at most one resource, with its file, on a page.
LEMMA InitAccount == Member!Init => AccountInv
  <1> SUFFICES ASSUME Member!Init PROVE AccountInv
    OBVIOUS
  <1>1. PICK who \in {"none", "account", "other"}, r \in Resources :
          /\ a_page = "none" => who = "none"
          /\ a_res = [q \in Resources |-> IF q = r THEN who ELSE "none"]
          /\ a_store = IF who = "none" THEN {} ELSE {r}
    BY DEF Member!Init
  <1>2. /\ a_user = TRUE /\ a_page \in {"none", "account", "other"}
        /\ a_posts = {} /\ a_tokens = {1} /\ a_sess = {1} /\ a_revoke = {}
        /\ a_call = [c \in Calls |-> Member!NoCall] /\ a_purge = Member!NoPurge
        /\ a_reqs = 0 /\ a_faults = 0 /\ a_made = 1
        /\ a_left = {} /\ a_stray = {} /\ a_missed = {} /\ a_active = FALSE /\ a_owned = FALSE
    BY DEF Member!Init
  <1>3. 1 \in Member!Numbers /\ 0 \in 0..MaxReq /\ 0 \in 0..MaxFault /\ 1 \in 1..MaxSign /\ 0 \in 0..1
    BY AccountAssumption, SessionAssumption DEF Member!Numbers
  <1>4. /\ a_purge \in Purge /\ a_purge.at = "idle" /\ a_purge.list = {} /\ a_purge.before = {}
        /\ \A c \in Calls : a_call[c] = Member!NoCall
    BY <1>2 DEF Member!NoPurge, Purge
  <1>5. VisitShape
    BY <1>2, <1>4, NoVisit DEF VisitShape, SigningIn
  <1>6. AccountShape
    <2>1. a_res \in [Resources -> Fate] /\ a_store \subseteq Resources
      BY <1>1 DEF Fate
    <2>2. Member!TypeOK
      BY <1>2, <1>3, <1>4, <2>1, NoVisit DEF Member!TypeOK, Purge, Visit, Fate
    <2> QED
      BY <2>1, <2>2, <1>2, <1>4, <1>5 DEF AccountShape
  <1>7. Owned
    <2>1. \A n : ~Leaves(n) /\ \A c \in Calls : ~HasToken(c, n)
      BY <1>4, NoVisit DEF HasToken, Leaves, SigningIn
    <2>2. a_sess \cup a_revoke \cup a_tokens \cup a_purge.before \subseteq 1..a_made
      BY <1>2, <1>4
    <2>3. \A c \in Calls : a_call[c].n \in 0..a_made
      BY <1>2, <1>3, <1>4, NoVisit
    <2>4. a_tokens = {1} /\ a_sess = {1} /\ a_revoke = {}
      BY <1>2
    <2>5. \A n \in a_tokens :
            n \in a_sess \cup a_revoke \cup a_stray \/ \E c \in Calls : HasToken(c, n)
      BY <2>4
    <2>6. \A n \in a_sess : (n \in a_tokens /\ n \notin a_revoke) \/ n \in a_missed \/ Leaves(n)
      BY <2>4
    <2> QED
      BY <2>1, <2>2, <2>3, <2>5, <2>6 DEF Owned
  <1>8. Quiet /\ Listed
    BY <1>1, <1>2, <1>4, NoVisit DEF Quiet, PostsGone, Listed, Member!Mine, Member!Others
  <1>9. Homes
    BY <1>1, <1>2 DEF Homes, Member!Mine, Member!Others
  <1> QED
    BY <1>6, <1>7, <1>8, <1>9 DEF AccountInv

LEMMA NextAccount == AccountInv /\ [Member!Next]_memberVars => AccountInv'
  <1> SUFFICES ASSUME AccountInv, [Member!Next]_memberVars PROVE AccountInv'
    OBVIOUS
  <1>1. CASE UNCHANGED memberVars
    <2>1. AccountShape'
      BY <1>1 DEF memberVars, AccountInv, AccountShape, Member!TypeOK, VisitShape, Visit, Purge
    <2>2. Owned'
      BY <1>1, OwnedKept, AccountTypes DEF memberVars, AccountInv, HasToken, Leaves
    <2>3. Quiet' /\ Listed' /\ Homes'
      BY <1>1 DEF memberVars, AccountInv, Quiet, PostsGone, Listed, Homes, Member!Mine, Member!Others,
         Member!Doomed, Member!Working
    <2> QED
      BY <2>1, <2>2, <2>3 DEF AccountInv
  <1>2. ASSUME NEW c \in Calls, Member!GetUserInfo(c) PROVE AccountInv'
    <2>1. a_call[c].at \in SigningIn
      BY <1>2 DEF Member!GetUserInfo, SigningIn
    <2>2. CASE Member!Goes(c, "row")
      BY <1>2, <2>2, WorkSteps
    <2>3. CASE Member!Answered(c)
      BY <1>2, <2>1, <2>3, PartSteps
    <2> QED
      BY <1>2, <2>2, <2>3 DEF Member!GetUserInfo, Member!Abandon
  <1>3. ASSUME NEW c \in Calls, Member!FindOrCreateUser(c) PROVE AccountInv'
    <2>1. a_call[c].at \in SigningIn
      BY <1>3 DEF Member!FindOrCreateUser, SigningIn
    <2>2. CASE Member!Goes(c, "session")
      BY <1>3, <2>2, WorkSteps
    <2>3. CASE Member!Answered(c)
      BY <1>3, <2>1, <2>3, PartSteps
    <2> QED
      BY <1>3, <2>2, <2>3 DEF Member!FindOrCreateUser, Member!Abandon
  <1>4. ASSUME NEW c \in Calls, Member!CreateSession(c) \/ Member!SignInDies(c) PROVE AccountInv'
    <2>1. a_call[c].at \in SigningIn /\ Member!Answered(c)
      BY <1>4 DEF Member!CreateSession, Member!SignInDies, Member!Abandon, SigningIn
    <2> QED
      BY <1>4, <2>1, PartSteps
  <1>5. CASE Member!Next
    <2>1. ASSUME NEW c \in Calls,
                 \/ Member!SignIn(c) \/ Member!ExchangeCode(c) \/ Member!GetUserInfo(c)
                 \/ Member!FindOrCreateUser(c) \/ Member!CreateSession(c) \/ Member!DestroySession(c)
                 \/ Member!SignInDies(c) \/ Member!ProvisionUser(c) \/ Member!InsertStub(c)
                 \/ Member!InsertResource(c) \/ Member!CreatePost(c)
          PROVE  AccountInv'
      BY <2>1, <1>2, <1>3, <1>4, BeginSteps, ExchangeSteps, DestroySteps, WorkSteps, InsertSteps
    <2>2. ASSUME NEW c \in Calls, NEW n \in a_sess,
                 \/ Member!Logout(c, n) \/ Member!Comment(c, n)
                 \/ \E r \in Resources : Member!Publish(c, n, r)
          PROVE  AccountInv'
      BY <2>2, LogoutSteps, BeginSteps
    <2>3. ASSUME NEW n \in Member!Numbers, Member!RevokeOAuthToken(n) \/ Member!DeleteSession(n)
          PROVE  AccountInv'
      BY <2>3, RevokeSteps, ScanSteps
    <2> QED
      BY <1>5, <2>1, <2>2, <2>3, OtherSteps, PurgeBegins, CollectSteps, AuthorSteps, RowSteps, SweepSteps,
         EndSteps DEF Member!Next
  <1> QED
    BY <1>1, <1>5

LEMMA AccountAlways == SpecOfOne => []AccountInv
  <1>1. InitOfOne => AccountInv
    BY InitAccount DEF InitOfOne
  <1>2. AccountInv /\ [NextOfOne]_allVars => AccountInv'
    <2>1. [NextOfOne]_allVars => [Member!Next]_memberVars
      BY DEF NextOfOne, allVars, memberVars
    <2> QED
      BY <2>1, NextAccount
  <1> QED
    BY <1>1, <1>2, PTL DEF SpecOfOne

\* However sign-ins, sign-outs, posts and purges of an account interleave, fail
\* and die, for any number of them: a refresh token is held by a session, is on
\* its way to be revoked, or was given up by a step that failed; a purge that
\* is done has ended the sessions it began with and left nothing of an account
\* that was not at work; and what others published keeps its page and its file
\* (internal/auth and internal/admin).
THEOREM AccountIsKept == SpecOfOne => []AccountKept
  <1>1. AccountInv => AccountKept
    <2> SUFFICES ASSUME AccountInv PROVE Member!AccountKept
      BY DEF AccountKept
    <2>1. Member!TokensHeld
      <3>1. ASSUME NEW n \in a_tokens PROVE n \in a_sess \cup a_revoke \cup a_stray \cup {a_call[c].n : c \in Calls}
        BY AccountTypes DEF AccountInv, Owned, HasToken
      <3>2. ASSUME NEW c \in Calls, NEW n, a_call[c].at = "destroy", a_call[c].n = n
            PROVE  a_call[c] = [Member!NoCall EXCEPT !.at = "destroy", !.n = n]
        <4>1. a_call[c] \in Visit /\ a_call[c].r = {}
          BY <3>2, AccountTypes DEF VisitShape, Publishing
        <4> DEFINE w == [Member!NoCall EXCEPT !.at = "destroy", !.n = n]
        <4>2. w \in Visit /\ w.at = "destroy" /\ w.n = n /\ w.r = {}
          BY <3>2, <4>1 DEF Visit, Member!NoCall
        <4> HIDE DEF w
        <4>3. \A x, y \in Visit : x.at = y.at /\ x.n = y.n /\ x.r = y.r => x = y
          BY DEF Visit
        <4> QED
          BY <3>2, <4>1, <4>2, <4>3 DEF w
      <3>3. ASSUME NEW n \in a_sess
            PROVE  \/ n \in a_tokens \cup a_missed
                   \/ \E c \in Calls : a_call[c] = [Member!NoCall EXCEPT !.at = "destroy", !.n = n]
        BY <3>2 DEF AccountInv, Owned, Leaves
      <3> QED
        BY <3>1, <3>3 DEF Member!TokensHeld
    <2>2. Member!PurgeEnds
      BY DEF AccountInv, Quiet, PostsGone, Member!PurgeEnds
    <2>3. Member!OthersKept
      BY DEF AccountInv, Homes, Listed, Member!OthersKept, Member!Idle
    <2> QED
      BY <2>1, <2>2, <2>3 DEF Member!AccountKept
  <1> QED
    BY <1>1, AccountAlways, PTL

\* The session and the account keep their types (session.go; internal/auth and
\* internal/admin), whichever of the two runs.
THEOREM MembersHaveShapes == SpecOfOne => []Shapes
  <1>1. InitOfOne => SessionInv
    BY InitSession DEF InitOfOne
  <1>2. SessionInv /\ [NextOfOne]_allVars => SessionInv'
    <2>1. [NextOfOne]_allVars => [Next]_vars
      BY DEF NextOfOne, allVars
    <2> QED
      BY <2>1, NextSession
  <1>3. SessionInv /\ AccountInv => Shapes
    BY DEF SessionInv, AccountInv, AccountShape, Shapes
  <1> QED
    BY <1>1, <1>2, <1>3, AccountAlways, PTL DEF SpecOfOne
=============================================================================
