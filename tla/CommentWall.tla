------------------------------ MODULE CommentWall ------------------------------
(***************************************************************************)
(* One comment wall: the requests that post, edit, delete, like and purge  *)
(* on it at community, and what this site settles after each answer: its   *)
(* counter, the contributor row, the awards of the ledger and the notices. *)
(* internal/comment and pkg/moemoepoint.                                   *)
(*                                                                         *)
(* A press of the button has a key, kept over its retries; community       *)
(* answers a key it knows with the post it wrote.  An answer may be lost,  *)
(* and a request may die after any of its steps.                           *)
(*                                                                         *)
(* Abstractions.  A post has the number of the press it is from.  One      *)
(* author, who is not the page's owner; one reader who likes; a text       *)
(* mentions one user or nobody.  What a post marks read is InboxMirror's,  *)
(* the wall it presents AnchorPresentation's; the notice of a moderator's  *)
(* act is left out.  History variables: ups, askew, unpaid, overlap,       *)
(* doubled.                                                                *)
(***************************************************************************)
EXTENDS Integers, FiniteSets, FiniteSetsExt

CONSTANTS
  Calls,     \* requests that may run at once
  MaxPost,   \* bound: presses of the button
  MaxReq,    \* bound: requests made
  MaxFault   \* bound: answers lost, requests dead

VARIABLES
  post,     \* external: what became of the post of a press
  liked,    \* external: the posts the reader likes
  paid,     \* external: the ledger's keys
  count,    \* patch.comment_count, of this wall
  row,      \* the author's user_patch_contribute_relation row
  contrib,  \* patch.contribute_count, of the author
  mirror,   \* "user".moemoepoint, of the page's owner and of the author
  notices,  \* user_message: mentions told by this site, by post
  call,     \* what a request is at
  reqs,     \* requests made
  faults,
  ups,      \* how often a post was counted
  askew,    \* a cause that leaves the counter wrong has happened
  unpaid,   \* an award was lost
  overlap,  \* accounts whose balance two requests read at once
  doubled   \* posts two edits of which looked for a notice at once

community == <<post, liked>>
ours == <<count, row, contrib, notices>>
history == <<ups, askew, unpaid, overlap, doubled>>
vars == <<community, paid, ours, mirror, call, reqs, faults, history>>

Posts == 1..MaxPost
Accounts == {"owner", "author"}
Keys == {"post", "like", "unlike"} \X Posts
NoPost == [at |-> "none", mentions |-> FALSE]
NoCall == [at |-> "idle", post |-> 0, was |-> FALSE, n |-> 0, award |-> "none"]
Steps == {"idle", "create", "bump", "row", "contributor", "award", "cache", "delete", "drop",
          "purge", "like", "edit", "look", "tell"}
Visible == {p \in Posts : post[p].at = "visible"}
Live == {p \in Posts : post[p].at \in {"visible", "held"}}

-----------------------------------------------------------------------------
(* The steps of a request. *)

Begin(c, rec) ==
  /\ call[c] = NoCall /\ reqs < MaxReq /\ reqs' = reqs + 1
  /\ call' = [call EXCEPT ![c] = rec]
  /\ UNCHANGED <<community, paid, ours, mirror, faults, history>>

Goes(c, step) == call' = [call EXCEPT ![c].at = step]
Answered(c) == call' = [call EXCEPT ![c] = NoCall]
Fault == faults < MaxFault /\ faults' = faults + 1

-----------------------------------------------------------------------------
(* Create. *)

\* A press, or the retry of one: the page keeps the key of what it submitted.
Create(c, p) ==
  /\ \A q \in 1..(p - 1) : post[q] # NoPost
  /\ Begin(c, [NoCall EXCEPT !.at = "create", !.post = p])

\* Mutant of CommentOnAnchor: an answer that was replayed is settled again.
CountReplays(c, status, mentions) ==
  LET p == call[c].post IN
  /\ call[c].at = "create"
  /\ post' = IF post[p] # NoPost THEN post
             ELSE [post EXCEPT ![p] = [at |-> status, mentions |-> mentions]]
  /\ \/ Goes(c, "bump") /\ UNCHANGED <<faults, askew>>
     \/ Fault /\ Answered(c) /\ askew' = TRUE
  /\ UNCHANGED <<liked, paid, ours, mirror, reqs, ups, unpaid, overlap, doubled>>

\* CommentOnAnchor; the newcomer sandbox may hold the post.  afterCreate runs
\* for an answer that was not replayed.
CommentOnAnchor(c, status, mentions) ==
  LET p == call[c].post IN
  /\ call[c].at = "create"
  /\ \/ /\ post[p] = NoPost
        /\ post' = [post EXCEPT ![p] = [at |-> status, mentions |-> mentions]]
        /\ \/ Goes(c, "bump") /\ UNCHANGED <<faults, askew>>
           \/ Fault /\ Answered(c) /\ askew' = TRUE
     \/ post[p] # NoPost /\ Answered(c) /\ UNCHANGED <<post, faults, askew>>
  /\ UNCHANGED <<liked, paid, ours, mirror, reqs, ups, unpaid, overlap, doubled>>

\* BumpCommentCount, up: for the post that was written.
Bump(c) ==
  /\ call[c].at = "bump" /\ Goes(c, "row")
  /\ count' = count + 1 /\ ups' = [ups EXCEPT ![call[c].post] = @ + 1]
  /\ UNCHANGED <<community, paid, row, contrib, notices, mirror, reqs, faults, askew, unpaid,
                 overlap, doubled>>

\* EnsureContributor: the row, then the counter if the row is new.  The owner of
\* the page is paid next.
EnsureContributor(c) ==
  /\ call[c].at = "row" /\ row' = TRUE
  /\ call' = [call EXCEPT ![c].at = IF row THEN "award" ELSE "contributor", ![c].award = "post"]
  /\ UNCHANGED <<community, paid, count, contrib, notices, mirror, reqs, faults, history>>

CountContributor(c) ==
  /\ call[c].at = "contributor" /\ Goes(c, "award")
  /\ contrib' = contrib + 1
  /\ UNCHANGED <<community, paid, count, row, notices, mirror, reqs, faults, history>>

-----------------------------------------------------------------------------
(* Awards. *)

Payee(event) == IF event \in {"post", "owner"} THEN "owner" ELSE "author"
Entries(event, keys) == Cardinality({k \in keys : k[1] = event})
BalanceIn(who, keys) ==
  IF who = "owner" THEN Entries("post", keys) ELSE Entries("like", keys) - Entries("unlike", keys)

\* The requests that have a balance of the account to write down.
Reading(who) == {c \in Calls : call[c].at = "cache" /\ Payee(call[c].award) = who}
Overlaps(who) == overlap' = overlap \cup IF Reading(who) = {} THEN {} ELSE {who}

\* Adjust: a key counts once, and the balance is answered.  A refusal pays
\* nothing; a lost answer leaves the local column behind.
Adjust(c) ==
  LET who == Payee(call[c].award)
      all == paid \cup {<<call[c].award, call[c].post>>} IN
  /\ call[c].at = "award" /\ Overlaps(who)
  /\ \/ /\ paid' = all /\ UNCHANGED <<faults, unpaid>>
        /\ call' = [call EXCEPT ![c].at = "cache", ![c].n = BalanceIn(who, all)]
     \/ Fault /\ Answered(c) /\ unpaid' = TRUE /\ paid' \in {paid, all}
  /\ UNCHANGED <<community, ours, mirror, reqs, ups, askew, doubled>>

\* Balance: the live balance is read for the account.
Balance(c, who) ==
  /\ call[c] = NoCall /\ reqs < MaxReq /\ reqs' = reqs + 1 /\ Overlaps(who)
  /\ call' = [call EXCEPT ![c] = [NoCall EXCEPT !.at = "cache", !.award = who,
                                                !.n = BalanceIn(who, paid)]]
  /\ UNCHANGED <<community, paid, ours, mirror, faults, ups, askew, unpaid, doubled>>

Cache(c) ==
  /\ call[c].at = "cache" /\ Answered(c)
  /\ mirror' = [mirror EXCEPT ![Payee(call[c].award)] = call[c].n]
  /\ UNCHANGED <<community, paid, ours, reqs, faults, history>>

-----------------------------------------------------------------------------
(* Delete and purge. *)

Delete(c, p) == post[p] # NoPost /\ Begin(c, [NoCall EXCEPT !.at = "delete", !.post = p, !.n = 1])

\* DeletePost: a tombstone is not found.
DeletePost(c) ==
  LET p == call[c].post IN
  /\ call[c].at = "delete"
  /\ \/ /\ p \in Live /\ post' = [post EXCEPT ![p].at = "deleted"]
        /\ \/ Goes(c, "drop") /\ UNCHANGED <<faults, askew>>
           \/ Fault /\ Answered(c) /\ askew' = TRUE
     \/ p \notin Live /\ Answered(c) /\ UNCHANGED <<post, faults, askew>>
  /\ UNCHANGED <<liked, paid, ours, mirror, reqs, ups, unpaid, overlap, doubled>>

\* Mutant of Drop: the counter may fall under zero.
DropUnclamped(c) ==
  /\ call[c].at = "drop" /\ Answered(c)
  /\ count' = count - call[c].n
  /\ askew' = (askew \/ count < call[c].n)
  /\ UNCHANGED <<community, paid, row, contrib, notices, mirror, reqs, faults, ups, unpaid,
                 overlap, doubled>>

\* BumpCommentCount, down, never under zero.
Drop(c) ==
  /\ call[c].at = "drop" /\ Answered(c)
  /\ count' = IF count < call[c].n THEN 0 ELSE count - call[c].n
  /\ askew' = (askew \/ count < call[c].n)
  /\ UNCHANGED <<community, paid, row, contrib, notices, mirror, reqs, faults, ups, unpaid,
                 overlap, doubled>>

\* PurgeAuthor counts what is visible before it purges: afterwards the posts are
\* tombstones.
PurgeAuthor(c) == Begin(c, [NoCall EXCEPT !.at = "purge", !.n = Cardinality(Visible)])

AuthorPurge(c) ==
  /\ call[c].at = "purge"
  /\ post' = [p \in Posts |-> IF p \in Live THEN [post[p] EXCEPT !.at = "deleted"] ELSE post[p]]
  /\ \/ Goes(c, "drop") /\ UNCHANGED faults
     \/ Fault /\ Answered(c)
  /\ askew' = (askew \/ call[c].n # Cardinality(Live) \/ faults' # faults)
  /\ UNCHANGED <<liked, paid, ours, mirror, reqs, ups, unpaid, overlap, doubled>>

-----------------------------------------------------------------------------
(* Likes. *)

SetLike(c, p, on) == p \in Visible /\ Begin(c, [NoCall EXCEPT !.at = "like", !.post = p, !.was = on])

\* SetReaction or UnsetReaction: an award only for a like that changed.
React(c) ==
  LET p == call[c].post
      now == IF call[c].was THEN liked \cup {p} ELSE liked \ {p} IN
  /\ call[c].at = "like"
  /\ \/ /\ p \in Visible /\ now # liked /\ liked' = now
        /\ \/ /\ call' = [call EXCEPT ![c].at = "award",
                                      ![c].award = IF call[c].was THEN "like" ELSE "unlike"]
              /\ UNCHANGED <<faults, unpaid>>
           \/ Fault /\ Answered(c) /\ unpaid' = TRUE
     \/ (p \notin Visible \/ now = liked) /\ Answered(c) /\ UNCHANGED <<liked, faults, unpaid>>
  /\ UNCHANGED <<post, paid, ours, mirror, reqs, ups, askew, overlap, doubled>>

\* Reports hide a post at community, and a review shows it.
Flagged(p) ==
  /\ p \in Live /\ reqs < MaxReq /\ reqs' = reqs + 1
  /\ post' = [post EXCEPT ![p].at = IF p \in Visible THEN "held" ELSE "visible"]
  /\ UNCHANGED <<liked, paid, ours, mirror, call, faults, history>>

-----------------------------------------------------------------------------
(* Edits. *)

\* Update reads the text it will compare with.
Update(c, p) ==
  p \in Visible /\ Begin(c, [NoCall EXCEPT !.at = "edit", !.post = p, !.was = post[p].mentions])

\* EditPost: refused for a tombstone or a held post.  A mention that was not
\* there is told, unless a moderator edits.
EditPost(c, mentions, asModerator) ==
  LET p == call[c].post IN
  /\ call[c].at = "edit"
  /\ post' = IF p \in Visible THEN [post EXCEPT ![p].mentions = mentions] ELSE post
  /\ IF p \in Visible /\ mentions /\ ~call[c].was /\ ~asModerator
     THEN Goes(c, "look") ELSE Answered(c)
  /\ UNCHANGED <<liked, paid, ours, mirror, reqs, faults, history>>

\* notifyDedup: one notice for a sender, a reader and a link.
Look(c) ==
  LET p == call[c].post
      others == {o \in Calls : call[o].at = "tell" /\ call[o].post = p} IN
  /\ call[c].at = "look"
  /\ IF notices[p] > 0 THEN Answered(c) ELSE Goes(c, "tell")
  /\ doubled' = doubled \cup IF others = {} THEN {} ELSE {p}
  /\ UNCHANGED <<community, paid, ours, mirror, reqs, faults, ups, askew, unpaid, overlap>>

Tell(c) ==
  /\ call[c].at = "tell" /\ Answered(c)
  /\ notices' = [notices EXCEPT ![call[c].post] = @ + 1]
  /\ UNCHANGED <<community, paid, count, row, contrib, mirror, reqs, faults, history>>

-----------------------------------------------------------------------------
\* The process ends, or the database refuses, between two steps.
Die(c) ==
  /\ call[c].at \notin {"idle", "create", "delete", "purge", "like", "edit"}
  /\ Fault /\ Answered(c)
  /\ askew' = (askew \/ call[c].at \in {"bump", "drop"})
  /\ unpaid' = TRUE
  /\ UNCHANGED <<community, paid, ours, mirror, reqs, ups, overlap, doubled>>

Init ==
  /\ post = [p \in Posts |-> NoPost] /\ liked = {} /\ paid = {}
  /\ count = 0 /\ row = FALSE /\ contrib = 0 /\ notices = [p \in Posts |-> 0]
  /\ mirror = [w \in Accounts |-> 0] /\ call = [c \in Calls |-> NoCall]
  /\ reqs = 0 /\ faults = 0 /\ ups = [p \in Posts |-> 0]
  /\ askew = FALSE /\ unpaid = FALSE /\ overlap = {} /\ doubled = {}

Next ==
  \/ \E c \in Calls :
       \/ Bump(c) \/ EnsureContributor(c) \/ CountContributor(c) \/ Adjust(c) \/ Cache(c)
       \/ DeletePost(c) \/ Drop(c) \/ PurgeAuthor(c) \/ AuthorPurge(c) \/ React(c)
       \/ Look(c) \/ Tell(c) \/ Die(c)
       \/ \E m \in BOOLEAN :
            \/ \E status \in {"visible", "held"} : CommentOnAnchor(c, status, m)
            \/ \E asModerator \in BOOLEAN : EditPost(c, m, asModerator)
       \/ \E w \in Accounts : Balance(c, w)
       \/ \E p \in Posts :
            \/ Create(c, p) \/ Delete(c, p) \/ Update(c, p)
            \/ \E on \in BOOLEAN : SetLike(c, p, on)
  \/ \E p \in Posts : Flagged(p)

Spec == Init /\ [][Next]_vars

-----------------------------------------------------------------------------
Idle == \A c \in Calls : call[c] = NoCall

\* Every variable has its shape.
TypeOK ==
  /\ \A p \in Posts : post[p].at \in {"none", "visible", "held", "deleted"}
  /\ liked \subseteq Posts /\ paid \subseteq Keys /\ doubled \subseteq Posts
  /\ count \in 0..MaxPost /\ contrib \in 0..1 /\ row \in BOOLEAN
  /\ \A c \in Calls : call[c].at \in Steps /\ call[c].post \in {0} \cup Posts
  /\ reqs \in 0..MaxReq /\ faults \in 0..MaxFault /\ overlap \subseteq Accounts

\* The page's counter comes to the number of its posts when the requests are
\* over, and a press counts once however often it is retried.
CountSettles ==
  /\ \A p \in Posts : ups[p] <= 1
  /\ contrib <= 1
  /\ Idle /\ ~askew => count = Cardinality(Live)

\* A like that stands has been paid for, and none is taken back that was not
\* paid: liking and unliking comes to one point or none.
LikesPaid ==
  Idle /\ ~unpaid =>
    \A p \in Posts : p \in liked \/ <<"unlike", p>> \in paid => <<"like", p>> \in paid

\* The balance shown here is the ledger's, unless two requests had read it at
\* once or an answer was lost.
MirrorSettles ==
  Idle /\ ~unpaid => \A w \in Accounts \ overlap : mirror[w] = BalanceIn(w, paid)

\* A mention added by edits is told once, however often it is added.
ToldOnce == \A p \in Posts \ doubled : notices[p] <= 1

\* What this site keeps of a wall settles to what community and the ledger have.
WallKept == CountSettles /\ LikesPaid /\ MirrorSettles /\ ToldOnce
=============================================================================
