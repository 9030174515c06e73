------------------------------- MODULE ChatRoom -------------------------------
(***************************************************************************)
(* One chat room of this site: its messages, their edits, withdrawals and  *)
(* reactions, the page that polls it, and the deploy that moves private    *)
(* rooms to NextMoe.  internal/chat and pages/message/chat/[link].vue.     *)
(*                                                                         *)
(* A request reads (the room, the membership, the message) and writes in   *)
(* two steps.  A message gets its number when it is inserted and shows     *)
(* when its transaction commits, after it has the lock of the room's row.  *)
(*                                                                         *)
(* Abstractions.  A text is a number; one emoji.  A private room is the    *)
(* pair's.  A process the deploy replaces may finish the requests it has,  *)
(* or be killed: what is open rolls back.                                  *)
(* History variables: copied, late, overtaken, crossed, skipped.           *)
(***************************************************************************)
EXTENDS Naturals, Sequences, SequencesExt, FiniteSets, FiniteSetsExt

CONSTANTS
  Users,       \* who chats
  Pair,        \* the two a private room is for
  Moderators,  \* who may withdraw any message
  Reader,      \* whose page is modelled
  Calls,       \* requests that may run at once
  PageSize,    \* messages a page asks for
  MaxMsg,      \* bound: messages numbered
  MaxActs      \* bound: requests made

VARIABLES
  room,       \* chat_room and chat_member
  msgs,       \* chat_message and its edit history
  next,       \* the next message number
  reactions,  \* chat_message_reaction
  seen,       \* chat_message_seen
  texts,      \* texts written so far
  acts,       \* requests made so far
  moved,      \* privateMoved: set by a deploy
  call,       \* what a request is at
  view,       \* the messages on the page, and whether older ones are left
  copied,     \* what NextMoe last took over, <<>> before it has
  late,       \* requests that were open when it did
  overtaken,  \* messages edited by a request that read them before a withdrawal
  crossed,    \* messages two edits of which overlapped
  skipped     \* messages the page's cursor has passed unseen

roomVars == <<room, msgs, next, reactions, seen, texts>>
history == <<copied, late, overtaken, crossed, skipped>>
vars == <<roomVars, acts, moved, call, view, history>>

Msgs == 1..MaxMsg
Nothing == [at |-> "none", by |-> 0, text |-> 0, trail |-> <<>>, gone |-> FALSE, to |-> 0]
NoCall == [op |-> "idle", by |-> 0, m |-> 0, text |-> 0, found |-> FALSE]
Ops == {"idle", "start", "send", "insert", "edit", "delete", "react"}

Shown == {m \in Msgs : msgs[m].at \in {"SENT", "EDITED", "DELETED"}}
Frozen == moved /\ room.type = "PRIVATE"

-----------------------------------------------------------------------------
(* Rooms. *)

\* CreateRoom: the room and its owner in one transaction.
CreateGroup(u) ==
  /\ room.type = "GROUP" /\ ~room.made
  /\ room' = [room EXCEPT !.made = TRUE, !.members = {u}]
  /\ UNCHANGED <<msgs, next, reactions, seen, texts, acts, moved, call, view, history>>

JoinRoomByLink(u) ==
  /\ room.made
  /\ room' = [room EXCEPT !.members = @ \cup {u}]
  /\ UNCHANGED <<msgs, next, reactions, seen, texts, acts, moved, call, view, history>>

Counted == acts < MaxActs /\ acts' = acts + 1
Begin(c, rec) ==
  /\ Counted /\ call[c] = NoCall /\ call' = [call EXCEPT ![c] = rec]
  /\ UNCHANGED <<roomVars, moved, view, history>>
Answer(c) == call' = [call EXCEPT ![c] = NoCall]

\* StartPrivateChat, up to looking the link up.
StartPrivate(c, u) ==
  /\ room.type = "PRIVATE" /\ ~moved /\ u \in Pair
  /\ Begin(c, [NoCall EXCEPT !.op = "start", !.by = u, !.found = room.made])

\* A found room gets both its members again; a lost race for the link finds it.
FindOrCreatePrivateRoom(c) ==
  /\ call[c].op = "start" /\ Answer(c)
  /\ room' = [room EXCEPT !.made = TRUE,
                !.members = IF call[c].found \/ ~room.made THEN @ \cup Pair ELSE @]
  /\ UNCHANGED <<msgs, next, reactions, seen, texts, acts, moved, view, history>>

-----------------------------------------------------------------------------
(* Messages. *)

Sending == \E c \in Calls : call[c].by = Reader /\ call[c].op \in {"send", "insert"}

Member(u) == room.made /\ u \in room.members

\* A reply is to a message of this room.
MayPost(u, to) == Member(u) /\ ~Frozen /\ (to = 0 \/ to \in Shown)

\* The page sends one message at a time.
CreateMessage(c, u, to) ==
  /\ MayPost(u, to) /\ (u = Reader => ~Sending)
  /\ Begin(c, [NoCall EXCEPT !.op = "send", !.by = u, !.m = to])

\* The insert takes a number; other inserts run until one has the room's row.
Insert(c) ==
  /\ call[c].op = "send" /\ next <= MaxMsg
  /\ msgs' = [msgs EXCEPT ![next] = [Nothing EXCEPT !.at = "open", !.by = call[c].by,
                                       !.text = texts + 1, !.to = call[c].m]]
  /\ next' = next + 1 /\ texts' = texts + 1
  /\ call' = [call EXCEPT ![c].op = "insert", ![c].m = next]
  /\ UNCHANGED <<room, reactions, seen, acts, moved, view, history>>

OnPage == ToSet(view.list)
FirstId == view.list[1]
LastId == IF view.list = <<>> THEN 0 ELSE Last(view.list)
InOrder(ids) ==
  CHOOSE s \in [1..Cardinality(ids) -> ids] : \A i, j \in DOMAIN s : i < j => s[i] < s[j]
Passed(ids) == IF ids = {} THEN {}
               ELSE {m \in (LastId + 1)..Max(ids) : m \notin ids /\ msgs[m].at # "void"}

\* The commit, with last_message_time; the page a message was sent from appends
\* the answer.
Commit(c) ==
  LET m == call[c].m  mine == call[c].by = Reader IN
  /\ call[c].op = "insert" /\ Answer(c)
  /\ msgs' = [msgs EXCEPT ![m].at = "SENT"]
  /\ room' = [room EXCEPT !.last = m]
  /\ view' = [view EXCEPT !.list = IF mine THEN Append(@, m) ELSE @]
  /\ skipped' = skipped \cup IF mine THEN Passed({m})
                             ELSE IF m < LastId THEN {m} ELSE {}
  /\ UNCHANGED <<next, reactions, seen, texts, acts, moved, copied, late, overtaken, crossed>>

\* Mutant of MayEdit: a withdrawn message can be edited.
MayEditAny(m) == m \in Shown /\ ~Frozen

\* The sender's, not in a moved room, not withdrawn.
MayEdit(m) == m \in Shown /\ ~Frozen /\ msgs[m].at # "DELETED"

UpdateMessage(c, m) ==
  /\ MayEdit(m)
  /\ Begin(c, [NoCall EXCEPT !.op = "edit", !.by = msgs[m].by, !.m = m, !.text = msgs[m].text,
                               !.found = msgs[m].gone])

\* UpdateMessageContent: the text the request read goes to the history.
WriteEdit(c) ==
  LET m == call[c].m IN
  /\ call[c].op = "edit" /\ Answer(c)
  /\ msgs' = [msgs EXCEPT ![m].at = "EDITED", ![m].text = texts + 1,
                          ![m].trail = Append(@, call[c].text)]
  /\ texts' = texts + 1
  /\ overtaken' = overtaken \cup (IF msgs[m].gone /\ ~call[c].found THEN {m} ELSE {})
  /\ crossed' = crossed \cup (IF msgs[m].text # call[c].text THEN {m} ELSE {})
  /\ UNCHANGED <<room, next, reactions, seen, acts, moved, view, copied, late, skipped>>

MayWithdraw(u, m) == m \in Shown /\ ~Frozen /\ (u = msgs[m].by \/ u \in Moderators)

DeleteMessage(c, u, m) ==
  /\ MayWithdraw(u, m)
  /\ Begin(c, [NoCall EXCEPT !.op = "delete", !.by = u, !.m = m])

SoftDelete(c) ==
  LET m == call[c].m IN
  /\ call[c].op = "delete" /\ Answer(c)
  /\ msgs' = [msgs EXCEPT ![m].at = "DELETED", ![m].gone = TRUE]
  /\ UNCHANGED <<room, next, reactions, seen, texts, acts, moved, view, history>>

\* Mutant of MayReact: a moved room takes reactions.
MayReactAlways(u, m) == m \in Shown /\ u \in room.members

MayReact(u, m) == m \in Shown /\ u \in room.members /\ ~Frozen

\* What is there when it looks decides which way it goes.
ToggleReaction(c, u, m) ==
  /\ MayReact(u, m)
  /\ Begin(c, [NoCall EXCEPT !.op = "react", !.by = u, !.m = m, !.found = <<m, u>> \in reactions])

WriteReaction(c) ==
  LET r == <<call[c].m, call[c].by>> IN
  /\ call[c].op = "react" /\ Answer(c)
  /\ reactions' = IF call[c].found THEN reactions \ {r} ELSE reactions \cup {r}
  /\ UNCHANGED <<room, msgs, next, seen, texts, acts, moved, view, history>>

\* No guard of a moved room here.
MarkSeen(u, m) ==
  /\ Counted /\ u \in room.members /\ m \in Shown
  /\ seen' = seen \cup {<<m, u>>}
  /\ UNCHANGED <<room, msgs, next, reactions, texts, moved, call, view, history>>

-----------------------------------------------------------------------------
(* The page. *)

Lowest(S)  == {m \in S : Cardinality({o \in S : o < m}) < PageSize}
Highest(S) == {m \in S : Cardinality({o \in S : o > m}) < PageSize}

Look ==
  /\ Reader \in room.members
  /\ UNCHANGED <<roomVars, acts, moved, call, copied, late, overtaken, crossed>>

\* The page opens.
LoadLatest ==
  LET ids == Highest(Shown) IN
  /\ Look /\ ~Sending
  /\ view' = [list |-> InOrder(ids), more |-> Cardinality(ids) = PageSize]
  /\ skipped' = {m \in Msgs : ids # {} /\ m < Max(ids) /\ msgs[m].at = "open"}

PollNew ==
  LET ids == Lowest({m \in Shown : m > LastId}) IN
  /\ view.list # <<>> /\ Look
  /\ view' = [view EXCEPT !.list = @ \o InOrder(ids \ OnPage)]
  /\ skipped' = skipped \cup (Passed(ids) \ Shown)

LoadOlder ==
  LET ids == Highest({m \in Shown : m < FirstId}) IN
  /\ view.list # <<>> /\ view.more /\ Look
  /\ view' = [list |-> InOrder(ids \ OnPage) \o view.list, more |-> Cardinality(ids) = PageSize]
  /\ UNCHANGED skipped

-----------------------------------------------------------------------------
(* The move of private rooms. *)

\* The deploy that sets CHAT_ENABLED: what comes after it is refused.
MovePrivateChats ==
  /\ ~moved /\ moved' = TRUE
  /\ UNCHANGED <<roomVars, acts, call, view, history>>

\* A request of the process that was replaced is cut off.
Killed(c) ==
  /\ moved /\ call[c] # NoCall /\ Answer(c)
  /\ msgs' = [m \in Msgs |-> IF call[c].op = "insert" /\ call[c].m = m
                             THEN [Nothing EXCEPT !.at = "void"] ELSE msgs[m]]
  /\ UNCHANGED <<room, next, reactions, seen, texts, acts, moved, view, history>>

\* Infra's import takes the room over, again whenever it is run.
Import ==
  /\ Frozen /\ copied' = <<msgs, reactions>>
  /\ late' = {c \in Calls : call[c] # NoCall}
  /\ UNCHANGED <<roomVars, acts, moved, call, view, overtaken, crossed, skipped>>

Init ==
  /\ room \in [made : {FALSE}, type : {"PRIVATE", "GROUP"}, members : {{}}, last : {0}]
  /\ msgs = [m \in Msgs |-> Nothing] /\ next = 1 /\ reactions = {} /\ seen = {}
  /\ texts = 0 /\ acts = 0 /\ moved = FALSE /\ call = [c \in Calls |-> NoCall]
  /\ view = [list |-> <<>>, more |-> TRUE]
  /\ copied = <<>> /\ late = {} /\ overtaken = {} /\ crossed = {} /\ skipped = {}

Next ==
  \/ \E u \in Users : CreateGroup(u) \/ JoinRoomByLink(u)
  \/ \E c \in Calls :
       \/ FindOrCreatePrivateRoom(c) \/ Insert(c) \/ Commit(c) \/ WriteEdit(c)
       \/ SoftDelete(c) \/ WriteReaction(c) \/ Killed(c)
       \/ \E u \in Users : StartPrivate(c, u) \/ \E to \in {0} \cup Msgs : CreateMessage(c, u, to)
       \/ \E m \in Msgs :
            \/ UpdateMessage(c, m)
            \/ \E u \in Users : DeleteMessage(c, u, m) \/ ToggleReaction(c, u, m)
  \/ \E u \in Users, m \in Msgs : MarkSeen(u, m)
  \/ LoadLatest \/ PollNew \/ LoadOlder
  \/ MovePrivateChats \/ Import

Spec == Init /\ [][Next]_vars

-----------------------------------------------------------------------------
\* Every variable has its shape.
TypeOK ==
  /\ room.members \subseteq Users /\ room.last \in {0} \cup Msgs
  /\ \A m \in Msgs : msgs[m].at \in {"none", "open", "void", "SENT", "EDITED", "DELETED"}
  /\ \A c \in Calls : call[c].op \in Ops /\ call[c].m \in {0} \cup Msgs
  /\ reactions \subseteq Msgs \X Users /\ seen \subseteq Msgs \X Users
  /\ OnPage \subseteq Msgs /\ IsInjective(view.list)
  /\ acts \in 0..MaxActs /\ texts \in 0..MaxActs /\ next \in 1..MaxMsg + 1

\* Nothing changes the messages of a private room once NextMoe has its copy:
\* every writer checks the room it is in.  A copy taken while requests were open
\* may miss what they write; the next run of the import sweeps it up.
MovedAgrees == copied # <<>> /\ late = {} => copied = <<msgs, reactions>>

\* A withdrawn message stays withdrawn, but for an edit whose request had read
\* it before.
WithdrawnStays ==
  \A m \in Shown \ overtaken : msgs[m].gone => msgs[m].at = "DELETED"

\* The history holds every text a message had, in order, unless two edits of it
\* overlapped.
TrailWhole ==
  \A m \in Shown \ crossed :
    LET all == Append(msgs[m].trail, msgs[m].text) IN
    \A i \in 2..Len(all) : all[i - 1] < all[i]

\* The page has no gap: between its first and last message, and before the first
\* when it says there is nothing older, it shows every message but those its
\* cursor went past before they showed, or with the reader's own post.
PageWhole ==
  view.list # <<>> =>
    \A m \in Shown \ skipped :
      m <= LastId /\ (view.more => m >= FirstId) => m \in OnPage

\* The room, its history and its page keep what was written to them.
ChatKept == MovedAgrees /\ WithdrawnStays /\ TrailWhole /\ PageWhole
=============================================================================
