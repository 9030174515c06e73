----------------------------- MODULE FavoriteShelf -----------------------------
(***************************************************************************)
(* A reader's favourite on one game: the requests that move it through the *)
(* reader's catalog folders, and the cached shelf its heart is drawn from. *)
(* internal/patch/service/folder_membership.go, internal/favorite and      *)
(* internal/usercache.                                                     *)
(*                                                                         *)
(* A request asks catalog where the game is, moves it folder by folder,    *)
(* settles this site's counter on what went through and forgets the cached *)
(* shelf.  A read pins the generation it found, so that what it fills in   *)
(* late is kept where later reads do not look.                             *)
(*                                                                         *)
(* Abstractions.  One reader, one game, one process.  A cached shelf is    *)
(* the number of writes it shows; a walk shows at least those made before  *)
(* it began.  Awards are outside.  A refused call has no effect.           *)
(* History variables: floor, alone.                                        *)
(***************************************************************************)
EXTENDS Integers, FiniteSets

CONSTANTS
  Folders,   \* the folders the reader may come to have in catalog (bound)
  Requests,  \* requests of the reader that may run at once
  Reads,     \* page views of the reader that may run at once
  MaxReq     \* bound: requests made

VARIABLES
  folders,  \* external: the folders made, and the default one
  keys,     \* external: what a create was answered, by idempotency key
  holds,    \* external: the folders holding the game
  writes,   \* writes to them so far
  count,    \* patch.favorite_count, of this reader
  req,      \* what a request is at
  made,     \* requests made so far
  gens,     \* generations given out so far
  gen,      \* the one in Redis, 0 when it has expired
  slot,     \* the shelf kept under a generation
  flight,   \* the fill running under a generation
  read,     \* what a view is at
  floor,    \* the writes made when a request last forgot the shelf
  alone     \* no two requests overlapped, and none died

catalog == <<folders, keys, holds, writes>>
cache == <<gens, gen, slot, flight, read>>
vars == <<catalog, count, req, made, cache, floor, alone>>

None == 0
Absent == -1
Gens == 0..MaxReq
NoReq == [at |-> "idle", held |-> {}, want |-> {}, was |-> FALSE, seen |-> {}]
NoRead == [at |-> "idle", gen |-> 0, shows |-> 0, needs |-> 0]

-----------------------------------------------------------------------------
(* The requests. *)

Enter(c, step, want) ==
  /\ req[c] = NoReq /\ made < MaxReq /\ made' = made + 1
  /\ req' = [req EXCEPT ![c] = [NoReq EXCEPT !.at = step, !.want = want]]
  /\ alone' = (alone /\ \A o \in Requests : req[o] = NoReq)
  /\ UNCHANGED <<catalog, count, cache, floor>>

Toggle(c) == Enter(c, "toggle", {})

\* SetPatchFolders; targets that are not the reader's own end it.
SetPatchFolders(c, targets) ==
  targets \subseteq folders.made /\ Enter(c, "set", targets)

Go(c, r) ==
  /\ req' = [req EXCEPT ![c] = r]
  /\ UNCHANGED <<count, made, cache, floor, alone>>

\* MyFoldersHolding.  A toggle takes the game out of all of them, or into the
\* default one.
ReadHolding(c) ==
  /\ req[c].at \in {"toggle", "set"}
  /\ Go(c, [req[c] EXCEPT !.held = holds, !.was = holds # {},
              !.at = IF req[c].at = "toggle" /\ holds = {} THEN "folders" ELSE "move"])
  /\ UNCHANGED catalog

\* defaultFolderID.
FindDefault(c) ==
  /\ req[c].at = "folders"
  /\ Go(c, IF folders.default # None
           THEN [req[c] EXCEPT !.at = "move", !.want = {folders.default}]
           ELSE [req[c] EXCEPT !.at = "create", !.seen = folders.made])
  /\ UNCHANGED catalog

\* The key names the shelf the heart saw; catalog answers a key it knows again.
NewFolder == CHOOSE f \in Folders \ folders.made : \A g \in Folders \ folders.made : f <= g
CreateDefault(c) ==
  LET key == req[c].seen
      f == IF key \in DOMAIN keys THEN keys[key] ELSE NewFolder
  IN
  /\ req[c].at = "create" /\ (key \in DOMAIN keys \/ folders.made # Folders)
  /\ IF key \in DOMAIN keys THEN UNCHANGED <<folders, keys>>
     ELSE /\ folders' = [made |-> folders.made \cup {f}, default |-> f]
          /\ keys' = [k \in DOMAIN keys \cup {key} |-> IF k = key THEN f ELSE keys[k]]
  /\ Go(c, [req[c] EXCEPT !.at = "move", !.want = {f}])
  /\ UNCHANGED <<holds, writes>>

\* moveFolderItems: into what is wanted, then out of the rest.
PutItem(c, f) ==
  /\ req[c].at = "move" /\ f \in req[c].want \ req[c].held
  /\ holds' = holds \cup {f} /\ writes' = writes + 1
  /\ Go(c, [req[c] EXCEPT !.held = @ \cup {f}])
  /\ UNCHANGED <<folders, keys>>

DeleteItem(c, f) ==
  /\ req[c].at = "move" /\ req[c].want \subseteq req[c].held /\ f \in req[c].held \ req[c].want
  /\ holds' = holds \ {f} /\ writes' = writes + 1
  /\ Go(c, [req[c] EXCEPT !.held = @ \ {f}])
  /\ UNCHANGED <<folders, keys>>

\* Catalog refuses a call: what went through before it is settled.
Refuse(c) ==
  /\ req[c].at \notin {"idle", "settle", "forget"}
  /\ Go(c, [req[c] EXCEPT !.at = IF @ = "move" THEN "settle" ELSE "forget"])
  /\ UNCHANGED catalog

Moved(c) ==
  /\ req[c].at = "move" /\ req[c].held = req[c].want
  /\ Go(c, [req[c] EXCEPT !.at = "settle"])
  /\ UNCHANGED catalog

Delta(r) == CASE ~r.was /\ r.held # {} -> 1 [] r.was /\ r.held = {} -> -1 [] OTHER -> 0

Settle(c) ==
  /\ req[c].at = "settle"
  /\ count' = IF count + Delta(req[c]) < 0 THEN 0 ELSE count + Delta(req[c])
  /\ req' = [req EXCEPT ![c].at = "forget"]
  /\ UNCHANGED <<catalog, made, cache, floor, alone>>

\* The deferred Forget, which may fail.
Forget(c, lost) ==
  /\ req[c].at = "forget"
  /\ IF lost THEN UNCHANGED <<gens, gen, floor>>
     ELSE gens' = gens + 1 /\ gen' = gens + 1 /\ floor' = writes
  /\ req' = [req EXCEPT ![c] = NoReq]
  /\ UNCHANGED <<catalog, count, made, slot, flight, read, alone>>

Die(c) ==
  /\ req[c] # NoReq
  /\ req' = [req EXCEPT ![c] = NoReq] /\ alone' = FALSE
  /\ UNCHANGED <<catalog, count, made, cache, floor>>

-----------------------------------------------------------------------------
(* Views of the shelf. *)

\* Mutant of Open: the slot does not name the generation.
OpenUnpinned(r) ==
  /\ read[r] = NoRead
  /\ read' = [read EXCEPT ![r] = [at |-> "peek", gen |-> 0, shows |-> 0, needs |-> floor]]
  /\ UNCHANGED <<catalog, count, req, made, gens, gen, slot, flight, floor, alone>>

\* Slot: pinned to the generation found.
Open(r) ==
  /\ read[r] = NoRead
  /\ read' = [read EXCEPT ![r] = [at |-> "peek", gen |-> gen, shows |-> 0, needs |-> floor]]
  /\ UNCHANGED <<catalog, count, req, made, gens, gen, slot, flight, floor, alone>>

Peek(r) ==
  LET kept == slot[read[r].gen] IN
  /\ read[r].at = "peek"
  /\ read' = [read EXCEPT ![r] = IF kept = Absent THEN [@ EXCEPT !.at = "fetch"]
                                 ELSE [@ EXCEPT !.at = "shown", !.shows = kept]]
  /\ UNCHANGED <<catalog, count, req, made, gens, gen, slot, flight, floor, alone>>

\* The first asker of a slot fills it, the others get its answer.
Fetch(r) ==
  LET g == read[r].gen IN
  /\ read[r].at = "fetch"
  /\ IF flight[g] = Absent
     THEN /\ flight' = [flight EXCEPT ![g] = writes]
          /\ read' = [read EXCEPT ![r].at = "fill", ![r].shows = writes]
     ELSE /\ read' = [read EXCEPT ![r].at = "shown", ![r].shows = flight[g]]
          /\ UNCHANGED flight
  /\ UNCHANGED <<catalog, count, req, made, gens, gen, slot, floor, alone>>

Filled(r, failed) ==
  LET g == read[r].gen IN
  /\ read[r].at = "fill"
  /\ slot' = IF failed THEN slot ELSE [slot EXCEPT ![g] = read[r].shows]
  /\ flight' = [flight EXCEPT ![g] = Absent]
  /\ read' = [read EXCEPT ![r] = IF failed THEN NoRead ELSE [@ EXCEPT !.at = "shown"]]
  /\ UNCHANGED <<catalog, count, req, made, gens, gen, floor, alone>>

\* A list needs every item where a heart was content with less: walked again
\* outside the flight and kept in the same slot.
WalkAll(r) ==
  /\ read[r].at = "shown"
  /\ read' = [read EXCEPT ![r].at = "walk", ![r].shows = writes]
  /\ UNCHANGED <<catalog, count, req, made, gens, gen, slot, flight, floor, alone>>

StoreWalk(r) ==
  /\ read[r].at = "walk"
  /\ slot' = [slot EXCEPT ![read[r].gen] = read[r].shows]
  /\ read' = [read EXCEPT ![r].at = "shown"]
  /\ UNCHANGED <<catalog, count, req, made, gens, gen, flight, floor, alone>>

Close(r) ==
  /\ read[r].at = "shown" /\ read' = [read EXCEPT ![r] = NoRead]
  /\ UNCHANGED <<catalog, count, req, made, gens, gen, slot, flight, floor, alone>>

\* shelfTTL.
Expire(g) ==
  /\ slot[g] # Absent /\ slot' = [slot EXCEPT ![g] = Absent]
  /\ UNCHANGED <<catalog, count, req, made, gens, gen, flight, read, floor, alone>>

\* genTTL outlives every answer under any generation.
GenExpires ==
  /\ gen # 0 /\ gen' = 0
  /\ \A g \in Gens : slot[g] = Absent
  /\ \A r \in Reads : read[r].at \in {"idle", "shown"}
  /\ UNCHANGED <<catalog, count, req, made, gens, slot, flight, read, floor, alone>>

-----------------------------------------------------------------------------
Init ==
  /\ folders \in {[made |-> {}, default |-> None]}
                 \cup {[made |-> {f}, default |-> f] : f \in {g \in Folders : \A h \in Folders : g <= h}}
  /\ keys = [k \in {} |-> None] /\ holds = {} /\ writes = 0 /\ count = 0
  /\ req = [c \in Requests |-> NoReq] /\ made = 0
  /\ gens = 0 /\ gen = 0 /\ slot = [g \in Gens |-> Absent] /\ flight = [g \in Gens |-> Absent]
  /\ read = [r \in Reads |-> NoRead] /\ floor = 0 /\ alone = TRUE

Next ==
  \/ GenExpires
  \/ \E g \in Gens : Expire(g)
  \/ \E c \in Requests :
       \/ Toggle(c) \/ ReadHolding(c) \/ FindDefault(c) \/ CreateDefault(c)
       \/ Refuse(c) \/ Moved(c) \/ Settle(c) \/ Die(c)
       \/ \E lost \in BOOLEAN : Forget(c, lost)
       \/ \E f \in Folders : PutItem(c, f) \/ DeleteItem(c, f)
       \/ \E targets \in SUBSET Folders : SetPatchFolders(c, targets)
  \/ \E r \in Reads :
       \/ Open(r) \/ Peek(r) \/ Fetch(r) \/ WalkAll(r) \/ StoreWalk(r) \/ Close(r)
       \/ \E failed \in BOOLEAN : Filled(r, failed)

Spec == Init /\ [][Next]_vars

-----------------------------------------------------------------------------
TypeOK ==
  /\ folders.made \subseteq Folders /\ folders.default \in folders.made \cup {None}
  /\ holds \subseteq folders.made /\ writes \in Nat /\ count \in Nat
  /\ \A c \in Requests : req[c].held \subseteq Folders /\ req[c].want \subseteq Folders
  /\ made \in 0..MaxReq /\ gens \in Gens /\ gen \in 0..gens
  /\ slot \in [Gens -> Nat \cup {Absent}] /\ flight \in [Gens -> Nat \cup {Absent}]
  /\ \A r \in Reads : read[r].gen \in Gens /\ read[r].shows \in Nat

\* A view that begins after a request of the reader has ended shows what that
\* request wrote, whatever fills were under way; and where no two requests
\* overlapped and none died, the counter ends on whether the game is held, also
\* after refusals half way.
ShelfFollows ==
  /\ \A r \in Reads : read[r].at = "shown" => read[r].shows >= read[r].needs
  /\ alone /\ (\A c \in Requests : req[c] = NoReq) => count = (IF holds = {} THEN 0 ELSE 1)
=============================================================================
