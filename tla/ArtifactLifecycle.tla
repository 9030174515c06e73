-------------------------- MODULE ArtifactLifecycle --------------------------
(***************************************************************************)
(* The files of one hosted resource: internal/normalize, internal/repack   *)
(* and the edits and deletes of internal/patch/service.                    *)
(*                                                                         *)
(* A reader uploads a file; letmoe's forge claims it, rebuilds it as a     *)
(* passwordless zip and swaps the zip in; the original is deleted 30 days  *)
(* later by the purge loop.  Beside the file a resource may carry a        *)
(* repack, which a swap may promote to be the file.  Edits replace the     *)
(* file and delete the old one by the uuid they read before their          *)
(* transaction.                                                            *)
(*                                                                         *)
(* Abstractions.  An artifact is its uuid and whether the artifact service *)
(* holds it.  Names, sizes, passwords, comments and daily caps are left    *)
(* out; so is visibility, which only keeps the forge from asking.  An edit *)
(* changes at least one field, so its revision row fails with the resource *)
(* gone.  A lease may run out at any time, and a file whose lease has may  *)
(* be leased again or given up: leases and attempts are not in the state.  *)
(* History variable: stale.                                                *)
(***************************************************************************)
EXTENDS Naturals, FiniteSets

CONSTANTS
  Artifacts,    \* uuids (bound: when they run out nothing is uploaded)
  NoFile,       \* artifact_uuid = ''
  Editors,      \* PUT and DELETE requests on the resource in flight
  Workers,      \* forge workers
  PurgeBatch,   \* purgeBatch
  Hit           \* the windows a behaviour may hit (bound)

\* "edit": an edit was saved over a file other than the one it had read.
\* "purge": a revert made a file of what a running purge was to delete.
\* "product": an artifact was deleted between the check and the transaction of a
\* request that installs it.
Windows == {"edit", "purge", "product"}

ASSUME ArtifactAssumption ==
  /\ NoFile \notin Artifacts
  /\ PurgeBatch \in Nat \ {0}
  /\ Hit \subseteq Windows

VARIABLES
  res,      \* the patch_resource row: here, its artifact_uuid
  store,    \* external: what the artifact service holds
  repack,   \* patch_resource_repack
  job,      \* patch_resource_normalize, by source
  purge,    \* patch_resource_repack_purge: queued for later, or due
  ed,       \* UpdateResource and DeleteResource
  wk,       \* a forge worker and its request to this site
  pg,       \* one run of Purge
  stale     \* history: which of the windows below were hit

vars == <<res, store, repack, job, purge, ed, wk, pg, stale>>

NoRepack == [file |-> NoFile, source |-> NoFile]
NoJob    == [state |-> "none", product |-> NoFile]
NoEdit   == [pc |-> "idle", op |-> "keep", seen |-> NoFile, new |-> NoFile]
NoWork   == [pc |-> "idle", lane |-> "normalize", src |-> NoFile, out |-> NoFile]
NoPurge  == [pc |-> "idle", batch |-> {}, last |-> NoFile]

Fresh == {a \in Artifacts : store[a] = "absent"}

\* A step hits the windows K.
Hits(K) == K \subseteq Hit /\ stale' = stale \cup K

DeletedLate(a) ==
  IF \E w \in Workers : wk[w].pc = "checked" /\ wk[w].out = a THEN {"product"} ELSE {}

-----------------------------------------------------------------------------
(* The triggers of 047 and 050 *)

\* Mutant of Dropped: 047 before 050, which queued a promoted repack too.
DroppedAlways(f) == IF f = res.file THEN {} ELSE {repack.file} \ {NoFile}
\* A new file drops the repack, whose artifact is queued unless it is the file.
Dropped(f) == IF f = res.file THEN {} ELSE {repack.file} \ {NoFile, f}

\* ON CONFLICT DO NOTHING.
Queue(K) == [a \in Artifacts |-> IF a \in K /\ purge[a] = "no" THEN "due" ELSE purge[a]]

WithFile(f) == /\ res' = [res EXCEPT !.file = f]
               /\ repack' = IF f = res.file THEN repack ELSE NoRepack

-----------------------------------------------------------------------------
(* UpdateResource and DeleteResource *)

\* The row is read; the form has uploaded its new file by now.
ReadResource(e) ==
  /\ ed[e].pc = "idle" /\ res.here
  /\ \E op \in {"keep", "new", "link", "delete"} :
       \E f \in IF op = "new" THEN Fresh ELSE IF op = "keep" THEN {res.file} ELSE {NoFile} :
         /\ op = "keep" \/ op = "delete" \/ f # res.file
         /\ ed' = [ed EXCEPT ![e] = [pc |-> "read", op |-> op, seen |-> res.file, new |-> f]]
         /\ store' = [a \in Artifacts |-> IF op = "new" /\ a = f THEN "ready" ELSE store[a]]
  /\ UNCHANGED <<res, repack, job, purge, wk, pg, stale>>

\* What is left to delete of the file that was read.
Leave(e) ==
  ed' = [ed EXCEPT ![e] = IF ed[e].seen # NoFile /\ ed[e].new # ed[e].seen
                          THEN [NoEdit EXCEPT !.pc = "orphan", !.seen = ed[e].seen]
                          ELSE NoEdit]

Overwrites(e) == IF ed[e].seen # res.file THEN {"edit"} ELSE {}

\* tx.Save writes every column of the row that was read.  A changed password
\* frees a file that failed for its password.
SaveResource(e) ==
  /\ ed[e].pc = "read" /\ ed[e].op # "delete" /\ res.here
  /\ WithFile(ed[e].new)
  /\ purge' = Queue(Dropped(ed[e].new))
  /\ Hits(Overwrites(e))
  /\ \/ UNCHANGED job
     \/ /\ ed[e].op = "keep" /\ ed[e].seen # NoFile
        /\ job[ed[e].seen].state = "locked"
        /\ job' = [job EXCEPT ![ed[e].seen] = NoJob]
  /\ Leave(e)
  /\ UNCHANGED <<store, wk, pg>>

\* The repack and the jobs go with the row (ON DELETE CASCADE).
DeleteResource(e) ==
  /\ ed[e].pc = "read" /\ ed[e].op = "delete" /\ res.here
  /\ res' = [res EXCEPT !.here = FALSE, !.file = NoFile]
  /\ repack' = NoRepack
  /\ job' = [a \in Artifacts |-> NoJob]
  /\ purge' = Queue({repack.file} \ {NoFile})
  /\ Hits(Overwrites(e))
  /\ Leave(e)
  /\ UNCHANGED <<store, wk, pg>>

\* The transaction fails: the resource is gone, or the database is.
EditFails(e) ==
  /\ ed[e].pc = "read"
  /\ ed' = [ed EXCEPT ![e] = NoEdit]
  /\ UNCHANGED <<res, store, repack, job, purge, wk, pg, stale>>

\* art.Delete after the commit; an error is only logged.
DeleteOrphan(e) ==
  /\ ed[e].pc = "orphan"
  /\ \/ /\ store' = [store EXCEPT ![ed[e].seen] = "deleted"]
        /\ Hits(DeletedLate(ed[e].seen))
     \/ UNCHANGED <<store, stale>>
  /\ ed' = [ed EXCEPT ![e] = NoEdit]
  /\ UNCHANGED <<res, repack, job, purge, wk, pg>>

-----------------------------------------------------------------------------
(* Claim and Fail *)

Work(w, pc) == wk' = [wk EXCEPT ![w].pc = pc]

Products == {job[a].product : a \in Artifacts} \ {NoFile}

\* As any lease may be.
Expired(a) == job[a].state = "claimed"

\* Mutant of Pending: the products are offered again.
PendingAny == /\ res.here /\ res.file # NoFile
              /\ job[res.file].state = "none" \/ Expired(res.file)
Pending == /\ res.here /\ res.file # NoFile
           /\ job[res.file].state = "none" \/ Expired(res.file)
           /\ res.file \notin Products

\* One transaction under the advisory lock: leases that ran out too often are
\* given up, and the file is leased.  A promotion carries the repack.
Claim(w) ==
  /\ wk[w].pc = "idle"
  /\ \E G \in SUBSET {a \in Artifacts : Expired(a)} :
       LET leased == IF Pending THEN {res.file} \ G ELSE {} IN
         /\ G \cup leased # {}
         /\ job' = [a \in Artifacts |->
              IF a \in G THEN [NoJob EXCEPT !.state = "failed"]
              ELSE IF a \in leased THEN [NoJob EXCEPT !.state = "claimed"]
              ELSE job[a]]
         /\ wk' = IF leased = {} THEN wk
                  ELSE [wk EXCEPT ![w] = [pc |-> "building", lane |-> "normalize",
                                          src |-> res.file, out |-> repack.file]]
  /\ UNCHANGED <<res, store, repack, purge, ed, pg, stale>>

\* Mutant of MayFail: a late report fails a job that is done.
MayFailAny(a) == job[a].state # "none"
MayFail(a) == job[a].state \notin {"none", "done"}

\* markFailed
MarkFailed(a, state) ==
  job' = IF MayFail(a)
         THEN [job EXCEPT ![a].state = state]
         ELSE job

\* describe, before the forge learns of the lease: the artifact service misses
\* the file, and the job fails; or it does not answer, and the lease is released.
Describe(w) ==
  /\ wk[w].pc = "building" /\ wk[w].lane = "normalize"
  /\ \/ store[wk[w].src] # "ready" /\ MarkFailed(wk[w].src, "failed")
     \/ UNCHANGED job
  /\ wk' = [wk EXCEPT ![w] = NoWork]
  /\ UNCHANGED <<res, store, repack, purge, ed, pg, stale>>

\* Fail: terminal for the file, or "locked" when only its password is wrong.
Fail(w) ==
  /\ wk[w].pc = "building" /\ wk[w].lane = "normalize"
  /\ \E state \in {"failed", "locked"} : MarkFailed(wk[w].src, state)
  /\ wk' = [wk EXCEPT ![w] = NoWork]
  /\ UNCHANGED <<res, store, repack, purge, ed, pg, stale>>

-----------------------------------------------------------------------------
(* Complete *)

\* The product: the repack the claim carried, or a zip uploaded now.
Build(w) ==
  /\ wk[w].pc = "building"
  /\ IF wk[w].out # NoFile
     THEN Work(w, "built") /\ UNCHANGED store
     ELSE \E z \in Fresh :
            /\ wk' = [wk EXCEPT ![w].pc = "built", ![w].out = z]
            /\ store' = [store EXCEPT ![z] = "ready"]
  /\ UNCHANGED <<res, repack, job, purge, ed, pg, stale>>

\* Before the transaction: a job that is done answers at once, whatever it is
\* asked to install; otherwise the product must be stored.
CheckComplete(w) ==
  /\ wk[w].pc = "built" /\ wk[w].lane = "normalize"
  /\ Work(w, IF job[wk[w].src].state = "done" \/ store[wk[w].out] # "ready"
             THEN "done" ELSE "checked")
  /\ UNCHANGED <<res, store, repack, job, purge, ed, pg, stale>>

SourceChanged(w) == res.file # wk[w].src

\* Mutant of Taken: a product being deleted is taken for a free one.
TakenInUse(a) == a = res.file \/ a \in Products
Taken(a) == a = res.file \/ purge[a] # "no" \/ a \in Products

\* Mutant of Swapped: its columns are mixed up.
SwappedRound(src, out) == [job EXCEPT ![src].state = out, ![src].product = src]
\* The job row is written whether or not the worker still holds the lease.
Swapped(src, out) ==
  [job EXCEPT ![src].state = "done", ![src].product = out]

\* Mutant of Retired: the original is left alone.
RetiredNever(src, q) == q
\* The original is queued for 30 days from now.
Retired(src, q) == [q EXCEPT ![src] = IF @ = "no" THEN "later" ELSE @]

\* The row is locked FOR UPDATE, then the swap; or the product is to be
\* discarded, or refused.
Complete(w) ==
  /\ wk[w].pc = "checked" /\ wk[w].lane = "normalize"
  /\ IF SourceChanged(w) \/ Taken(wk[w].out)
     THEN /\ Work(w, IF SourceChanged(w) THEN "discard" ELSE "done")
          /\ UNCHANGED <<res, repack, job, purge>>
     ELSE LET out == wk[w].out IN
          /\ WithFile(out)
          /\ job' = Swapped(wk[w].src, out)
          /\ purge' = Retired(wk[w].src, Queue(Dropped(out)))
          /\ Work(w, "done")
  /\ UNCHANGED <<store, ed, pg, stale>>

\* A replay of a complete that succeeded gets here with a source that has changed.
Unheld(a) == a # res.file /\ a # repack.file

\* A statement of its own, after the transaction rolled back; its error is only
\* logged.
Discard(w) ==
  /\ wk[w].pc = "discard"
  /\ \/ /\ Unheld(wk[w].out)
        /\ purge' = Queue({wk[w].out})
     \/ UNCHANGED purge
  /\ Work(w, "done")
  /\ UNCHANGED <<res, store, repack, job, ed, pg, stale>>

\* The answer is lost or the process dies: the forge sends the request again.
SendAgain(w) ==
  /\ wk[w].pc \in {"checked", "discard", "done"}
  /\ Work(w, "built")
  /\ UNCHANGED <<res, store, repack, job, purge, ed, pg, stale>>

Answered(w) ==
  /\ wk[w].pc = "done"
  /\ wk' = [wk EXCEPT ![w] = NoWork]
  /\ UNCHANGED <<res, store, repack, job, purge, ed, pg, stale>>

-----------------------------------------------------------------------------
(* Attach and Withdraw *)

StartRepack(w) ==
  /\ wk[w].pc = "idle" /\ res.here /\ res.file # NoFile
  /\ wk' = [wk EXCEPT ![w] = [pc |-> "building", lane |-> "repack",
                              src |-> res.file, out |-> NoFile]]
  /\ UNCHANGED <<res, store, repack, job, purge, ed, pg, stale>>

CheckAttach(w) ==
  /\ wk[w].pc = "built" /\ wk[w].lane = "repack"
  /\ Work(w, IF store[wk[w].out] = "ready" THEN "checked" ELSE "done")
  /\ UNCHANGED <<res, store, repack, job, purge, ed, pg, stale>>

\* Mutant of Attachable: the source is not compared.
AttachableAnyway(w) ==
  /\ res.here /\ res.file # NoFile
  /\ res.file \notin Products
  /\ wk[w].out # repack.file /\ wk[w].out # res.file /\ purge[wk[w].out] = "no"
Attachable(w) ==
  /\ res.here /\ res.file # NoFile
  /\ ~SourceChanged(w)
  /\ res.file \notin Products
  /\ wk[w].out # repack.file /\ wk[w].out # res.file /\ purge[wk[w].out] = "no"

\* The upsert supersedes the repack there is.
Attach(w) ==
  /\ wk[w].pc = "checked" /\ wk[w].lane = "repack"
  /\ IF Attachable(w)
     THEN /\ repack' = [file |-> wk[w].out, source |-> wk[w].src]
          /\ purge' = Queue({repack.file} \ {NoFile, res.file})
     ELSE UNCHANGED <<repack, purge>>
  /\ Work(w, "done")
  /\ UNCHANGED <<res, store, job, ed, pg, stale>>

Withdraw ==
  /\ repack # NoRepack
  /\ repack' = NoRepack
  /\ purge' = Queue({repack.file} \ {res.file})
  /\ UNCHANGED <<res, store, job, ed, wk, pg, stale>>

-----------------------------------------------------------------------------
(* Purge *)

\* 30 days pass, which is longer than any request or purge.
FallsDue(a) ==
  /\ purge[a] = "later"
  /\ pg.pc = "idle"
  /\ \A e \in Editors : ed[e].pc = "idle"
  /\ \A w \in Workers : wk[w].pc \notin {"checked", "discard"}
  /\ purge' = [purge EXCEPT ![a] = "due"]
  /\ UNCHANGED <<res, store, repack, job, ed, wk, pg, stale>>

\* Mutant of Reinstated: nothing is taken off the queue.
ReinstatedNone == {}
Reinstated == {res.file}

\* The rows whose artifact is a file again go first.
PurgeClean ==
  /\ pg.pc = "idle"
  /\ \E a \in Artifacts : purge[a] = "due" \/ (purge[a] = "later" /\ a \in Reinstated)
  /\ purge' = [a \in Artifacts |-> IF a \in Reinstated THEN "no" ELSE purge[a]]
  /\ pg' = [pg EXCEPT !.pc = "clean"]
  /\ UNCHANGED <<res, store, repack, job, ed, wk, stale>>

PurgeSelect ==
  /\ pg.pc = "clean"
  /\ LET due == {a \in Artifacts : purge[a] = "due"} IN
       \E B \in SUBSET due :
         /\ B = due \/ Cardinality(B) = PurgeBatch
         /\ Cardinality(B) <= PurgeBatch
         /\ pg' = [pg EXCEPT !.pc = "batch", !.batch = B]
  /\ UNCHANGED <<res, store, repack, job, purge, ed, wk, stale>>

\* One artifact of the batch; when the service does not answer, its row waits.
PurgeDelete(a) ==
  /\ pg.pc = "batch" /\ a \in pg.batch
  /\ \/ /\ store' = [store EXCEPT ![a] = "deleted"]
        /\ Hits(DeletedLate(a))
        /\ pg' = [pg EXCEPT !.pc = "drop", !.batch = @ \ {a}, !.last = a]
     \/ /\ pg' = [pg EXCEPT !.batch = @ \ {a}]
        /\ UNCHANGED <<store, stale>>
  /\ UNCHANGED <<res, repack, job, purge, ed, wk>>

PurgeDrop ==
  /\ pg.pc = "drop"
  /\ purge' = [purge EXCEPT ![pg.last] = "no"]
  /\ pg' = [pg EXCEPT !.pc = "batch", !.last = NoFile]
  /\ UNCHANGED <<res, store, repack, job, ed, wk, stale>>

\* The batch is through, an error ends the run, or the process dies.
PurgeEnds ==
  /\ pg.pc # "idle"
  /\ pg' = NoPurge
  /\ UNCHANGED <<res, store, repack, job, purge, ed, wk, stale>>

-----------------------------------------------------------------------------
(* An operator's revert, as docs/specs/2026-09-15-bot-submit-lane.md has it *)

Revert(a) ==
  /\ job[a].state = "done" /\ res.here /\ res.file = job[a].product
  /\ store[a] = "ready"
  /\ WithFile(a)
  /\ job' = [job EXCEPT ![a].state = "failed"]
  /\ purge' = Queue((Dropped(a) \cup {res.file}) \ {a})
  /\ Hits(IF pg.pc # "idle" /\ purge[a] # "no" THEN {"purge"} ELSE {})
  /\ UNCHANGED <<store, ed, wk, pg>>

Init ==
  /\ \E a \in Artifacts :
       /\ res = [here |-> TRUE, file |-> a]
       /\ store = [b \in Artifacts |-> IF b = a THEN "ready" ELSE "absent"]
  /\ repack = NoRepack
  /\ job = [a \in Artifacts |-> NoJob]
  /\ purge = [a \in Artifacts |-> "no"]
  /\ ed = [e \in Editors |-> NoEdit]
  /\ wk = [w \in Workers |-> NoWork]
  /\ pg = NoPurge
  /\ stale = {}

Edit(e) == \/ ReadResource(e) \/ SaveResource(e) \/ DeleteResource(e) \/ EditFails(e)
           \/ DeleteOrphan(e)
Forge(w) == \/ Claim(w) \/ Describe(w) \/ Fail(w) \/ Build(w) \/ CheckComplete(w)
            \/ Complete(w) \/ Discard(w) \/ SendAgain(w) \/ Answered(w)
            \/ StartRepack(w) \/ CheckAttach(w) \/ Attach(w)
Purge == PurgeClean \/ PurgeSelect \/ PurgeDrop \/ PurgeEnds

Next == \/ \E e \in Editors : Edit(e)
        \/ \E w \in Workers : Forge(w)
        \/ \E a \in Artifacts : FallsDue(a) \/ PurgeDelete(a) \/ Revert(a)
        \/ Purge \/ Withdraw

Spec == Init /\ [][Next]_vars

-----------------------------------------------------------------------------
(* Properties *)

\* An artifact that was stored at some time, or none.
Known == (Artifacts \ Fresh) \cup {NoFile}

\* The shape of the state; nothing names an artifact that was never there.
TypeOK ==
  /\ res \in [here : BOOLEAN, file : Known]
  /\ store \in [Artifacts -> {"absent", "ready", "deleted"}]
  /\ repack \in [file : Known, source : Known]
  /\ job \in [Artifacts -> [state : {"none", "claimed", "done", "failed", "locked"},
                            product : Known]]
  /\ purge \in [Artifacts -> {"no", "later", "due"}]
  /\ ed \in [Editors -> [pc : {"idle", "read", "orphan"}, op : {"keep", "new", "link", "delete"},
                         seen : Known, new : Known]]
  /\ wk \in [Workers -> [pc : {"idle", "building", "built", "checked", "discard", "done"},
                         lane : {"normalize", "repack"}, src : Known, out : Known]]
  /\ pg \in [pc : {"idle", "clean", "batch", "drop"}, batch : SUBSET Artifacts, last : Known]
  /\ stale \subseteq Windows

\* What readers are offered is there.  Deletions come from three sides: edits,
\* the purge loop and its queue, which swaps, discards and repacks fill.  None of
\* them takes the current file or the current repack away, unless one of the
\* three windows was hit.
OfferedIsStored ==
  stale = {} => /\ res.file # NoFile => store[res.file] = "ready"
                /\ repack.file # NoFile => store[repack.file] = "ready"

\* A repack is of the file the resource has now: whatever replaces, swaps, links,
\* deletes or reverts the file takes the repack along, even when it was attached
\* by a request that began before.
RepackFollowsFile == repack # NoRepack => res.here /\ repack.source = res.file

\* No product of the forge goes through the forge again, and the author's original
\* of a done job is not forgotten: it is deleted or waits in the queue, unless one
\* of the three windows was hit.
OriginalIsRetired ==
  stale = {} =>
    \A a \in Artifacts :
      /\ job[a].state # "none" => a \notin Products
      /\ job[a].state = "done" => store[a] = "deleted" \/ purge[a] # "no"

\* The record of a swap is final: late reports, lapsed leases, repeated and
\* concurrent completes leave it alone, until the operator reverts it or the
\* resource goes.
DoneIsFinal ==
  [][\A a \in Artifacts :
       stale' = {} /\ job[a].state = "done" /\ res'.here
       => job'[a].product = job[a].product
          /\ (job'[a].state = "done" \/ res'.file = a)]_vars

\* "Every hosted resource's file becomes the forge's zip": a file whose job is
\* done is not what the resource offers.
DoneIsSwapped == \A a \in Artifacts : job[a].state = "done" => res.file # a
=============================================================================
