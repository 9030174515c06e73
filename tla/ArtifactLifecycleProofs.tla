----------------------- MODULE ArtifactLifecycleProofs -----------------------
(***************************************************************************)
(* Whatever windows are hit, the state of ArtifactLifecycle keeps its      *)
(* shape and a repack follows its file.  Until one is hit, what readers    *)
(* are offered is stored, originals are retired and swaps are final.       *)
(***************************************************************************)
EXTENDS ArtifactLifecycle, TLAPS

Jobs(K)    == [state : {"none", "claimed", "done", "failed", "locked"}, product : K]
Edits(K)   == [pc : {"idle", "read", "orphan"}, op : {"keep", "new", "link", "delete"},
               seen : K, new : K]
Works(K)   == [pc : {"idle", "building", "built", "checked", "discard", "done"},
               lane : {"normalize", "repack"}, src : K, out : K]
Purges(K)  == [pc : {"idle", "clean", "batch", "drop"}, batch : SUBSET Artifacts, last : K]
Stores     == [Artifacts -> {"absent", "ready", "deleted"}]
Queues     == [Artifacts -> {"no", "later", "due"}]

\* TypeOK by the artifacts that may be named.
Shape(K) ==
  /\ res \in [here : BOOLEAN, file : K]
  /\ repack \in [file : K, source : K]
  /\ job \in [Artifacts -> Jobs(K)]
  /\ purge \in Queues
  /\ ed \in [Editors -> Edits(K)]
  /\ wk \in [Workers -> Works(K)]
  /\ pg \in Purges(K)
  /\ stale \subseteq Windows

LEMMA TypeIsShape ==
  ASSUME NEW K, K = Known
  PROVE  TypeOK <=> Shape(K) /\ store \in Stores
  BY DEF TypeOK, Shape, Jobs, Edits, Works, Purges, Queues, Stores

LEMMA NextTypeIsShape ==
  ASSUME NEW K, K = Known'
  PROVE  TypeOK' <=> Shape(K)' /\ store' \in Stores
  BY DEF TypeOK, Shape, Jobs, Edits, Works, Purges, Queues, Stores

LEMMA ShapeGrows ==
  ASSUME NEW K, NEW L, K \subseteq L, Shape(K)
  PROVE  Shape(L)
  <1>1. /\ Jobs(K) \subseteq Jobs(L) /\ Edits(K) \subseteq Edits(L)
        /\ Works(K) \subseteq Works(L) /\ Purges(K) \subseteq Purges(L)
    BY DEF Jobs, Edits, Works, Purges
  <1> QED
    BY <1>1 DEF Shape

LEMMA Blanks ==
  ASSUME NEW K, NoFile \in K
  PROVE  /\ NoRepack \in [file : K, source : K] /\ NoJob \in Jobs(K)
         /\ NoEdit \in Edits(K) /\ NoWork \in Works(K) /\ NoPurge \in Purges(K)
  BY DEF NoRepack, NoJob, NoEdit, NoWork, NoPurge, Jobs, Edits, Works, Purges

\* The triggers, and every statement that queues, keep the queue a table.
LEMMA QueueType == ASSUME NEW K, purge \in Queues PROVE Queue(K) \in Queues
  BY DEF Queues, Queue

LEMMA WithFileType ==
  ASSUME NEW K, NoFile \in K, Shape(K), NEW f \in K, WithFile(f)
  PROVE  /\ res' \in [here : BOOLEAN, file : K]
         /\ repack' \in [file : K, source : K]
  BY Blanks DEF WithFile, Shape

LEMMA HitsType ==
  ASSUME NEW W, stale \subseteq Windows, Hits(W)
  PROVE  stale' \subseteq Windows
  BY ArtifactAssumption DEF Hits

LEMMA InitType == Init => TypeOK
  <1> SUFFICES ASSUME Init, NEW K, K = Known PROVE Shape(K) /\ store \in Stores
    BY TypeIsShape
  <1>1. PICK a \in Artifacts :
          /\ res = [here |-> TRUE, file |-> a]
          /\ store = [b \in Artifacts |-> IF b = a THEN "ready" ELSE "absent"]
    BY DEF Init
  <1>2. a \in K /\ NoFile \in K
    BY <1>1 DEF Known, Fresh
  <1> QED
    BY <1>1, <1>2, Blanks DEF Init, Shape, Stores, Queues

-----------------------------------------------------------------------------
(* The steps that leave the store alone *)

LEMMA EditShape ==
  ASSUME NEW K, NoFile \in K, Shape(K), NEW e \in Editors,
         SaveResource(e) \/ DeleteResource(e) \/ EditFails(e)
  PROVE  Shape(K)'
  <1>1. /\ ed[e] \in Edits(K) /\ ed[e].seen \in K /\ ed[e].new \in K
        /\ res.file \in K /\ repack.file \in K
    BY DEF Shape, Edits
  <1>2. Leave(e) => ed' \in [Editors -> Edits(K)]
    <2>1. [NoEdit EXCEPT !.pc = "orphan", !.seen = ed[e].seen] \in Edits(K)
      BY <1>1 DEF NoEdit, Edits
    <2> QED
      BY <2>1, Blanks DEF Leave, Shape
  <1>a. CASE SaveResource(e)
    <2>1. job' \in [Artifacts -> Jobs(K)]
      BY <1>a, Blanks DEF SaveResource, Shape
    <2> QED
      BY <1>a, <1>1, <1>2, <2>1, WithFileType, QueueType, HitsType DEF SaveResource, Shape
  <1>b. CASE DeleteResource(e)
    <2>1. res' \in [here : BOOLEAN, file : K]
      BY <1>b DEF DeleteResource, Shape
    <2> QED
      BY <1>b, <1>2, <2>1, Blanks, QueueType, HitsType DEF DeleteResource, Shape
  <1>c. CASE EditFails(e)
    BY <1>c, Blanks DEF EditFails, Shape
  <1> QED
    BY <1>a, <1>b, <1>c

LEMMA ClaimShape ==
  ASSUME NEW K, NoFile \in K, Shape(K), NEW w \in Workers, Claim(w)
  PROVE  Shape(K)'
  <1>1. res.file \in K /\ repack.file \in K
    BY DEF Shape
  <1>2. /\ [NoJob EXCEPT !.state = "failed"] \in Jobs(K)
        /\ [NoJob EXCEPT !.state = "claimed"] \in Jobs(K)
    BY DEF NoJob, Jobs
  <1>3. [pc |-> "building", lane |-> "normalize", src |-> res.file, out |-> repack.file]
          \in Works(K)
    BY <1>1 DEF Works
  <1> QED
    BY <1>2, <1>3 DEF Claim, Shape

LEMMA MarkFailedType ==
  ASSUME NEW K, Shape(K), NEW a, NEW state \in {"failed", "locked"}, MarkFailed(a, state)
  PROVE  job' \in [Artifacts -> Jobs(K)]
  BY DEF MarkFailed, Shape, Jobs

LEMMA WorkType ==
  ASSUME NEW K, Shape(K), NEW w \in Workers,
         NEW pc \in {"idle", "building", "built", "checked", "discard", "done"}, Work(w, pc)
  PROVE  wk' \in [Workers -> Works(K)]
  BY DEF Work, Shape, Works

\* Everything a worker does but its upload.
ForgeStep(w) == \/ Claim(w) \/ Describe(w) \/ Fail(w) \/ CheckComplete(w) \/ Complete(w)
                \/ Discard(w) \/ SendAgain(w) \/ Answered(w) \/ StartRepack(w)
                \/ CheckAttach(w) \/ Attach(w)

LEMMA CompleteShape ==
  ASSUME NEW K, NoFile \in K, Shape(K), NEW w \in Workers, Complete(w)
  PROVE  Shape(K)'
  <1>1. wk[w].src \in K /\ wk[w].out \in K
    BY DEF Shape, Works
  <1>2. wk' \in [Workers -> Works(K)]
    BY WorkType DEF Complete
  <1>3. CASE SourceChanged(w) \/ Taken(wk[w].out)
    BY <1>2, <1>3 DEF Complete, Shape
  <1>4. CASE ~(SourceChanged(w) \/ Taken(wk[w].out))
    <2>1. job' \in [Artifacts -> Jobs(K)]
      BY <1>1, <1>4 DEF Complete, Swapped, Shape, Jobs
    <2>2. purge' \in Queues
      <3>1. Queue(Dropped(wk[w].out)) \in Queues
        BY QueueType DEF Shape
      <3> QED
        BY <1>4, <3>1 DEF Complete, Retired, Queues
    <2> QED
      BY <1>1, <1>2, <1>4, <2>1, <2>2, WithFileType DEF Complete, Shape
  <1> QED
    BY <1>3, <1>4

LEMMA ForgeShape ==
  ASSUME NEW K, NoFile \in K, Shape(K), NEW w \in Workers, ForgeStep(w)
  PROVE  Shape(K)'
  <1>1. /\ wk[w] \in Works(K) /\ wk[w].src \in K /\ wk[w].out \in K
        /\ res.file \in K /\ repack.file \in K
    BY DEF Shape, Works
  <1>a. CASE Claim(w)
    BY <1>a, ClaimShape
  <1>b. CASE Describe(w)
    BY <1>b, Blanks, MarkFailedType DEF Describe, Shape
  <1>c. CASE Fail(w)
    BY <1>c, Blanks, MarkFailedType DEF Fail, Shape
  <1>d. CASE CheckComplete(w)
    <2>1. wk' \in [Workers -> Works(K)]
      BY <1>d, WorkType DEF CheckComplete
    <2> QED
      BY <1>d, <2>1 DEF CheckComplete, Shape
  <1>e. CASE Complete(w)
    BY <1>e, CompleteShape
  <1>f. CASE Discard(w)
    <2>1. wk' \in [Workers -> Works(K)]
      BY <1>f, WorkType DEF Discard
    <2> QED
      BY <1>f, <2>1, QueueType DEF Discard, Shape
  <1>g. CASE SendAgain(w)
    <2>1. wk' \in [Workers -> Works(K)]
      BY <1>g, WorkType DEF SendAgain
    <2> QED
      BY <1>g, <2>1 DEF SendAgain, Shape
  <1>h. CASE Answered(w)
    BY <1>h, Blanks DEF Answered, Shape
  <1>i. CASE StartRepack(w)
    <2>1. [pc |-> "building", lane |-> "repack", src |-> res.file, out |-> NoFile] \in Works(K)
      BY <1>1 DEF Works
    <2> QED
      BY <1>i, <2>1 DEF StartRepack, Shape
  <1>j. CASE CheckAttach(w)
    <2>1. wk' \in [Workers -> Works(K)]
      BY <1>j, WorkType DEF CheckAttach
    <2> QED
      BY <1>j, <2>1 DEF CheckAttach, Shape
  <1>k. CASE Attach(w)
    <2>1. wk' \in [Workers -> Works(K)]
      BY <1>k, WorkType DEF Attach
    <2> QED
      BY <1>k, <1>1, <2>1, QueueType DEF Attach, Shape
  <1> QED
    BY <1>a, <1>b, <1>c, <1>d, <1>e, <1>f, <1>g, <1>h, <1>i, <1>j, <1>k DEF ForgeStep

LEMMA WithdrawShape ==
  ASSUME NEW K, NoFile \in K, Shape(K), Withdraw
  PROVE  Shape(K)'
  BY Blanks, QueueType DEF Withdraw, Shape

LEMMA PurgeShape ==
  ASSUME NEW K, NoFile \in K, Shape(K), Purge
  PROVE  Shape(K)'
  <1>1. /\ [pg EXCEPT !.pc = "clean"] \in Purges(K)
        /\ \A B \in SUBSET Artifacts : [pg EXCEPT !.pc = "batch", !.batch = B] \in Purges(K)
        /\ [pg EXCEPT !.pc = "batch", !.last = NoFile] \in Purges(K)
    BY DEF Shape, Purges
  <1>a. CASE PurgeClean
    BY <1>a, <1>1 DEF PurgeClean, Shape, Queues
  <1>b. CASE PurgeSelect
    <2>1. PICK B \in SUBSET Artifacts : pg' = [pg EXCEPT !.pc = "batch", !.batch = B]
      BY <1>b DEF PurgeSelect
    <2>2. pg' \in Purges(K)
      BY <1>1, <2>1
    <2> QED
      BY <1>b, <2>2 DEF PurgeSelect, Shape
  <1>c. CASE PurgeDrop
    BY <1>c, <1>1 DEF PurgeDrop, Shape, Queues
  <1>d. CASE PurgeEnds
    BY <1>d, Blanks DEF PurgeEnds, Shape
  <1> QED
    BY <1>a, <1>b, <1>c, <1>d DEF Purge

LEMMA FallsDueShape ==
  ASSUME NEW K, Shape(K), NEW a \in Artifacts, FallsDue(a)
  PROVE  Shape(K)'
  BY DEF FallsDue, Shape, Queues

LEMMA RevertShape ==
  ASSUME NEW K, NoFile \in K, Shape(K), NEW a \in Artifacts, a \in K, Revert(a)
  PROVE  Shape(K)'
  <1>1. job' \in [Artifacts -> Jobs(K)]
    BY DEF Revert, Shape, Jobs
  <1> QED
    BY <1>1, WithFileType, QueueType, HitsType DEF Revert, Shape

-----------------------------------------------------------------------------
(* The steps that change the store *)

\* What was stored once stays known: nothing becomes absent again.
LEMMA KnownGrows ==
  ASSUME \A a \in Artifacts : store'[a] = "absent" => store[a] = "absent"
  PROVE  Known \subseteq Known'
  BY DEF Known, Fresh

\* An upload is known from the step that makes it.
LEMMA UploadIsKnown ==
  ASSUME NEW f \in Artifacts, store'[f] = "ready"
  PROVE  f \in Known'
  BY DEF Known, Fresh

LEMMA ReadType ==
  ASSUME TypeOK, NEW e \in Editors, ReadResource(e)
  PROVE  TypeOK'
  <1> SUFFICES ASSUME NEW K, K = Known, NEW L, L = Known' PROVE Shape(L)' /\ store' \in Stores
    BY NextTypeIsShape
  <1>1. Shape(K) /\ store \in Stores /\ NoFile \in K
    BY TypeIsShape DEF Known
  <1>2. PICK op \in {"keep", "new", "link", "delete"} :
          \E f \in IF op = "new" THEN Fresh ELSE IF op = "keep" THEN {res.file} ELSE {NoFile} :
            /\ ed' = [ed EXCEPT ![e] = [pc |-> "read", op |-> op, seen |-> res.file, new |-> f]]
            /\ store' = [a \in Artifacts |-> IF op = "new" /\ a = f THEN "ready" ELSE store[a]]
    BY DEF ReadResource
  <1>3. PICK f \in IF op = "new" THEN Fresh ELSE IF op = "keep" THEN {res.file} ELSE {NoFile} :
          /\ ed' = [ed EXCEPT ![e] = [pc |-> "read", op |-> op, seen |-> res.file, new |-> f]]
          /\ store' = [a \in Artifacts |-> IF op = "new" /\ a = f THEN "ready" ELSE store[a]]
    BY <1>2
  <1>4. store' \in Stores
    BY <1>1, <1>3 DEF Stores
  <1>5. K \subseteq L
    BY <1>3, KnownGrows
  <1>6. Shape(L)
    BY <1>1, <1>5, ShapeGrows
  <1>7. res.file \in K
    BY <1>1 DEF Shape
  <1>8. f \in L
    <2>1. CASE op = "new"
      BY <1>3, <2>1, UploadIsKnown DEF Fresh
    <2> QED
      BY <1>1, <1>3, <1>5, <1>7, <2>1
  <1>9. [pc |-> "read", op |-> op, seen |-> res.file, new |-> f] \in Edits(L)
    BY <1>5, <1>7, <1>8 DEF Edits
  <1>10. ed' \in [Editors -> Edits(L)]
    BY <1>3, <1>6, <1>9 DEF Shape
  <1> QED
    BY <1>4, <1>6, <1>10 DEF ReadResource, Shape

LEMMA BuildType ==
  ASSUME TypeOK, NEW w \in Workers, Build(w)
  PROVE  TypeOK'
  <1> SUFFICES ASSUME NEW K, K = Known, NEW L, L = Known' PROVE Shape(L)' /\ store' \in Stores
    BY NextTypeIsShape
  <1>1. Shape(K) /\ store \in Stores
    BY TypeIsShape
  <1>2. CASE wk[w].out # NoFile
    <2>1. Work(w, "built") /\ store' = store
      BY <1>2 DEF Build
    <2>2. wk' \in [Workers -> Works(K)]
      BY <1>1, <2>1, WorkType
    <2>3. L = K
      BY <2>1 DEF Known, Fresh
    <2> QED
      BY <1>1, <2>1, <2>2, <2>3 DEF Build, Shape
  <1>3. CASE wk[w].out = NoFile
    <2>1. PICK z \in Fresh :
            /\ wk' = [wk EXCEPT ![w].pc = "built", ![w].out = z]
            /\ store' = [store EXCEPT ![z] = "ready"]
      BY <1>3 DEF Build
    <2>2. store' \in Stores /\ store'[z] = "ready"
      BY <1>1, <2>1 DEF Stores, Fresh
    <2>3. K \subseteq L
      BY <1>1, <2>1, KnownGrows DEF Stores
    <2>4. z \in L
      BY <2>2, UploadIsKnown DEF Fresh
    <2>5. Shape(L)
      BY <1>1, <2>3, ShapeGrows
    <2>6. wk' \in [Workers -> Works(L)]
      <3>1. wk \in [Workers -> Works(L)] /\ wk[w] \in Works(L)
        BY <2>5 DEF Shape
      <3>2. [wk[w] EXCEPT !.pc = "built", !.out = z] \in Works(L)
        BY <2>4, <3>1 DEF Works
      <3>3. wk' = [wk EXCEPT ![w] = [wk[w] EXCEPT !.pc = "built", !.out = z]]
        BY <2>1, <3>1 DEF Works
      <3> QED
        BY <3>1, <3>2, <3>3
    <2> QED
      BY <2>2, <2>5, <2>6 DEF Build, Shape
  <1> QED
    BY <1>2, <1>3

LEMMA OrphanType ==
  ASSUME TypeOK, NEW e \in Editors, DeleteOrphan(e)
  PROVE  TypeOK'
  <1> SUFFICES ASSUME NEW K, K = Known, NEW L, L = Known' PROVE Shape(L)' /\ store' \in Stores
    BY NextTypeIsShape
  <1>1. Shape(K) /\ store \in Stores
    BY TypeIsShape
  <1>2. store' \in Stores
    BY <1>1 DEF DeleteOrphan, Stores
  <1>3. K \subseteq L /\ NoFile \in L
    <2>1. \A a \in Artifacts : store'[a] = "absent" => store[a] = "absent"
      BY <1>1 DEF DeleteOrphan, Stores
    <2> QED
      BY <2>1, KnownGrows DEF Known
  <1>4. Shape(L)
    BY <1>1, <1>3, ShapeGrows
  <1>5. ed' \in [Editors -> Edits(L)] /\ stale' \subseteq Windows
    BY <1>3, <1>4, Blanks, HitsType DEF DeleteOrphan, Shape
  <1> QED
    BY <1>2, <1>4, <1>5 DEF DeleteOrphan, Shape

\* The queue, and so a batch, may name any artifact: the deletion makes it known.
LEMMA PurgeDeleteType ==
  ASSUME TypeOK, NEW a \in Artifacts, PurgeDelete(a)
  PROVE  TypeOK'
  <1> SUFFICES ASSUME NEW K, K = Known, NEW L, L = Known' PROVE Shape(L)' /\ store' \in Stores
    BY NextTypeIsShape
  <1>1. Shape(K) /\ store \in Stores
    BY TypeIsShape
  <1>2. store' \in Stores
    BY <1>1 DEF PurgeDelete, Stores
  <1>3. K \subseteq L
    <2>1. \A b \in Artifacts : store'[b] = "absent" => store[b] = "absent"
      BY <1>1 DEF PurgeDelete, Stores
    <2> QED
      BY <2>1, KnownGrows
  <1>4. Shape(L)
    BY <1>1, <1>3, ShapeGrows
  <1>5. pg' \in Purges(L)
    <2>1. CASE pg' = [pg EXCEPT !.batch = @ \ {a}]
      BY <1>4, <2>1 DEF Shape, Purges
    <2>2. CASE /\ store' = [store EXCEPT ![a] = "deleted"]
               /\ pg' = [pg EXCEPT !.pc = "drop", !.batch = @ \ {a}, !.last = a]
      <3>1. a \in L
        BY <1>1, <2>2 DEF Stores, Known, Fresh
      <3> QED
        BY <1>4, <2>2, <3>1 DEF Shape, Purges
    <2> QED
      BY <2>1, <2>2 DEF PurgeDelete
  <1>6. stale' \subseteq Windows
    BY <1>4, HitsType DEF PurgeDelete, Shape
  <1> QED
    BY <1>2, <1>4, <1>5, <1>6 DEF PurgeDelete, Shape

\* The other steps, by the lemmas above.
LEMMA NextType == TypeOK /\ [Next]_vars => TypeOK'
  <1> SUFFICES ASSUME TypeOK, [Next]_vars PROVE TypeOK'
    OBVIOUS
  <1> SUFFICES ASSUME NEW K, K = Known PROVE TypeOK'
    OBVIOUS
  <1>1. Shape(K) /\ store \in Stores /\ NoFile \in K
    BY TypeIsShape DEF Known
  <1>2. Shape(K)' /\ store' = store => TypeOK'
    <2> SUFFICES ASSUME Shape(K)', store' = store PROVE TypeOK'
      OBVIOUS
    <2>1. K = Known'
      BY DEF Known, Fresh
    <2> QED
      BY <1>1, <2>1, NextTypeIsShape
  <1>a. ASSUME NEW e \in Editors, Edit(e) PROVE TypeOK'
    <2>1. CASE SaveResource(e) \/ DeleteResource(e) \/ EditFails(e)
      <3>1. store' = store
        BY <2>1 DEF SaveResource, DeleteResource, EditFails
      <3> QED
        BY <1>1, <1>2, <2>1, <3>1, EditShape
    <2> QED
      BY <1>a, <2>1, ReadType, OrphanType DEF Edit
  <1>b. ASSUME NEW w \in Workers, Forge(w) PROVE TypeOK'
    <2>1. CASE ForgeStep(w)
      <3>1. store' = store
        BY <2>1 DEF ForgeStep, Claim, Describe, Fail, CheckComplete, Complete, Discard,
                    SendAgain, Answered, StartRepack, CheckAttach, Attach
      <3> QED
        BY <1>1, <1>2, <2>1, <3>1, ForgeShape
    <2> QED
      BY <1>b, <2>1, BuildType DEF Forge, ForgeStep
  <1>c. ASSUME NEW a \in Artifacts, FallsDue(a) \/ PurgeDelete(a) \/ Revert(a) PROVE TypeOK'
    <2>1. CASE FallsDue(a)
      <3>1. store' = store
        BY <2>1 DEF FallsDue
      <3> QED
        BY <1>1, <1>2, <2>1, <3>1, FallsDueShape
    <2>2. CASE Revert(a)
      <3>1. store' = store
        BY <2>2 DEF Revert
      <3>2. a \in K
        BY <2>2 DEF Revert, Known, Fresh
      <3> QED
        BY <1>1, <1>2, <2>2, <3>1, <3>2, RevertShape
    <2> QED
      BY <1>c, <2>1, <2>2, PurgeDeleteType
  <1>d. CASE Purge
    <2>1. store' = store
      BY <1>d DEF Purge, PurgeClean, PurgeSelect, PurgeDrop, PurgeEnds
    <2> QED
      BY <1>1, <1>2, <1>d, <2>1, PurgeShape
  <1>e. CASE Withdraw
    <2>1. store' = store
      BY <1>e DEF Withdraw
    <2> QED
      BY <1>1, <1>2, <1>e, <2>1, WithdrawShape
  <1>f. CASE UNCHANGED vars
    BY <1>1, <1>2, <1>f DEF vars, Shape
  <1> QED
    BY <1>a, <1>b, <1>c, <1>d, <1>e, <1>f DEF Next

\* The state keeps its shape, and no row, job, queue entry, edit or request names an
\* artifact that was never stored, whatever windows are hit.
THEOREM TypeCorrect == Spec => []TypeOK
  <1>1. TypeOK /\ [Next]_vars => TypeOK'
    BY NextType
  <1> QED
    BY InitType, <1>1, PTL DEF Spec

-----------------------------------------------------------------------------
(* The repack *)

LEMMA InitRepack == Init => RepackFollowsFile
  BY DEF Init, RepackFollowsFile

\* A statement that leaves file and repack alone, or goes through the trigger.
LEMMA WithFileKeeps ==
  ASSUME TypeOK, RepackFollowsFile, NEW f, WithFile(f)
  PROVE  RepackFollowsFile'
  <1>1. res'.file = f /\ res'.here = res.here
    BY DEF WithFile, TypeOK
  <1> QED
    BY <1>1 DEF WithFile, RepackFollowsFile

LEMMA NextRepack ==
  ASSUME TypeOK, RepackFollowsFile, [Next]_vars
  PROVE  RepackFollowsFile'
  <1>1. CASE UNCHANGED <<res, repack>>
    BY <1>1 DEF RepackFollowsFile
  <1>2. CASE repack' = NoRepack
    BY <1>2 DEF RepackFollowsFile
  <1>3. ASSUME NEW f, WithFile(f) PROVE RepackFollowsFile'
    BY <1>3, WithFileKeeps
  <1>a. ASSUME NEW e \in Editors, Edit(e) PROVE RepackFollowsFile'
    BY <1>a, <1>1, <1>2, <1>3 DEF Edit, ReadResource, SaveResource, DeleteResource, EditFails,
                                  DeleteOrphan
  <1>b. ASSUME NEW w \in Workers, Forge(w) PROVE RepackFollowsFile'
    <2>1. CASE Complete(w)
      BY <1>1, <1>3, <2>1 DEF Complete
    <2>2. CASE Attach(w)
      \* Attachable: the source is the file, and the row is locked.
      <3>1. CASE Attachable(w)
        BY <2>2, <3>1 DEF Attach, Attachable, SourceChanged, RepackFollowsFile
      <3>2. CASE ~Attachable(w)
        BY <1>1, <2>2, <3>2 DEF Attach
      <3> QED
        BY <3>1, <3>2
    <2> QED
      BY <1>b, <1>1, <2>1, <2>2 DEF Forge, Claim, Describe, Fail, Build, CheckComplete,
                                    Discard, SendAgain, Answered, StartRepack, CheckAttach
  <1>c. ASSUME NEW a \in Artifacts, FallsDue(a) \/ PurgeDelete(a) \/ Revert(a)
        PROVE  RepackFollowsFile'
    BY <1>c, <1>1, <1>3 DEF FallsDue, PurgeDelete, Revert
  <1>d. CASE Purge
    BY <1>d, <1>1 DEF Purge, PurgeClean, PurgeSelect, PurgeDrop, PurgeEnds
  <1>e. CASE Withdraw
    BY <1>e, <1>2 DEF Withdraw
  <1>f. CASE UNCHANGED vars
    BY <1>f, <1>1 DEF vars
  <1> QED
    BY <1>a, <1>b, <1>c, <1>d, <1>e, <1>f DEF Next

\* A repack is of the file its resource has, for any number of artifacts, editors
\* and workers and whatever windows are hit: the trigger and the row lock are enough.
THEOREM RepackFollows == Spec => []RepackFollowsFile
  <1>1. TypeOK /\ RepackFollowsFile /\ [Next]_vars => RepackFollowsFile'
    BY NextRepack
  <1> QED
    BY InitRepack, TypeCorrect, <1>1, PTL DEF Spec

-----------------------------------------------------------------------------
(* While no window is hit *)

\* Which file an artifact was built from, wherever that is kept: by the worker
\* that built it or carries it, by the repack, by the job it completed.
Built == {<<wk[w].src, wk[w].out>> : w \in Workers}
         \cup {<<repack.source, repack.file>>}
         \cup {<<a, job[a].product>> : a \in Artifacts}

\* It is the same everywhere.
OneSource == \A p, q \in Built : p[2] = q[2] /\ p[2] # NoFile => p[1] = q[1]

IsBuilt(a) == a # NoFile /\ \E p \in Built : p[2] = a

\* The swap that made a file of a is on record.
SwappedIn(a) == \E b \in Artifacts : job[b].state = "done" /\ job[b].product = a

\* What the forge built does not go through the forge, and is the file only by a
\* swap on record.
BuiltIsProduct == \A a \in Artifacts : IsBuilt(a) =>
  /\ job[a].state = "none"
  /\ \A w \in Workers : wk[w].pc # "idle" /\ wk[w].lane = "normalize" => wk[w].src # a
  /\ a = res.file => SwappedIn(a)

\* An edit's upload is its own until it is saved.
UploadIsOwn == \A e \in Editors : LET f == ed[e].new IN
  ed[e].pc = "read" /\ ed[e].op = "new" =>
    /\ f \in Artifacts /\ store[f] = "ready" /\ purge[f] = "no" /\ job[f].state = "none"
    /\ f # res.file /\ ~IsBuilt(f)
    /\ \A d \in Editors : ed[d].seen # f /\ (d # e => ed[d].new # f)

EditsAgree == \A e \in Editors : ed[e].pc = "read" =>
  /\ ed[e].op = "keep" => ed[e].new = ed[e].seen
  /\ ed[e].op \in {"link", "delete"} => ed[e].new = NoFile

\* What an edit replaced and is about to delete cannot come back: nothing
\* installs it, and no swap of it is on record to be reverted.
OrphanIsGone == \A e \in Editors : LET f == ed[e].seen IN
  ed[e].pc = "orphan" =>
    /\ f \in Artifacts /\ f # res.file /\ f # repack.file
    /\ job[f].state # "done"
    /\ IsBuilt(f) => SwappedIn(f) \/ ~res.here

\* A purge deletes what is queued; the file is not, nor is the repack at any time.
PurgeIsQueued ==
  /\ repack.file # NoFile => purge[repack.file] = "no"
  /\ pg.pc = "idle" => pg.batch = {}
  /\ pg.pc # "idle" /\ res.file # NoFile => purge[res.file] = "no"
  /\ \A a \in pg.batch : purge[a] # "no"
  /\ pg.pc = "drop" => pg.last \notin pg.batch /\ pg.last \in Artifacts
                       /\ store[pg.last] = "deleted"

\* What a request was told is stored is.
CheckedIsStored == \A w \in Workers :
  /\ wk[w].pc = "checked" => wk[w].out # NoFile /\ store[wk[w].out] = "ready"
  /\ wk[w].pc # "idle" => wk[w].src # NoFile
  /\ wk[w].pc \notin {"idle", "building"} => wk[w].out # NoFile

JobsAgree ==
  /\ ~res.here => res.file = NoFile
  /\ \A a \in Artifacts : job[a].state \in {"none", "claimed"} => job[a].product = NoFile
  /\ \A a \in Fresh : job[a].state = "none" /\ purge[a] = "no"

LifeParts ==
  /\ OneSource /\ BuiltIsProduct /\ UploadIsOwn /\ EditsAgree /\ OrphanIsGone
  /\ PurgeIsQueued /\ CheckedIsStored /\ JobsAgree
  /\ RepackFollowsFile /\ DoneIsSwapped

LifeInv == stale = {} => LifeParts /\ OfferedIsStored /\ OriginalIsRetired

-----------------------------------------------------------------------------
(* What a step moves while no window is hit *)

Installs(w) == Complete(w) /\ ~SourceChanged(w) /\ ~Taken(wk[w].out)

LEMMA NothingHit == ASSUME NEW W, Hits(W), stale' = {} PROVE W = {}
  BY DEF Hits

LEMMA StaleGrows == [Next]_vars /\ stale' = {} => stale = {}
  BY NothingHit DEF Next, Edit, Forge, Purge, ReadResource, SaveResource, DeleteResource,
     EditFails, DeleteOrphan, Claim, Describe, Fail, Build, CheckComplete, Complete,
     Discard, SendAgain, Answered, StartRepack, CheckAttach, Attach, PurgeClean,
     PurgeSelect, PurgeDrop, PurgeEnds, FallsDue, PurgeDelete, Revert, Withdraw, vars, Hits

\* A file is installed by an edit that read the one it replaces, by a swap or by
\* a revert.
LEMMA FileMoves ==
  ASSUME TypeOK, [Next]_vars, stale' = {}
  PROVE  \/ res' = res
         \/ \E e \in Editors :
              /\ SaveResource(e) /\ ed[e].pc = "read" /\ ed[e].op # "delete"
              /\ ed[e].seen = res.file /\ ed'[e].pc # "read"
              /\ res'.here /\ res'.file = ed[e].new /\ UNCHANGED <<store, pg>>
         \/ \E e \in Editors : DeleteResource(e) /\ res.here /\ ~res'.here /\ res'.file = NoFile
         \/ \E w \in Workers :
              /\ Installs(w) /\ wk[w].pc = "checked" /\ wk[w].lane = "normalize"
              /\ wk[w].src = res.file /\ wk[w].out # res.file
              /\ purge[wk[w].out] = "no"
              /\ res'.here = res.here /\ res'.file = wk[w].out /\ UNCHANGED <<store, pg>>
         \/ \E a \in Artifacts :
              /\ Revert(a) /\ job[a].state = "done" /\ store[a] = "ready"
              /\ pg.pc # "idle" => purge[a] = "no"
              /\ res'.here /\ res'.file = a /\ UNCHANGED <<store, pg>>
  <1>1. CASE \E e \in Editors : SaveResource(e)
    <2>1. PICK e \in Editors : SaveResource(e)
      BY <1>1
    <2>2. ed[e].seen = res.file
      BY <2>1, NothingHit DEF SaveResource, Overwrites
    <2>3. ed'[e].pc # "read"
      BY <2>1 DEF SaveResource, Leave, NoEdit, TypeOK
    <2> QED
      BY <2>1, <2>2, <2>3 DEF SaveResource, WithFile, TypeOK
  <1>2. CASE \E e \in Editors : DeleteResource(e)
    BY <1>2 DEF DeleteResource, TypeOK
  <1>3. CASE \E w \in Workers : Complete(w)
    <2>1. PICK w \in Workers : Complete(w)
      BY <1>3
    <2>2. CASE SourceChanged(w) \/ Taken(wk[w].out)
      BY <2>1, <2>2 DEF Complete
    <2>3. CASE ~(SourceChanged(w) \/ Taken(wk[w].out))
      BY <2>1, <2>3 DEF Installs, Complete, WithFile, SourceChanged, Taken, TypeOK
    <2> QED
      BY <2>2, <2>3
  <1>4. CASE \E a \in Artifacts : Revert(a)
    <2>1. PICK a \in Artifacts : Revert(a)
      BY <1>4
    <2>2. pg.pc # "idle" => purge[a] = "no"
      BY <2>1, NothingHit DEF Revert
    <2> QED
      BY <2>1, <2>2 DEF Revert, WithFile, TypeOK
  <1>5. CASE /\ ~\E e \in Editors : SaveResource(e) \/ DeleteResource(e)
             /\ ~\E w \in Workers : Complete(w)
             /\ ~\E a \in Artifacts : Revert(a)
    BY <1>5 DEF Next, Edit, Forge, Purge, ReadResource, EditFails, DeleteOrphan, Claim,
       Describe, Fail, Build, CheckComplete, Discard, SendAgain, Answered, StartRepack,
       CheckAttach, Attach, PurgeClean, PurgeSelect, PurgeDrop, PurgeEnds, FallsDue,
       PurgeDelete, Withdraw, vars
  <1> QED
    BY <1>1, <1>2, <1>3, <1>4, <1>5

\* A repack comes by an attach and goes with the file or on its own.
LEMMA RepackMoves ==
  ASSUME TypeOK, [Next]_vars
  PROVE  \/ repack' = repack
         \/ repack' = NoRepack
         \/ \E w \in Workers :
              /\ Attach(w) /\ Attachable(w) /\ wk[w].pc = "checked"
              /\ repack' = [file |-> wk[w].out, source |-> wk[w].src]
              /\ UNCHANGED <<res, store, job>>
  BY DEF Next, Edit, Forge, Purge, ReadResource, SaveResource, DeleteResource,
     EditFails, DeleteOrphan, Claim, Describe, Fail, Build, CheckComplete, Complete,
     Discard, SendAgain, Answered, StartRepack, CheckAttach, Attach, PurgeClean,
     PurgeSelect, PurgeDrop, PurgeEnds, FallsDue, PurgeDelete, Revert, Withdraw, vars,
     WithFile

\* A lease, a verdict on it, a swap, a revert, or a job that is forgotten.
LEMMA JobMoves ==
  ASSUME TypeOK, [Next]_vars, NEW a \in Artifacts, job'[a] # job[a]
  PROVE  \/ job'[a] = NoJob /\ (job[a].state = "locked" \/ ~res'.here)
         \/ /\ job'[a].state \in {"failed", "claimed"} /\ job'[a].product = NoFile
            /\ Expired(a) \/ (Pending /\ a = res.file)
            /\ UNCHANGED <<res, repack, store, purge>>
         \/ /\ job'[a].state \in {"failed", "locked"} /\ job'[a].product = job[a].product
            /\ job[a].state \notin {"none", "done"}
            /\ UNCHANGED <<res, repack, store, purge>>
         \/ \E w \in Workers :
              /\ Installs(w) /\ a = wk[w].src
              /\ job'[a].state = "done" /\ job'[a].product = wk[w].out
         \/ /\ Revert(a) /\ job[a].state = "done" /\ res.file = job[a].product
            /\ job'[a].state = "failed" /\ job'[a].product = job[a].product
  <1>1. job[a] = [state |-> job[a].state, product |-> job[a].product]
    BY DEF TypeOK
  <1>2. CASE \E e \in Editors : SaveResource(e)
    BY <1>2 DEF SaveResource, TypeOK
  <1>3. CASE \E e \in Editors : DeleteResource(e)
    BY <1>3 DEF DeleteResource, TypeOK
  <1>4. CASE \E w \in Workers : Claim(w)
    BY <1>4 DEF Claim, NoJob
  <1>5. CASE \E w \in Workers : Describe(w)
    <2>1. PICK b : MarkFailed(b, "failed")
      BY <1>5 DEF Describe
    <2>2. job' = [job EXCEPT ![b].state = "failed"] /\ MayFail(b)
      BY <2>1 DEF MarkFailed
    <2>3. a = b /\ job'[a] = [job[a] EXCEPT !.state = "failed"]
      BY <2>2 DEF TypeOK
    <2> QED
      BY <1>1, <1>5, <2>2, <2>3 DEF Describe, MayFail
  <1>6. CASE \E w \in Workers : Fail(w)
    <2>1. PICK v \in Workers, s \in {"failed", "locked"} : MarkFailed(wk[v].src, s)
      BY <1>6 DEF Fail
    <2> DEFINE b == wk[v].src
    <2>2. job' = [job EXCEPT ![b].state = s] /\ MayFail(b)
      BY <2>1 DEF MarkFailed
    <2>3. a = b /\ job'[a] = [job[a] EXCEPT !.state = s]
      BY <2>2 DEF TypeOK
    <2> QED
      BY <1>1, <1>6, <2>2, <2>3 DEF Fail, MayFail
  <1>7. CASE \E w \in Workers : Complete(w)
    <2>1. PICK w \in Workers : Complete(w)
      BY <1>7
    <2>2. Installs(w) /\ job' = Swapped(wk[w].src, wk[w].out)
      BY <2>1 DEF Complete, Installs
    <2> QED
      BY <1>1, <2>2 DEF Swapped, TypeOK
  <1>8. CASE \E b \in Artifacts : Revert(b)
    <2>1. PICK b \in Artifacts : Revert(b)
      BY <1>8
    <2>2. job' = [job EXCEPT ![b].state = "failed"]
      BY <2>1 DEF Revert
    <2>3. a = b /\ job'[a] = [job[a] EXCEPT !.state = "failed"]
      BY <2>2 DEF TypeOK
    <2> QED
      BY <1>1, <2>1, <2>3 DEF Revert
  <1>9. CASE /\ ~\E e \in Editors : SaveResource(e) \/ DeleteResource(e)
             /\ ~\E w \in Workers : Complete(w) \/ Claim(w) \/ Describe(w) \/ Fail(w)
             /\ ~\E b \in Artifacts : Revert(b)
    BY <1>9 DEF Next, Edit, Forge, Purge, ReadResource, EditFails, DeleteOrphan,
       Build, CheckComplete, Discard, SendAgain, Answered, StartRepack,
       CheckAttach, Attach, PurgeClean, PurgeSelect, PurgeDrop, PurgeEnds, FallsDue,
       PurgeDelete, Withdraw, vars
  <1> QED
    BY <1>2, <1>3, <1>4, <1>5, <1>6, <1>7, <1>8, <1>9

\* A worker takes on the file with its repack, or nothing; uploads; moves on.
LEMMA WorkMoves ==
  ASSUME TypeOK, [Next]_vars, NEW w \in Workers, wk'[w] # wk[w]
  PROVE  \/ wk'[w] = NoWork
         \/ /\ Claim(w) /\ Pending
            /\ wk'[w] = [pc |-> "building", lane |-> "normalize", src |-> res.file,
                         out |-> repack.file]
         \/ /\ StartRepack(w) /\ res.file # NoFile
            /\ wk'[w] = [pc |-> "building", lane |-> "repack", src |-> res.file,
                         out |-> NoFile]
         \/ /\ Build(w) /\ wk[w].pc = "building" /\ wk[w].out = NoFile
            /\ \E z \in Fresh : wk'[w] = [wk[w] EXCEPT !.pc = "built", !.out = z]
         \/ /\ Build(w) /\ wk[w].pc = "building" /\ wk[w].out # NoFile
            /\ wk'[w] = [wk[w] EXCEPT !.pc = "built"]
         \/ /\ wk[w].pc \notin {"idle", "building"}
            /\ \E pc \in {"built", "checked", "discard", "done"} :
                 /\ wk'[w] = [wk[w] EXCEPT !.pc = pc]
                 /\ pc = "checked" => store[wk[w].out] = "ready" /\ store' = store
  <1>1. CASE \E v \in Workers : Forge(v)
    <2>1. PICK v \in Workers : Forge(v)
      BY <1>1
    <2>2. v = w
      BY <2>1 DEF Forge, Claim, Describe, Fail, Build, CheckComplete, Complete, Discard,
         SendAgain, Answered, StartRepack, CheckAttach, Attach, Work, TypeOK
    <2>3. CASE Claim(w)
      BY <2>3 DEF Claim, TypeOK
    <2>4. CASE Describe(w) \/ Fail(w) \/ Answered(w) \/ StartRepack(w)
      BY <2>4 DEF Describe, Fail, Answered, StartRepack, TypeOK
    <2>5. CASE Build(w)
      BY <2>5 DEF Build, Work, TypeOK
    <2>6. CASE CheckComplete(w) \/ CheckAttach(w)
      BY <2>6 DEF CheckComplete, CheckAttach, Work, TypeOK
    <2>7. CASE Complete(w) \/ Discard(w) \/ SendAgain(w) \/ Attach(w)
      BY <2>7 DEF Complete, Discard, SendAgain, Attach, Work, TypeOK
    <2> QED
      BY <2>1, <2>2, <2>3, <2>4, <2>5, <2>6, <2>7 DEF Forge
  <1>2. CASE ~\E v \in Workers : Forge(v)
    BY <1>2 DEF Next, Edit, Purge, ReadResource, SaveResource, DeleteResource,
       EditFails, DeleteOrphan, PurgeClean, PurgeSelect, PurgeDrop, PurgeEnds, FallsDue,
       PurgeDelete, Revert, Withdraw, vars
  <1> QED
    BY <1>1, <1>2

LEMMA EditMoves ==
  ASSUME TypeOK, [Next]_vars, stale' = {}, NEW e \in Editors, ed'[e] # ed[e]
  PROVE  \/ ed'[e] = NoEdit
         \/ /\ ed'[e].pc = "orphan" /\ ed'[e].seen = ed[e].seen /\ ed'[e].new = NoFile
            /\ ed[e].seen # NoFile /\ ed[e].new # ed[e].seen
            /\ ed[e].seen = res.file
            /\ SaveResource(e) \/ DeleteResource(e)
         \/ /\ ed'[e].pc = "read" /\ ed'[e].seen = res.file
            /\ ed'[e].op = "keep" => ed'[e].new = res.file
            /\ ed'[e].op \in {"link", "delete"} => ed'[e].new = NoFile
            /\ ed'[e].op = "new" => ed'[e].new \in Fresh /\ store'[ed'[e].new] = "ready"
            /\ UNCHANGED <<res, repack, job, purge, wk>>
            /\ \A d \in Editors \ {e} : ed'[d] = ed[d]
  <1>1. CASE \E d \in Editors : Edit(d)
    <2>1. PICK d \in Editors : Edit(d)
      BY <1>1
    <2>2. d = e
      BY <2>1 DEF Edit, ReadResource, SaveResource, DeleteResource, EditFails,
         DeleteOrphan, Leave, TypeOK
    <2>3. CASE ReadResource(e)
      <3>1. PICK op \in {"keep", "new", "link", "delete"} :
              \E f \in IF op = "new" THEN Fresh ELSE IF op = "keep" THEN {res.file} ELSE {NoFile} :
                /\ ed' = [ed EXCEPT ![e] = [pc |-> "read", op |-> op, seen |-> res.file, new |-> f]]
                /\ store' = [a \in Artifacts |-> IF op = "new" /\ a = f THEN "ready" ELSE store[a]]
        BY <2>3 DEF ReadResource
      <3>2. PICK f \in IF op = "new" THEN Fresh ELSE IF op = "keep" THEN {res.file} ELSE {NoFile} :
                /\ ed' = [ed EXCEPT ![e] = [pc |-> "read", op |-> op, seen |-> res.file, new |-> f]]
                /\ store' = [a \in Artifacts |-> IF op = "new" /\ a = f THEN "ready" ELSE store[a]]
        BY <3>1
      <3>3. /\ ed'[e] = [pc |-> "read", op |-> op, seen |-> res.file, new |-> f]
            /\ \A b \in Editors \ {e} : ed'[b] = ed[b]
        BY <3>2 DEF TypeOK
      <3>4. /\ op = "new" => f \in Fresh /\ store'[f] = "ready"
            /\ op = "keep" => f = res.file
            /\ op \in {"link", "delete"} => f = NoFile
        BY <3>2 DEF Fresh
      <3> QED
        BY <2>3, <3>3, <3>4 DEF ReadResource
    <2>4. CASE SaveResource(e) \/ DeleteResource(e)
      <3>1. ed[e].seen = res.file /\ Leave(e)
        BY <2>4, NothingHit DEF SaveResource, DeleteResource, Overwrites
      <3>2. \/ ed'[e] = NoEdit
            \/ /\ ed'[e] = [NoEdit EXCEPT !.pc = "orphan", !.seen = ed[e].seen]
               /\ ed[e].seen # NoFile /\ ed[e].new # ed[e].seen
        BY <3>1 DEF Leave, TypeOK
      <3> QED
        BY <2>4, <3>1, <3>2 DEF NoEdit
    <2>5. CASE EditFails(e) \/ DeleteOrphan(e)
      BY <2>5 DEF EditFails, DeleteOrphan, TypeOK
    <2> QED
      BY <2>1, <2>2, <2>3, <2>4, <2>5 DEF Edit
  <1>2. CASE ~\E d \in Editors : Edit(d)
    BY <1>2 DEF Next, Forge, Purge, Claim, Describe, Fail, Build, CheckComplete, Complete,
       Discard, SendAgain, Answered, StartRepack, CheckAttach, Attach, PurgeClean,
       PurgeSelect, PurgeDrop, PurgeEnds, FallsDue, PurgeDelete, Revert, Withdraw, vars
  <1> QED
    BY <1>1, <1>2

\* Uploaded, or deleted: by the edit that replaced it or by the purge loop, and
\* not while a request that was told of it is under way.
LEMMA StoreMoves ==
  ASSUME TypeOK, [Next]_vars, stale' = {}, NEW a \in Artifacts, store'[a] # store[a]
  PROVE  \/ store[a] = "absent" /\ store'[a] = "ready"
         \/ /\ store'[a] = "deleted"
            /\ UNCHANGED <<res, repack, job, purge, wk>>
            /\ \A w \in Workers : wk[w].pc = "checked" => wk[w].out # a
            /\ \/ \E e \in Editors : ed[e].pc = "orphan" /\ ed[e].seen = a
               \/ pg.pc = "batch" /\ a \in pg.batch
  <1>1. CASE \E e \in Editors : DeleteOrphan(e)
    <2>1. PICK e \in Editors : DeleteOrphan(e)
      BY <1>1
    <2>2. ed[e].seen = a /\ store'[a] = "deleted" /\ DeletedLate(a) = {}
      BY <2>1, NothingHit DEF DeleteOrphan, TypeOK
    <2> QED
      BY <2>1, <2>2 DEF DeleteOrphan, DeletedLate
  <1>2. CASE \E b \in Artifacts : PurgeDelete(b)
    <2>1. PICK b \in Artifacts : PurgeDelete(b)
      BY <1>2
    <2>2. b = a /\ store'[a] = "deleted" /\ DeletedLate(a) = {}
      BY <2>1, NothingHit DEF PurgeDelete, TypeOK
    <2> QED
      BY <2>1, <2>2 DEF PurgeDelete, DeletedLate
  <1>3. CASE \E e \in Editors : ReadResource(e)
    BY <1>3 DEF ReadResource, Fresh
  <1>4. CASE \E w \in Workers : Build(w)
    BY <1>4 DEF Build, Fresh, TypeOK
  <1>5. CASE /\ ~\E e \in Editors : DeleteOrphan(e) \/ ReadResource(e)
             /\ ~\E b \in Artifacts : PurgeDelete(b)
             /\ ~\E w \in Workers : Build(w)
    BY <1>5 DEF Next, Edit, Forge, Purge, SaveResource, DeleteResource, EditFails, Claim,
       Describe, Fail, CheckComplete, Complete, Discard, SendAgain, Answered, StartRepack,
       CheckAttach, Attach, PurgeClean, PurgeSelect, PurgeDrop, PurgeEnds, FallsDue,
       Revert, Withdraw, vars
  <1> QED
    BY <1>1, <1>2, <1>3, <1>4, <1>5

\* Queued once it is neither file nor repack any more, retired by the swap that
\* replaces it, or off the queue.
LEMMA PurgeMoves ==
  ASSUME TypeOK, [Next]_vars, NEW a \in Artifacts, purge'[a] # purge[a]
  PROVE  \/ purge'[a] = "no" /\ pg.pc = "idle" /\ a = res.file /\ UNCHANGED <<res, repack, job>>
         \/ /\ purge'[a] = "no" /\ pg.pc = "drop" /\ a = pg.last
            /\ UNCHANGED <<res, repack, job, store>>
         \/ /\ purge'[a] = "due" /\ purge[a] = "later" /\ pg.pc = "idle"
            /\ UNCHANGED <<res, repack, job, pg>>
         \/ /\ purge'[a] = "due" /\ purge[a] = "no"
            /\ a # res'.file /\ a # repack'.file
            /\ IsBuilt(a) \/ a = res.file
         \/ /\ purge'[a] = "later" /\ purge[a] = "no"
            /\ a = res.file /\ a # res'.file /\ repack'.file = NoFile
  <1>0. /\ a # NoFile
        /\ repack.file # NoFile => <<repack.source, repack.file>> \in Built
        /\ \A w \in Workers : <<wk[w].src, wk[w].out>> \in Built
    BY ArtifactAssumption DEF Built
  <1>1. CASE \E e \in Editors : SaveResource(e)
    <2>1. PICK e \in Editors : SaveResource(e)
      BY <1>1
    <2>2. a \in Dropped(ed[e].new) /\ purge[a] = "no" /\ purge'[a] = "due"
      BY <2>1 DEF SaveResource, Queue
    <2>3. a = repack.file /\ a # ed[e].new /\ ed[e].new # res.file
      BY <2>2 DEF Dropped
    <2>4. res'.file = ed[e].new /\ repack'.file = NoFile
      BY <2>1, <2>3 DEF SaveResource, WithFile, NoRepack, TypeOK
    <2> QED
      BY <1>0, <2>2, <2>3, <2>4 DEF IsBuilt
  <1>2. CASE \E e \in Editors : DeleteResource(e)
    BY <1>0, <1>2 DEF DeleteResource, Queue, NoRepack, IsBuilt, TypeOK
  <1>3. CASE \E w \in Workers : Complete(w)
    <2>1. PICK w \in Workers : Complete(w)
      BY <1>3
    <2> DEFINE out == wk[w].out
    <2>2. /\ Installs(w) /\ WithFile(out) /\ out # res.file /\ wk[w].src = res.file
          /\ purge' = Retired(wk[w].src, Queue(Dropped(out)))
      BY <2>1 DEF Complete, Installs, Taken, SourceChanged
    <2>3. res'.file = out /\ repack'.file = NoFile
      BY <2>2 DEF WithFile, NoRepack, TypeOK
    <2>4. CASE a = wk[w].src
      <3>1. purge'[a] = IF Queue(Dropped(out))[a] = "no" THEN "later"
                        ELSE Queue(Dropped(out))[a]
        BY <2>2, <2>4 DEF Retired, Queue
      <3>2. Queue(Dropped(out))[a] = purge[a] \/ (purge[a] = "no" /\ Queue(Dropped(out))[a] = "due")
        BY DEF Queue
      <3>3. purge[a] = "no" /\ purge'[a] \in {"later", "due"}
        BY <3>1, <3>2
      <3> QED
        BY <1>0, <2>2, <2>3, <2>4, <3>3
    <2>5. CASE a # wk[w].src
      <3>1. purge'[a] = Queue(Dropped(out))[a]
        BY <2>2, <2>5 DEF Retired, Queue
      <3>2. a \in Dropped(out) /\ purge[a] = "no" /\ purge'[a] = "due"
        BY <3>1 DEF Queue
      <3>3. a = repack.file /\ a # out
        BY <3>2 DEF Dropped
      <3> QED
        BY <1>0, <2>3, <3>2, <3>3 DEF IsBuilt
    <2> QED
      BY <2>4, <2>5
  <1>4. CASE \E w \in Workers : Discard(w)
    BY <1>0, <1>4 DEF Discard, Queue, Unheld, IsBuilt
  <1>5. CASE \E w \in Workers : Attach(w)
    BY <1>0, <1>5 DEF Attach, Attachable, Queue, IsBuilt
  <1>6. CASE Withdraw
    BY <1>0, <1>6 DEF Withdraw, Queue, NoRepack, IsBuilt
  <1>7. CASE \E b \in Artifacts : Revert(b)
    <2>1. PICK b \in Artifacts : Revert(b)
      BY <1>7
    <2>2. /\ a \in (Dropped(b) \cup {res.file}) \ {b} /\ purge[a] = "no" /\ purge'[a] = "due"
          /\ res'.file = b
      BY <2>1 DEF Revert, Queue, WithFile, TypeOK
    <2>3. b # res.file => repack'.file = NoFile
      BY <2>1 DEF Revert, WithFile, NoRepack
    <2>4. b = res.file => FALSE
      BY <2>2 DEF Dropped
    <2> QED
      BY <1>0, <2>2, <2>3, <2>4 DEF Dropped, IsBuilt
  <1>8. CASE PurgeClean \/ PurgeDrop
    BY <1>8 DEF PurgeClean, PurgeDrop, Reinstated, TypeOK
  <1>9. CASE \E b \in Artifacts : FallsDue(b)
    BY <1>9 DEF FallsDue, TypeOK
  <1>10. CASE /\ ~\E e \in Editors : SaveResource(e) \/ DeleteResource(e)
              /\ ~\E w \in Workers : Complete(w) \/ Discard(w) \/ Attach(w)
              /\ ~\E b \in Artifacts : Revert(b) \/ FallsDue(b)
              /\ ~(Withdraw \/ PurgeClean \/ PurgeDrop)
    BY <1>10 DEF Next, Edit, Forge, Purge, ReadResource, EditFails, DeleteOrphan, Claim,
       Describe, Fail, Build, CheckComplete, SendAgain, Answered, StartRepack,
       CheckAttach, PurgeSelect, PurgeEnds, PurgeDelete, vars
  <1> QED
    BY <1>1, <1>2, <1>3, <1>4, <1>5, <1>6, <1>7, <1>8, <1>9, <1>10

-----------------------------------------------------------------------------
(* Where artifacts come from *)

LEMMA Origins ==
  /\ \A w \in Workers : /\ <<wk[w].src, wk[w].out>> \in Built
                        /\ wk[w].out # NoFile => IsBuilt(wk[w].out)
  /\ <<repack.source, repack.file>> \in Built
  /\ repack.file # NoFile => IsBuilt(repack.file)
  /\ \A a \in Artifacts : /\ <<a, job[a].product>> \in Built
                          /\ job[a].product # NoFile => IsBuilt(job[a].product)
  <1>1. /\ \A w \in Workers : <<wk[w].src, wk[w].out>> \in Built
        /\ <<repack.source, repack.file>> \in Built
        /\ \A a \in Artifacts : <<a, job[a].product>> \in Built
    BY DEF Built
  <1>2. ASSUME NEW x, NEW y, <<x, y>> \in Built, y # NoFile PROVE IsBuilt(y)
    <2>1. <<x, y>>[2] = y
      OBVIOUS
    <2> QED
      BY <1>2, <2>1 DEF IsBuilt
  <1> QED
    BY <1>1, <1>2

\* What was never uploaded is not named.
LEMMA FreshIsUnnamed ==
  ASSUME TypeOK, NEW z \in Fresh
  PROVE  /\ z \in Artifacts /\ z # NoFile
         /\ ~IsBuilt(z) /\ z # res.file /\ z # repack.file
         /\ \A e \in Editors : ed[e].seen # z /\ ed[e].new # z
         /\ \A w \in Workers : wk[w].src # z /\ wk[w].out # z
  <1>1. z \notin Known
    BY ArtifactAssumption DEF Known, Fresh
  <1>2. /\ res.file \in Known /\ repack.file \in Known /\ repack.source \in Known
        /\ \A a \in Artifacts : job[a].product \in Known
        /\ \A e \in Editors : ed[e].seen \in Known /\ ed[e].new \in Known
        /\ \A w \in Workers : wk[w].src \in Known /\ wk[w].out \in Known
    BY DEF TypeOK
  <1> QED
    BY <1>1, <1>2, ArtifactAssumption DEF IsBuilt, Built, Fresh

\* A new origin is that of a new upload; all else carries old ones along.
LEMMA BuiltMoves ==
  ASSUME TypeOK, RepackFollowsFile, [Next]_vars, NEW p \in Built', p[2] # NoFile, p \notin Built
  PROVE  \E w \in Workers : /\ Build(w) /\ wk[w].pc = "building"
                            /\ p[1] = wk[w].src /\ p[2] \in Fresh
  <1>0. /\ \A w \in Workers : <<wk[w].src, wk[w].out>> \in Built
        /\ \A a \in Artifacts : <<a, job[a].product>> \in Built
        /\ <<repack.source, repack.file>> \in Built
    BY DEF Built
  <1>1. CASE p = <<repack'.source, repack'.file>>
    <2>1. repack' # NoRepack /\ repack' # repack
      BY <1>0, <1>1 DEF NoRepack
    <2> QED
      BY <1>0, <1>1, <2>1, RepackMoves
  <1>2. CASE \E a \in Artifacts : p = <<a, job'[a].product>>
    <2>1. PICK a \in Artifacts : p = <<a, job'[a].product>>
      BY <1>2
    <2>2. job'[a].product # NoFile /\ job'[a].product # job[a].product
      BY <1>0, <2>1
    <2>3. PICK w \in Workers : a = wk[w].src /\ job'[a].product = wk[w].out
      BY <2>2, JobMoves DEF NoJob
    <2> QED
      BY <1>0, <2>1, <2>3
  <1>3. CASE \E w \in Workers : p = <<wk'[w].src, wk'[w].out>>
    <2>1. PICK w \in Workers : p = <<wk'[w].src, wk'[w].out>>
      BY <1>3
    <2>2. wk'[w].out # NoFile /\ wk'[w] # wk[w] /\ wk[w] \in Works(Known)
      BY <1>0, <2>1 DEF TypeOK, Works
    <2>3. CASE wk'[w] = [pc |-> "building", lane |-> "normalize", src |-> res.file,
                         out |-> repack.file]
      <3>1. repack.source = res.file
        BY <2>2, <2>3 DEF RepackFollowsFile, NoRepack
      <3> QED
        BY <1>0, <2>1, <2>3, <3>1
    <2>4. CASE /\ Build(w) /\ wk[w].pc = "building"
               /\ \E z \in Fresh : wk'[w] = [wk[w] EXCEPT !.pc = "built", !.out = z]
      <3>1. PICK z \in Fresh : wk'[w] = [wk[w] EXCEPT !.pc = "built", !.out = z]
        BY <2>4
      <3>2. wk'[w].src = wk[w].src /\ wk'[w].out = z
        BY <2>2, <3>1 DEF Works
      <3> QED
        BY <2>1, <2>4, <3>2
    <2>5. ASSUME NEW pc, wk'[w] = [wk[w] EXCEPT !.pc = pc]
          PROVE  FALSE
      <3>1. wk'[w].src = wk[w].src /\ wk'[w].out = wk[w].out
        BY <2>2, <2>5 DEF Works
      <3> QED
        BY <1>0, <2>1, <3>1
    <2>6. /\ wk'[w] # NoWork
          /\ wk'[w] # [pc |-> "building", lane |-> "repack", src |-> res.file, out |-> NoFile]
      BY <2>2 DEF NoWork
    <2> QED
      BY <2>2, <2>3, <2>4, <2>5, <2>6, WorkMoves
  <1> QED
    BY <1>1, <1>2, <1>3 DEF Built

LEMMA NextOneSource ==
  ASSUME TypeOK, RepackFollowsFile, OneSource, [Next]_vars
  PROVE  OneSource'
  <1> SUFFICES ASSUME NEW p \in Built', NEW q \in Built', p[2] = q[2], p[2] # NoFile
               PROVE  p[1] = q[1]
    BY DEF OneSource
  <1>1. \A r \in Built : r[2] # NoFile => r[2] \notin Fresh
    BY FreshIsUnnamed DEF IsBuilt
  <1>2. CASE p \in Built /\ q \in Built
    BY <1>2 DEF OneSource
  <1>3. CASE p \in Built <=> q \notin Built
    BY <1>1, <1>3, BuiltMoves
  <1>4. CASE p \notin Built /\ q \notin Built
    <2>1. PICK v \in Workers : Build(v) /\ p[1] = wk[v].src /\ p[2] \in Fresh
      BY <1>4, BuiltMoves
    <2>2. PICK w \in Workers : Build(w) /\ q[1] = wk[w].src
      BY <1>4, BuiltMoves
    <2>3. CASE v = w
      BY <2>1, <2>2, <2>3
    <2>4. CASE v # w
      <3>1. wk'[v] = wk[v]
        BY <2>2, <2>4 DEF Build, Work, TypeOK
      <3>2. wk'[v] # wk[v]
        BY <2>1 DEF Build, Work, TypeOK
      <3> QED
        BY <3>1, <3>2
    <2> QED
      BY <2>3, <2>4
  <1> QED
    BY <1>2, <1>3, <1>4

\* Nothing is built that was not, but a new upload.
LEMMA BuiltBefore ==
  ASSUME TypeOK, RepackFollowsFile, [Next]_vars, NEW a, IsBuilt(a)'
  PROVE  IsBuilt(a) \/ (a \in Fresh /\ \E w \in Workers : Build(w))
  <1>1. PICK p \in Built' : p[2] = a /\ a # NoFile
    BY DEF IsBuilt
  <1> QED
    BY <1>1, BuiltMoves DEF IsBuilt

\* A swap on record stays, until it is reverted or the resource goes.
LEMMA SwapStays ==
  ASSUME TypeOK, DoneIsSwapped, [Next]_vars, NEW a \in Artifacts, SwappedIn(a)
  PROVE  SwappedIn(a)' \/ ~res'.here \/ (a = res.file /\ a # res'.file /\ ed' = ed)
  <1>1. PICK b \in Artifacts : job[b].state = "done" /\ job[b].product = a
    BY DEF SwappedIn
  <1>2. CASE job'[b] = job[b]
    BY <1>1, <1>2 DEF SwappedIn
  <1>3. CASE job'[b] # job[b]
    <2>1. b # res.file
      BY <1>1 DEF DoneIsSwapped
    <2>2. ~Expired(b)
      BY <1>1 DEF Expired
    <2>3. \A w \in Workers : Installs(w) => wk[w].src = res.file
      BY DEF Installs, SourceChanged
    <2>4. ~res'.here \/ (Revert(b) /\ res.file = a)
      BY <1>1, <1>3, <2>1, <2>2, <2>3, JobMoves
    <2>5. Revert(b) => res'.file = b /\ ed' = ed
      BY DEF Revert, WithFile, TypeOK
    <2> QED
      BY <2>1, <2>4, <2>5
  <1> QED
    BY <1>2, <1>3

-----------------------------------------------------------------------------
(* The parts, one by one *)

LEMMA NextEditsAgree ==
  ASSUME TypeOK, EditsAgree, [Next]_vars, stale' = {}
  PROVE  EditsAgree'
  <1> SUFFICES ASSUME NEW e \in Editors, ed'[e].pc = "read"
               PROVE  /\ ed'[e].op = "keep" => ed'[e].new = ed'[e].seen
                      /\ ed'[e].op \in {"link", "delete"} => ed'[e].new = NoFile
    BY DEF EditsAgree
  <1>1. CASE ed'[e] = ed[e]
    BY <1>1 DEF EditsAgree
  <1>2. CASE ed'[e] # ed[e]
    BY <1>2, EditMoves DEF NoEdit
  <1> QED
    BY <1>1, <1>2

\* A new file is a kept one, none, an edit's own upload, a swap's product or the
\* original of a swap.
LEMMA NewFile ==
  ASSUME TypeOK, LifeParts, [Next]_vars, stale' = {}, res'.file # res.file, res'.file # NoFile
  PROVE  /\ UNCHANGED <<store, pg>> /\ res'.here
         /\ \/ \E e \in Editors : /\ ed[e].pc = "read" /\ ed[e].op = "new"
                                  /\ ed'[e].pc # "read" /\ res'.file = ed[e].new
            \/ \E w \in Workers : /\ Installs(w) /\ wk[w].pc = "checked"
                                  /\ wk[w].lane = "normalize" /\ wk[w].src = res.file
                                  /\ res'.file = wk[w].out /\ purge[wk[w].out] = "no"
            \/ /\ Revert(res'.file) /\ job[res'.file].state = "done"
               /\ store[res'.file] = "ready" /\ (pg.pc # "idle" => purge[res'.file] = "no")
  <1>1. ASSUME NEW e \in Editors, ed[e].pc = "read", ed[e].op # "delete",
               ed[e].seen = res.file, res'.file = ed[e].new
        PROVE  ed[e].op = "new"
    BY <1>1 DEF LifeParts, EditsAgree, TypeOK
  <1>2. ASSUME NEW w \in Workers, wk[w].pc = "checked", wk[w].src = res.file
        PROVE  res.here
    BY <1>2 DEF LifeParts, CheckedIsStored, JobsAgree
  <1> QED
    BY <1>1, <1>2, FileMoves

LEMMA NextJobsAgree ==
  ASSUME TypeOK, LifeParts, [Next]_vars, stale' = {}
  PROVE  JobsAgree'
  <1>1. ~res'.here => res'.file = NoFile
    <2>1. CASE res' = res
      BY <2>1 DEF LifeParts, JobsAgree
    <2>2. CASE res'.file = res.file /\ res' # res
      BY <2>2, FileMoves DEF LifeParts, JobsAgree, CheckedIsStored
    <2>3. CASE res'.file # res.file
      BY <2>3, NewFile
    <2> QED
      BY <2>1, <2>2, <2>3
  <1>2. ASSUME NEW a \in Artifacts, job'[a].state \in {"none", "claimed"}
        PROVE  job'[a].product = NoFile
    <2>1. CASE job'[a] = job[a]
      BY <1>2, <2>1 DEF LifeParts, JobsAgree
    <2>2. CASE job'[a] # job[a]
      BY <1>2, <2>2, JobMoves DEF NoJob
    <2> QED
      BY <2>1, <2>2
  <1>3. ASSUME NEW a \in Fresh'
        PROVE  job'[a].state = "none" /\ purge'[a] = "no"
    <2>1. a \in Artifacts /\ a \in Fresh
      BY <1>3, StoreMoves DEF Fresh
    <2>2. /\ a # res.file /\ ~IsBuilt(a) /\ \A w \in Workers : wk[w].src # a
          /\ job[a].state = "none" /\ purge[a] = "no"
      BY <2>1, FreshIsUnnamed DEF LifeParts, JobsAgree
    <2>3. job'[a].state = "none"
      BY <2>1, <2>2, JobMoves DEF NoJob, Expired
    <2>4. purge'[a] = "no"
      BY <2>1, <2>2, PurgeMoves
    <2> QED
      BY <2>3, <2>4
  <1> QED
    BY <1>1, <1>2, <1>3 DEF JobsAgree

LEMMA NextChecked ==
  ASSUME TypeOK, LifeParts, [Next]_vars, stale' = {}
  PROVE  CheckedIsStored'
  <1> SUFFICES ASSUME NEW w \in Workers
               PROVE  /\ wk'[w].pc = "checked" => wk'[w].out # NoFile /\ store'[wk'[w].out] = "ready"
                      /\ wk'[w].pc # "idle" => wk'[w].src # NoFile
                      /\ wk'[w].pc \notin {"idle", "building"} => wk'[w].out # NoFile
    BY DEF CheckedIsStored
  <1>1. /\ wk[w].pc = "checked" => wk[w].out # NoFile /\ store[wk[w].out] = "ready"
        /\ wk[w].pc # "idle" => wk[w].src # NoFile
        /\ wk[w].pc \notin {"idle", "building"} => wk[w].out # NoFile
        /\ wk[w] \in Works(Known)
    BY DEF LifeParts, CheckedIsStored, TypeOK, Works
  <1>2. CASE wk'[w] = wk[w]
    <2>1. ASSUME wk[w].pc = "checked" PROVE store'[wk[w].out] = "ready"
      <3>1. wk[w].out \in Artifacts
        BY <1>1, <2>1 DEF Works, Known
      <3> QED
        BY <1>1, <2>1, <3>1, StoreMoves
    <2> QED
      BY <1>1, <1>2, <2>1
  <1>3. CASE wk'[w] # wk[w]
    <2>1. CASE wk'[w] = NoWork
      BY <2>1 DEF NoWork
    <2>2. CASE \/ Pending /\ wk'[w] = [pc |-> "building", lane |-> "normalize", src |-> res.file,
                                       out |-> repack.file]
               \/ /\ res.file # NoFile
                  /\ wk'[w] = [pc |-> "building", lane |-> "repack", src |-> res.file,
                               out |-> NoFile]
      BY <2>2 DEF Pending
    <2>3. CASE wk[w].pc = "building" /\ \E z \in Fresh : wk'[w] = [wk[w] EXCEPT !.pc = "built", !.out = z]
      BY <1>1, <2>3, FreshIsUnnamed DEF Works
    <2>4. CASE wk[w].pc = "building" /\ wk[w].out # NoFile /\ wk'[w] = [wk[w] EXCEPT !.pc = "built"]
      BY <1>1, <2>4 DEF Works
    <2>5. CASE /\ wk[w].pc \notin {"idle", "building"}
               /\ \E pc \in {"built", "checked", "discard", "done"} :
                    /\ wk'[w] = [wk[w] EXCEPT !.pc = pc]
                    /\ pc = "checked" => store[wk[w].out] = "ready" /\ store' = store
      BY <1>1, <2>5 DEF Works
    <2> QED
      BY <1>3, <2>1, <2>2, <2>3, <2>4, <2>5, WorkMoves
  <1> QED
    BY <1>2, <1>3

LEMMA NextDoneIsSwapped ==
  ASSUME TypeOK, LifeParts, [Next]_vars, stale' = {}
  PROVE  DoneIsSwapped'
  <1> SUFFICES ASSUME NEW a \in Artifacts, job'[a].state = "done" PROVE res'.file # a
    BY DEF DoneIsSwapped
  <1>0. a # NoFile
    BY ArtifactAssumption
  <1>1. CASE job'[a] = job[a]
    <2>1. res.file # a
      BY <1>1 DEF LifeParts, DoneIsSwapped
    <2>2. ASSUME NEW e \in Editors, ed[e].pc = "read", ed[e].op = "new" PROVE ed[e].new # a
      BY <1>1, <2>2 DEF LifeParts, UploadIsOwn
    <2>3. ASSUME NEW w \in Workers PROVE wk[w].out # a
      <3> SUFFICES ASSUME wk[w].out = a PROVE FALSE
        OBVIOUS
      <3>1. IsBuilt(a)
        BY <1>0, Origins
      <3> QED
        BY <1>1, <3>1 DEF LifeParts, BuiltIsProduct
    <2>4. ~Revert(a)
      BY <1>1 DEF Revert, TypeOK
    <2> QED
      BY <1>0, <2>1, <2>2, <2>3, <2>4, NewFile
  <1>2. CASE job'[a] # job[a]
    <2>1. PICK w \in Workers : Installs(w) /\ a = wk[w].src
      BY <1>2, JobMoves DEF NoJob
    <2> QED
      BY <2>1 DEF Installs, Complete, WithFile, Taken, SourceChanged, TypeOK
  <1> QED
    BY <1>1, <1>2

LEMMA NextBuiltIsProduct ==
  ASSUME TypeOK, LifeParts, [Next]_vars, stale' = {}
  PROVE  BuiltIsProduct'
  <1> SUFFICES ASSUME NEW a \in Artifacts, IsBuilt(a)'
               PROVE  /\ job'[a].state = "none"
                      /\ \A w \in Workers : wk'[w].pc # "idle" /\ wk'[w].lane = "normalize"
                                            => wk'[w].src # a
                      /\ a = res'.file => SwappedIn(a)'
    BY DEF BuiltIsProduct
  <1>0. a # NoFile
    BY ArtifactAssumption
  <1>1. CASE IsBuilt(a)
    <2>1. /\ job[a].state = "none"
          /\ \A w \in Workers : wk[w].pc # "idle" /\ wk[w].lane = "normalize" => wk[w].src # a
          /\ a = res.file => SwappedIn(a)
      BY <1>1 DEF LifeParts, BuiltIsProduct
    <2>2. ~(Pending /\ a = res.file)
      BY <1>0, <2>1 DEF Pending, SwappedIn, Products
    <2>3. \A w \in Workers : Installs(w) => wk[w].src # a
      BY <2>1 DEF Installs, Complete
    <2>4. job'[a].state = "none"
      <3>1. CASE job'[a] = job[a]
        BY <2>1, <3>1
      <3>2. CASE job'[a] # job[a]
        BY <2>1, <2>2, <2>3, <3>2, JobMoves DEF NoJob, Expired
      <3> QED
        BY <3>1, <3>2
    <2>5. ASSUME NEW w \in Workers, wk'[w].pc # "idle", wk'[w].lane = "normalize", wk'[w].src = a
          PROVE  FALSE
      <3>1. wk'[w] # wk[w]
        BY <2>1, <2>5
      <3>2. ASSUME NEW pc, wk'[w] = [wk[w] EXCEPT !.pc = pc] PROVE wk[w].pc = "idle"
        BY <2>1, <2>5, <3>2 DEF TypeOK
      <3>3. ASSUME NEW z, wk'[w] = [wk[w] EXCEPT !.pc = "built", !.out = z] PROVE wk[w].pc = "idle"
        BY <2>1, <2>5, <3>3 DEF TypeOK
      <3>4. /\ wk'[w] # NoWork
            /\ wk'[w] # [pc |-> "building", lane |-> "repack", src |-> res.file, out |-> NoFile]
        BY <2>5 DEF NoWork
      <3>5. ~(/\ Pending
              /\ wk'[w] = [pc |-> "building", lane |-> "normalize", src |-> res.file,
                           out |-> repack.file])
        BY <2>2, <2>5
      <3> QED
        BY <3>1, <3>2, <3>3, <3>4, <3>5, WorkMoves
    <2>6. ASSUME a = res'.file PROVE SwappedIn(a)'
      <3>1. res'.here
        BY <1>0, <2>6, NextJobsAgree DEF JobsAgree
      <3>2. CASE a = res.file
        BY <2>1, <2>6, <3>1, <3>2, SwapStays DEF LifeParts
      <3>3. CASE a # res.file
        <4>1. \A e \in Editors : ed[e].pc = "read" /\ ed[e].op = "new" => ed[e].new # a
          BY <1>1 DEF LifeParts, UploadIsOwn
        <4>2. ~Revert(a)
          BY <2>1 DEF Revert
        <4>3. PICK w \in Workers : Installs(w) /\ wk[w].out = a /\ wk[w].src = res.file
          BY <1>0, <2>6, <3>3, <4>1, <4>2, NewFile
        <4>4. res.file \in Artifacts
          BY <4>3 DEF LifeParts, CheckedIsStored, Installs, Complete, TypeOK, Known
        <4>5. job' = [job EXCEPT ![res.file].state = "done", ![res.file].product = a]
          BY <4>3 DEF Installs, Complete, Swapped
        <4>6. job'[res.file].state = "done" /\ job'[res.file].product = a
          BY <4>4, <4>5 DEF TypeOK
        <4> QED
          BY <4>4, <4>6 DEF SwappedIn
      <3> QED
        BY <3>2, <3>3
    <2> QED
      BY <2>4, <2>5, <2>6
  <1>2. CASE ~IsBuilt(a)
    <2>1. PICK v \in Workers : Build(v) /\ a \in Fresh
      BY <1>2, BuiltBefore DEF LifeParts
    <2>2. /\ UNCHANGED <<res, job>> /\ job[a].state = "none" /\ a # res.file
          /\ \A w \in Workers : wk[w].src # a
      BY <2>1, FreshIsUnnamed DEF Build, LifeParts, JobsAgree
    <2>3. ASSUME NEW w \in Workers PROVE wk'[w].src = wk[w].src
      <3>1. wk[v] \in Works(Known)
        BY DEF TypeOK, Works
      <3>2. w # v => wk'[w] = wk[w]
        BY <2>1 DEF Build, Work, TypeOK
      <3>3. \/ wk'[v] = [wk[v] EXCEPT !.pc = "built"]
            \/ \E z \in Fresh : wk'[v] = [wk[v] EXCEPT !.pc = "built", !.out = z]
        BY <2>1 DEF Build, Work, TypeOK
      <3>4. wk'[v].src = wk[v].src
        BY <3>1, <3>3 DEF Works
      <3> QED
        BY <3>2, <3>4
    <2> QED
      BY <2>2, <2>3
  <1> QED
    BY <1>1, <1>2

LEMMA NextUploadIsOwn ==
  ASSUME TypeOK, LifeParts, [Next]_vars, stale' = {}
  PROVE  UploadIsOwn'
  <1> SUFFICES ASSUME NEW e \in Editors, NEW f, f = ed'[e].new,
                      ed'[e].pc = "read", ed'[e].op = "new"
               PROVE  /\ f \in Artifacts /\ store'[f] = "ready" /\ purge'[f] = "no"
                      /\ job'[f].state = "none" /\ f # res'.file /\ ~IsBuilt(f)'
                      /\ \A d \in Editors : ed'[d].seen # f /\ (d # e => ed'[d].new # f)
    BY DEF UploadIsOwn
  <1>1. CASE ed'[e] # ed[e]
    <2>1. /\ ed'[e].seen = res.file /\ f \in Fresh /\ store'[f] = "ready"
          /\ UNCHANGED <<res, repack, job, purge, wk>>
          /\ \A d \in Editors \ {e} : ed'[d] = ed[d]
      BY <1>1, EditMoves DEF NoEdit
    <2>2. Built' = Built
      BY <2>1 DEF Built
    <2>3. /\ f \in Artifacts /\ ~IsBuilt(f)' /\ f # res.file
          /\ \A d \in Editors : ed[d].seen # f /\ ed[d].new # f
          /\ job[f].state = "none" /\ purge[f] = "no"
      BY <2>1, <2>2, FreshIsUnnamed DEF IsBuilt, LifeParts, JobsAgree
    <2> QED
      BY <2>1, <2>3
  <1>2. CASE ed'[e] = ed[e]
    <2>1. /\ f \in Artifacts /\ store[f] = "ready" /\ purge[f] = "no" /\ job[f].state = "none"
          /\ f # res.file /\ ~IsBuilt(f) /\ f # NoFile /\ f \notin Fresh
          /\ \A d \in Editors : ed[d].seen # f /\ (d # e => ed[d].new # f)
      BY <1>2, ArtifactAssumption DEF LifeParts, UploadIsOwn, Fresh
    <2>2. store'[f] = "ready"
      BY <2>1, StoreMoves DEF LifeParts, PurgeIsQueued
    <2>3. purge'[f] = "no"
      BY <2>1, PurgeMoves
    <2>4. job'[f].state = "none"
      <3>1. \A w \in Workers : Installs(w) => wk[w].src # f
        BY <2>1 DEF Installs, SourceChanged
      <3> QED
        BY <2>1, <3>1, JobMoves DEF NoJob, Expired
    <2>5. f # res'.file
      <3>1. \A w \in Workers : wk[w].out # f
        BY <2>1, Origins
      <3>2. ~Revert(f)
        BY <2>1 DEF Revert
      <3>3. \A d \in Editors : ed[d].new = f => ed'[d].pc = "read"
        BY <1>2, <2>1
      <3> QED
        BY <2>1, <3>1, <3>2, <3>3, NewFile
    <2>6. ~IsBuilt(f)'
      BY <2>1, BuiltBefore DEF LifeParts
    <2>7. ASSUME NEW d \in Editors PROVE ed'[d].seen # f /\ (d # e => ed'[d].new # f)
      <3>1. CASE ed'[d] = ed[d]
        BY <2>1, <3>1
      <3>2. CASE ed'[d] # ed[d]
        <4>1. d # e
          BY <1>2, <3>2
        <4>2. ed'[d].op \in {"keep", "new", "link", "delete"}
          BY NextType DEF TypeOK
        <4> QED
          BY <2>1, <3>2, <4>1, <4>2, EditMoves DEF NoEdit
      <3> QED
        BY <3>1, <3>2
    <2> QED
      BY <2>1, <2>2, <2>3, <2>4, <2>5, <2>6, <2>7
  <1> QED
    BY <1>1, <1>2

\* Nothing that installs or attaches is left of what is about to be deleted.
LEMMA GoneStaysAway ==
  ASSUME TypeOK, LifeParts, NEW e \in Editors, ed[e].pc = "orphan",
         NEW w \in Workers, wk[w].pc = "checked", wk[w].src = res.file
  PROVE  wk[w].out # ed[e].seen
  <1> SUFFICES ASSUME wk[w].out = ed[e].seen PROVE FALSE
    OBVIOUS
  <1>1. res.here /\ wk[w].out # NoFile /\ res.file # NoFile
    BY DEF LifeParts, CheckedIsStored, JobsAgree
  <1>2. PICK b \in Artifacts : job[b].state = "done" /\ job[b].product = wk[w].out
    BY <1>1, Origins DEF LifeParts, OrphanIsGone, SwappedIn
  <1>3. /\ <<b, job[b].product>> \in Built /\ <<wk[w].src, wk[w].out>> \in Built
    BY Origins
  <1>4. b = wk[w].src
    <2>1. /\ <<b, job[b].product>>[2] = <<wk[w].src, wk[w].out>>[2]
          /\ <<b, job[b].product>>[2] # NoFile
      BY <1>1, <1>2
    <2>2. <<b, job[b].product>>[1] = <<wk[w].src, wk[w].out>>[1]
      BY <1>3, <2>1 DEF LifeParts, OneSource
    <2> QED
      BY <2>2
  <1> QED
    BY <1>2, <1>4 DEF LifeParts, DoneIsSwapped

LEMMA NextOrphanIsGone ==
  ASSUME TypeOK, LifeParts, [Next]_vars, stale' = {}
  PROVE  OrphanIsGone'
  <1> SUFFICES ASSUME NEW e \in Editors, NEW f, f = ed'[e].seen, ed'[e].pc = "orphan"
               PROVE  /\ f \in Artifacts /\ f # res'.file /\ f # repack'.file
                      /\ job'[f].state # "done"
                      /\ IsBuilt(f)' => SwappedIn(f)' \/ ~res'.here
    BY DEF OrphanIsGone
  <1>1. CASE ed'[e] # ed[e]
    <2>1. /\ f = ed[e].seen /\ f # NoFile /\ ed[e].new # f /\ f = res.file
          /\ SaveResource(e) \/ DeleteResource(e)
      BY <1>1, EditMoves DEF NoEdit
    <2>2. f \in Artifacts /\ f \notin Fresh
      BY <2>1, FreshIsUnnamed DEF TypeOK, Known
    <2>3. f # res'.file
      BY <2>1 DEF SaveResource, DeleteResource, WithFile, TypeOK
    <2>4. repack' = NoRepack
      BY <2>1 DEF SaveResource, DeleteResource, WithFile
    <2>5. job[f].state # "done"
      BY <2>1, <2>2 DEF LifeParts, DoneIsSwapped
    <2>6. job'[f].state # "done"
      BY <2>1, <2>2, <2>5 DEF SaveResource, DeleteResource, NoJob, TypeOK
    <2>7. ASSUME IsBuilt(f)' PROVE SwappedIn(f)' \/ ~res'.here
      <3>1. SwappedIn(f)
        BY <2>1, <2>2, <2>7, BuiltBefore DEF LifeParts, BuiltIsProduct
      <3> QED
        BY <1>1, <2>2, <3>1, SwapStays DEF LifeParts
    <2> QED
      BY <2>1, <2>2, <2>3, <2>4, <2>6, <2>7 DEF NoRepack
  <1>2. CASE ed'[e] = ed[e]
    <2>1. /\ f = ed[e].seen /\ ed[e].pc = "orphan"
          /\ f \in Artifacts /\ f # res.file /\ f # repack.file
          /\ job[f].state # "done"
          /\ IsBuilt(f) => SwappedIn(f) \/ ~res.here
      BY <1>2 DEF LifeParts, OrphanIsGone
    <2>2. f # NoFile /\ f \notin Fresh
      BY <2>1, ArtifactAssumption, FreshIsUnnamed
    <2>3. f # res'.file
      <3>1. \A d \in Editors : ed[d].pc = "read" /\ ed[d].op = "new" => ed[d].new # f
        BY <2>1 DEF LifeParts, UploadIsOwn
      <3>2. ~Revert(f)
        BY <2>1 DEF Revert
      <3>3. \A w \in Workers : wk[w].pc = "checked" /\ wk[w].src = res.file => wk[w].out # f
        BY <2>1, GoneStaysAway
      <3> QED
        BY <2>1, <2>2, <3>1, <3>2, <3>3, NewFile
    <2>4. f # repack'.file
      <3>1. \A w \in Workers : Attachable(w) => wk[w].src = res.file
        BY DEF Attachable, SourceChanged
      <3> QED
        BY <2>1, <2>2, <3>1, GoneStaysAway, RepackMoves DEF NoRepack
    <2>5. job'[f].state # "done"
      <3>1. \A w \in Workers : Installs(w) => wk[w].src # f
        BY <2>1 DEF Installs, SourceChanged
      <3> QED
        BY <2>1, <3>1, JobMoves DEF NoJob
    <2>6. ASSUME IsBuilt(f)' PROVE SwappedIn(f)' \/ ~res'.here
      <3>1. SwappedIn(f) \/ ~res.here
        BY <2>1, <2>2, <2>6, BuiltBefore DEF LifeParts
      <3>2. CASE ~res.here
        <4>1. res.file = NoFile
          BY <3>2 DEF LifeParts, JobsAgree
        <4>2. \A w \in Workers : wk[w].pc = "checked" => wk[w].src # res.file
          BY <4>1 DEF LifeParts, CheckedIsStored
        <4>3. \A d \in Editors : ~SaveResource(d)
          BY <3>2 DEF SaveResource
        <4>4. \A a \in Artifacts : ~Revert(a)
          BY <3>2 DEF Revert
        <4> QED
          BY <3>2, <4>2, <4>3, <4>4, FileMoves
      <3>3. CASE SwappedIn(f)
        BY <2>1, <3>3, SwapStays DEF LifeParts
      <3> QED
        BY <3>1, <3>2, <3>3
    <2> QED
      BY <2>1, <2>3, <2>4, <2>5, <2>6
  <1> QED
    BY <1>1, <1>2

\* One run of the purge loop: nothing joins what it deletes.
LEMMA RunMoves ==
  ASSUME TypeOK, [Next]_vars, pg' # pg
  PROVE  \/ pg' = NoPurge
         \/ /\ PurgeClean /\ pg.pc = "idle" /\ pg'.pc = "clean" /\ pg'.batch = pg.batch
            /\ UNCHANGED <<res, repack, store>>
            /\ res.file # NoFile => purge'[res.file] = "no"
         \/ /\ pg.pc = "clean" /\ pg'.pc = "batch" /\ \A a \in pg'.batch : purge[a] = "due"
            /\ UNCHANGED <<res, repack, store, purge>>
         \/ \E a \in pg.batch :
              /\ pg.pc = "batch" /\ pg'.pc = "drop" /\ pg'.batch = pg.batch \ {a}
              /\ pg'.last = a /\ store'[a] = "deleted" /\ a \in Artifacts
              /\ UNCHANGED <<res, repack, purge>>
         \/ /\ pg.pc = "batch" /\ pg'.pc = "batch" /\ pg'.batch \subseteq pg.batch
            /\ UNCHANGED <<res, repack, purge>>
         \/ /\ pg.pc = "drop" /\ pg'.pc = "batch" /\ pg'.batch = pg.batch
            /\ purge' = [purge EXCEPT ![pg.last] = "no"]
            /\ UNCHANGED <<res, repack, store>>
  <1>1. CASE PurgeClean
    <2>1. res.file # NoFile => res.file \in Artifacts
      BY DEF TypeOK, Known
    <2> QED
      BY <1>1, <2>1 DEF PurgeClean, Reinstated, TypeOK
  <1>2. CASE PurgeSelect
    <2>1. PICK B \in SUBSET {a \in Artifacts : purge[a] = "due"} :
            pg' = [pg EXCEPT !.pc = "batch", !.batch = B]
      BY <1>2 DEF PurgeSelect
    <2>2. pg'.pc = "batch" /\ pg'.batch = B
      BY <2>1 DEF TypeOK
    <2> QED
      BY <1>2, <2>1, <2>2 DEF PurgeSelect
  <1>3. CASE \E a \in Artifacts : PurgeDelete(a)
    <2>1. PICK a \in Artifacts : PurgeDelete(a)
      BY <1>3
    <2>2. a \in pg.batch /\ pg.pc = "batch" /\ UNCHANGED <<res, repack, purge>>
      BY <2>1 DEF PurgeDelete
    <2>3. CASE /\ store' = [store EXCEPT ![a] = "deleted"]
               /\ pg' = [pg EXCEPT !.pc = "drop", !.batch = @ \ {a}, !.last = a]
      <3>1. /\ pg'.pc = "drop" /\ pg'.batch = pg.batch \ {a} /\ pg'.last = a
            /\ store'[a] = "deleted"
        BY <2>3 DEF TypeOK
      <3> QED
        BY <2>2, <3>1
    <2>4. CASE pg' = [pg EXCEPT !.batch = @ \ {a}]
      <3>1. pg'.pc = pg.pc /\ pg'.batch = pg.batch \ {a}
        BY <2>4 DEF TypeOK
      <3> QED
        BY <2>2, <3>1
    <2> QED
      BY <2>1, <2>3, <2>4 DEF PurgeDelete
  <1>4. CASE PurgeDrop
    BY <1>4 DEF PurgeDrop, TypeOK
  <1>5. CASE PurgeEnds
    BY <1>5 DEF PurgeEnds
  <1>6. CASE ~(PurgeClean \/ PurgeSelect \/ PurgeDrop \/ PurgeEnds
               \/ \E a \in Artifacts : PurgeDelete(a))
    BY <1>6 DEF Next, Edit, Forge, Purge, ReadResource, SaveResource, DeleteResource,
       EditFails, DeleteOrphan, Claim, Describe, Fail, Build, CheckComplete, Complete,
       Discard, SendAgain, Answered, StartRepack, CheckAttach, Attach, FallsDue, Revert,
       Withdraw, vars
  <1> QED
    BY <1>1, <1>2, <1>3, <1>4, <1>5, <1>6

LEMMA NextPurgeIsQueued ==
  ASSUME TypeOK, LifeParts, [Next]_vars, stale' = {}
  PROVE  PurgeIsQueued'
  <1>0. /\ repack.file # NoFile => purge[repack.file] = "no"
        /\ pg.pc = "idle" => pg.batch = {}
        /\ pg.pc # "idle" /\ res.file # NoFile => purge[res.file] = "no"
        /\ \A a \in pg.batch : purge[a] # "no"
        /\ pg.pc = "drop" => pg.last \notin pg.batch /\ pg.last \in Artifacts
                             /\ store[pg.last] = "deleted"
        /\ pg.batch \subseteq Artifacts /\ pg'.batch \subseteq Artifacts
        /\ res'.file # NoFile => res'.file \in Artifacts
        /\ repack'.file # NoFile => repack'.file \in Artifacts
    BY NextType DEF LifeParts, PurgeIsQueued, TypeOK, Known
  <1>1. repack'.file # NoFile => purge'[repack'.file] = "no"
    <2> SUFFICES ASSUME NEW a, a = repack'.file, a # NoFile PROVE purge'[a] = "no"
      OBVIOUS
    <2>1. purge[a] = "no"
      BY <1>0, RepackMoves DEF Attachable, NoRepack
    <2> QED
      BY <1>0, <2>1, PurgeMoves
  <1>2. pg'.pc = "idle" => pg'.batch = {}
    BY <1>0, RunMoves DEF NoPurge
  <1>3. pg'.pc # "idle" /\ res'.file # NoFile => purge'[res'.file] = "no"
    <2> SUFFICES ASSUME NEW a, a = res'.file, a # NoFile, pg'.pc # "idle"
                 PROVE  purge'[a] = "no"
      OBVIOUS
    <2>1. CASE pg.pc = "idle"
      BY <2>1, RunMoves DEF NoPurge
    <2>2. CASE pg.pc # "idle"
      <3>1. purge[a] = "no"
        <4>1. CASE a = res.file
          BY <1>0, <2>2, <4>1
        <4>2. CASE a # res.file
          <5>1. \A e \in Editors : ed[e].pc = "read" /\ ed[e].op = "new" => purge[ed[e].new] = "no"
            BY DEF LifeParts, UploadIsOwn
          <5> QED
            BY <2>2, <4>2, <5>1, NewFile
        <4> QED
          BY <4>1, <4>2
      <3> QED
        BY <1>0, <2>2, <3>1, PurgeMoves
    <2> QED
      BY <2>1, <2>2
  <1>4. ASSUME NEW a \in pg'.batch PROVE purge'[a] # "no"
    <2>1. purge[a] # "no"
      BY <1>0, <1>4, RunMoves DEF NoPurge
    <2>2. ASSUME purge'[a] = "no" PROVE FALSE
      <3>1. a \in Artifacts
        BY <1>0, <1>4
      <3>2. CASE pg.pc = "idle"
        BY <1>0, <1>4, <3>2, RunMoves DEF NoPurge
      <3>3. CASE pg.pc = "drop" /\ a = pg.last
        <4>1. a \notin pg.batch
          BY <1>0, <3>3
        <4> QED
          BY <1>4, <3>3, <4>1, RunMoves DEF NoPurge
      <3> QED
        BY <2>1, <2>2, <3>1, <3>2, <3>3, PurgeMoves
    <2> QED
      BY <2>2
  <1>5. pg'.pc = "drop" => pg'.last \notin pg'.batch /\ pg'.last \in Artifacts
                           /\ store'[pg'.last] = "deleted"
    <2>1. CASE pg' = pg
      BY <1>0, <2>1, StoreMoves
    <2>2. CASE pg' # pg
      BY <2>2, RunMoves DEF NoPurge
    <2> QED
      BY <2>1, <2>2
  <1> QED
    BY <1>1, <1>2, <1>3, <1>4, <1>5 DEF PurgeIsQueued

LEMMA NextOffered ==
  ASSUME TypeOK, LifeParts, [Next]_vars, stale' = {},
         res.file # NoFile => store[res.file] = "ready",
         repack.file # NoFile => store[repack.file] = "ready"
  PROVE  /\ res'.file # NoFile => store'[res'.file] = "ready"
         /\ repack'.file # NoFile => store'[repack'.file] = "ready"
  <1>0. /\ res.file # NoFile => res.file \in Artifacts
        /\ repack.file # NoFile => repack.file \in Artifacts
    BY DEF TypeOK, Known
  <1>1. ASSUME res'.file # NoFile PROVE store'[res'.file] = "ready"
    <2>1. CASE res'.file = res.file
      <3>1. \A e \in Editors : ed[e].pc = "orphan" => ed[e].seen # res.file
        BY DEF LifeParts, OrphanIsGone
      <3>2. pg.pc = "batch" => res.file \notin pg.batch
        BY <1>1, <2>1 DEF LifeParts, PurgeIsQueued
      <3> QED
        BY <1>0, <1>1, <2>1, <3>1, <3>2, StoreMoves
    <2>2. CASE res'.file # res.file
      <3>1. \A e \in Editors : ed[e].pc = "read" /\ ed[e].op = "new" => store[ed[e].new] = "ready"
        BY DEF LifeParts, UploadIsOwn
      <3>2. \A w \in Workers : wk[w].pc = "checked" => store[wk[w].out] = "ready"
        BY DEF LifeParts, CheckedIsStored
      <3> QED
        BY <1>1, <2>2, <3>1, <3>2, NewFile
    <2> QED
      BY <2>1, <2>2
  <1>2. ASSUME repack'.file # NoFile PROVE store'[repack'.file] = "ready"
    <2>1. CASE repack' = repack
      <3>1. \A e \in Editors : ed[e].pc = "orphan" => ed[e].seen # repack.file
        BY DEF LifeParts, OrphanIsGone
      <3>2. repack.file \notin pg.batch
        BY <1>2, <2>1 DEF LifeParts, PurgeIsQueued
      <3> QED
        BY <1>0, <1>2, <2>1, <3>1, <3>2, StoreMoves
    <2>2. CASE repack' # repack
      BY <1>2, <2>2, RepackMoves DEF NoRepack, LifeParts, CheckedIsStored
    <2> QED
      BY <2>1, <2>2
  <1> QED
    BY <1>1, <1>2

LEMMA NextRetired ==
  ASSUME TypeOK, LifeParts, [Next]_vars, stale' = {}, BuiltIsProduct',
         \A a \in Artifacts : job[a].state = "done" => store[a] = "deleted" \/ purge[a] # "no"
  PROVE  \A a \in Artifacts :
           /\ job'[a].state # "none" => a \notin Products'
           /\ job'[a].state = "done" => store'[a] = "deleted" \/ purge'[a] # "no"
  <1> SUFFICES ASSUME NEW a \in Artifacts
               PROVE  /\ job'[a].state # "none" => a \notin Products'
                      /\ job'[a].state = "done" => store'[a] = "deleted" \/ purge'[a] # "no"
    OBVIOUS
  <1>1. job'[a].state # "none" => a \notin Products'
    <2> SUFFICES ASSUME NEW b \in Artifacts, job'[b].product = a, a # NoFile
                 PROVE  job'[a].state = "none"
      BY DEF Products
    <2>1. <<b, job'[b].product>> \in Built' /\ <<b, job'[b].product>>[2] = a
      BY DEF Built
    <2>2. IsBuilt(a)'
      BY <2>1 DEF IsBuilt
    <2> QED
      BY <2>2 DEF BuiltIsProduct
  <1>2. ASSUME job'[a].state = "done" PROVE store'[a] = "deleted" \/ purge'[a] # "no"
    <2>1. CASE job'[a] = job[a]
      <3>1. store[a] = "deleted" \/ purge[a] # "no"
        BY <1>2, <2>1
      <3>2. store[a] = "deleted" => store'[a] = "deleted"
        BY StoreMoves
      <3>3. a # res.file
        BY <1>2, <2>1 DEF LifeParts, DoneIsSwapped
      <3>4. pg.pc = "drop" => store[pg.last] = "deleted"
        BY DEF LifeParts, PurgeIsQueued
      <3> QED
        BY <3>1, <3>2, <3>3, <3>4, PurgeMoves
    <2>2. CASE job'[a] # job[a]
      <3>1. PICK w \in Workers : Installs(w) /\ a = wk[w].src
        BY <1>2, <2>2, JobMoves DEF NoJob
      <3>2. purge' = Retired(a, Queue(Dropped(wk[w].out)))
        BY <3>1 DEF Installs, Complete
      <3> QED
        BY <3>2 DEF Retired, Queue
    <2> QED
      BY <2>1, <2>2
  <1> QED
    BY <1>1, <1>2

LEMMA NextLife == TypeOK /\ LifeInv /\ [Next]_vars => LifeInv'
  <1> SUFFICES ASSUME TypeOK, LifeInv, [Next]_vars, stale' = {}
               PROVE  (LifeParts /\ OfferedIsStored /\ OriginalIsRetired)'
    BY DEF LifeInv
  <1>1. LifeParts /\ OfferedIsStored /\ OriginalIsRetired /\ stale = {}
    BY StaleGrows DEF LifeInv
  <1>2. LifeParts'
    <2>1. OneSource' /\ RepackFollowsFile'
      BY <1>1, NextOneSource, NextRepack DEF LifeParts
    <2>2. BuiltIsProduct' /\ UploadIsOwn'
      BY <1>1, NextBuiltIsProduct, NextUploadIsOwn
    <2>3. EditsAgree' /\ OrphanIsGone'
      BY <1>1, NextEditsAgree, NextOrphanIsGone DEF LifeParts
    <2>4. PurgeIsQueued' /\ CheckedIsStored'
      BY <1>1, NextPurgeIsQueued, NextChecked
    <2>5. JobsAgree' /\ DoneIsSwapped'
      BY <1>1, NextJobsAgree, NextDoneIsSwapped
    <2> QED
      BY <2>1, <2>2, <2>3, <2>4, <2>5 DEF LifeParts
  <1>3. OfferedIsStored'
    BY <1>1, NextOffered DEF OfferedIsStored
  <1>4. OriginalIsRetired'
    BY <1>1, <1>2, NextRetired DEF OriginalIsRetired, LifeParts
  <1> QED
    BY <1>2, <1>3, <1>4

LEMMA InitLife == Init => LifeInv
  <1> SUFFICES ASSUME Init PROVE LifeParts /\ OfferedIsStored /\ OriginalIsRetired
    BY DEF LifeInv
  <1>1. PICK a \in Artifacts :
          /\ res = [here |-> TRUE, file |-> a]
          /\ store = [b \in Artifacts |-> IF b = a THEN "ready" ELSE "absent"]
    BY DEF Init
  <1>2. /\ repack = NoRepack /\ pg = NoPurge
        /\ \A b \in Artifacts : job[b] = NoJob /\ purge[b] = "no"
        /\ \A e \in Editors : ed[e] = NoEdit
        /\ \A w \in Workers : wk[w] = NoWork
    BY DEF Init
  <1>3. \A p \in Built : p[2] = NoFile
    BY <1>2 DEF Built, NoRepack, NoJob, NoWork
  <1>4. OneSource /\ BuiltIsProduct
    BY <1>3 DEF OneSource, BuiltIsProduct, IsBuilt
  <1>5. UploadIsOwn /\ EditsAgree /\ OrphanIsGone
    BY <1>2 DEF UploadIsOwn, EditsAgree, OrphanIsGone, NoEdit
  <1>6. PurgeIsQueued /\ CheckedIsStored
    BY <1>1, <1>2 DEF PurgeIsQueued, CheckedIsStored, NoRepack, NoPurge, NoWork
  <1>7. JobsAgree /\ DoneIsSwapped /\ RepackFollowsFile
    BY <1>1, <1>2, InitRepack DEF JobsAgree, DoneIsSwapped, NoJob, Fresh
  <1>8. OfferedIsStored /\ OriginalIsRetired
    BY <1>1, <1>2 DEF OfferedIsStored, OriginalIsRetired, NoRepack, NoJob, Products
  <1> QED
    BY <1>4, <1>5, <1>6, <1>7, <1>8 DEF LifeParts

\* Until a window is hit, edits, the purge loop and its queue never take the
\* current file or the current repack away.
THEOREM OfferedStaysStored == Spec => []OfferedIsStored
  <1>1. Init => TypeOK /\ LifeInv
    BY InitType, InitLife
  <1>2. TypeOK /\ LifeInv /\ [Next]_vars => (TypeOK /\ LifeInv)'
    BY NextType, NextLife
  <1>3. LifeInv => OfferedIsStored
    BY DEF LifeInv, OfferedIsStored
  <1> QED
    BY <1>1, <1>2, <1>3, PTL DEF Spec

\* Nor does a product go through the forge again, or an original go astray.
THEOREM OriginalsAreRetired == Spec => []OriginalIsRetired
  <1>1. Init => TypeOK /\ LifeInv
    BY InitType, InitLife
  <1>2. TypeOK /\ LifeInv /\ [Next]_vars => (TypeOK /\ LifeInv)'
    BY NextType, NextLife
  <1>3. LifeInv => OriginalIsRetired
    BY DEF LifeInv, OriginalIsRetired
  <1> QED
    BY <1>1, <1>2, <1>3, PTL DEF Spec

\* The record of a swap is final, until the operator reverts it or the resource
\* goes.
THEOREM SwapsAreFinal == Spec => DoneIsFinal
  <1>1. Init => TypeOK /\ LifeInv
    BY InitType, InitLife
  <1>2. TypeOK /\ LifeInv /\ [Next]_vars => (TypeOK /\ LifeInv)'
    BY NextType, NextLife
  <1>3. TypeOK /\ LifeInv /\ [Next]_vars
        => \A a \in Artifacts :
             stale' = {} /\ job[a].state = "done" /\ res'.here
             => job'[a].product = job[a].product
                /\ (job'[a].state = "done" \/ res'.file = a)
    <2> SUFFICES ASSUME TypeOK, LifeInv, [Next]_vars, NEW a \in Artifacts, stale' = {},
                        job[a].state = "done", res'.here, job'[a] # job[a]
                 PROVE  job'[a].product = job[a].product /\ res'.file = a
      OBVIOUS
    <2>1. a # res.file
      BY StaleGrows DEF LifeInv, LifeParts, DoneIsSwapped
    <2>2. \A w \in Workers : Installs(w) => wk[w].src # a
      BY <2>1 DEF Installs, SourceChanged
    <2>3. Revert(a) => res'.file = a
      BY DEF Revert, WithFile, TypeOK
    <2> QED
      BY <2>1, <2>2, <2>3, JobMoves DEF Expired
  <1> QED
    BY <1>1, <1>2, <1>3, PTL DEF Spec, DoneIsFinal
=============================================================================
