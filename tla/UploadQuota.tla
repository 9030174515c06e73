------------------------------ MODULE UploadQuota ------------------------------
(***************************************************************************)
(* Upload sessions and a reader's daily quotas:                            *)
(* internal/common/upload/service.go and handler.go, and the midnight job  *)
(* of internal/infrastructure/cron.                                        *)
(*                                                                         *)
(* The artifact service stores a file before this site charges it; the     *)
(* charge is kept to one per file by a mark in Redis.  A complete may be   *)
(* sent again at any time, calls run at once, midnight falls between any   *)
(* two steps, and Redis, the database and the artifact service may fail.   *)
(*                                                                         *)
(* Abstractions.  One reader of a limited tier.  A failed call has no      *)
(* effect where it failed.  Publishing is in ArtifactLifecycle; here it    *)
(* only puts a file in use.  Resume changes nothing here.                  *)
(* History variables: charged, today, kept, strays.                        *)
(***************************************************************************)
EXTENDS Naturals, FiniteSets, FiniteSetsExt

CONSTANTS
  Files,      \* upload sessions the reader may open
  SizeOf,     \* [Files -> size]
  Limit,      \* tier.DailyLimit
  ImageLimit, \* dailyImageLimit
  Calls,      \* requests that may run at once
  MaxStrays   \* bound: reservations of an earlier day given back

VARIABLES
  file,     \* external: none, open, stored or deleted
  owned,    \* upload:owner:<uuid> names the reader
  marked,   \* upload:complete:<uuid>: none, set today, or set before midnight
  inUse,    \* a resource names the file
  used,     \* user.daily_upload_size
  images,   \* user.daily_image_count
  call,     \* what a request is at
  charged,  \* charges of a file within the life of its mark
  today,    \* charges of a file since midnight
  kept,     \* images stored of the ones reserved since midnight
  strays

fileVars == <<file, owned, marked, inUse, used, charged, today>>
imageVars == <<images, kept, strays>>
vars == <<fileVars, imageVars, call>>

NoCall == [at |-> "idle", on |-> 0]
On(c) == call[c].on
At(c, step) == call[c].at = step
GoTo(c, step) == call' = [call EXCEPT ![c].at = step]
End(c) == call' = [call EXCEPT ![c] = NoCall]
Enter(c, step, f) == call[c] = NoCall /\ call' = [call EXCEPT ![c] = [at |-> step, on |-> f]]

-----------------------------------------------------------------------------
(* Init: checked against the quota, and withdrawn if no owner is recorded. *)

InitUpload(f, result) ==
  /\ file[f] = "none" /\ used + SizeOf[f] <= Limit
  /\ file' = [file EXCEPT ![f] = IF result = "withdrawn" THEN "deleted" ELSE "open"]
  /\ owned' = [owned EXCEPT ![f] = result = "owned"]
  /\ UNCHANGED <<marked, inUse, used, charged, today, imageVars, call>>

-----------------------------------------------------------------------------
(* Complete. *)

\* RequireOwner and the artifact service, which completes an upload again without
\* complaint.
Complete(c, f) ==
  /\ owned[f] /\ file[f] \in {"open", "stored"} /\ Enter(c, "stored", f)
  /\ file' = [file EXCEPT ![f] = "stored"]
  /\ UNCHANGED <<owned, marked, inUse, used, charged, today, imageVars>>

\* Mutant of MarkCompleteOnce: SET without NX.
MarkCompleteAgain(c) ==
  /\ At(c, "stored")
  /\ marked' = [marked EXCEPT ![On(c)] = "today"] /\ GoTo(c, "marked")
  /\ UNCHANGED <<file, owned, inUse, used, charged, today, imageVars>>

MarkCompleteOnce(c) ==
  /\ At(c, "stored")
  /\ IF marked[On(c)] = "none"
     THEN marked' = [marked EXCEPT ![On(c)] = "today"] /\ GoTo(c, "marked")
     ELSE UNCHANGED marked /\ End(c)
  /\ UNCHANGED <<file, owned, inUse, used, charged, today, imageVars>>

Deduct(c) ==
  /\ At(c, "marked") /\ used + SizeOf[On(c)] <= Limit
  /\ used' = used + SizeOf[On(c)]
  /\ charged' = [charged EXCEPT ![On(c)] = @ + 1]
  /\ today' = [today EXCEPT ![On(c)] = @ + 1]
  /\ End(c)
  /\ UNCHANGED <<file, owned, marked, inUse, imageVars>>

\* Over the quota, or the update failed and the upload succeeds uncharged.
DeductNot(c, why) ==
  /\ At(c, "marked")
  /\ why = "over" => used + SizeOf[On(c)] > Limit
  /\ GoTo(c, why)
  /\ UNCHANGED <<fileVars, imageVars>>

\* unmarkComplete, which may fail.
UnmarkComplete(c, lost) ==
  /\ At(c, "over") \/ At(c, "failed")
  /\ marked' = IF lost THEN marked ELSE [marked EXCEPT ![On(c)] = "none"]
  /\ IF At(c, "over") THEN GoTo(c, "unmarked") ELSE End(c)
  /\ UNCHANGED <<file, owned, inUse, used, charged, today, imageVars>>

DeleteOver(c) ==
  /\ At(c, "unmarked")
  /\ file' = [file EXCEPT ![On(c)] = "deleted"] /\ End(c)
  /\ UNCHANGED <<owned, marked, inUse, used, charged, today, imageVars>>

-----------------------------------------------------------------------------
(* Abort, and the resource that may be published meanwhile. *)

Abort(c, f) ==
  /\ owned[f] /\ ~inUse[f] /\ Enter(c, "aborting", f)
  /\ UNCHANGED <<fileVars, imageVars>>

DeleteAborted(c) ==
  /\ At(c, "aborting")
  /\ file' = [file EXCEPT ![On(c)] = "deleted"]
  /\ owned' = [owned EXCEPT ![On(c)] = FALSE] /\ End(c)
  /\ UNCHANGED <<marked, inUse, used, charged, today, imageVars>>

Publish(f) ==
  /\ file[f] = "stored" /\ ~inUse[f]
  /\ inUse' = [inUse EXCEPT ![f] = TRUE]
  /\ UNCHANGED <<file, owned, marked, used, charged, today, imageVars, call>>

-----------------------------------------------------------------------------
(* Images. *)

\* Mutant of ReserveDailyImage: the update does not look at the limit.
ReserveDailyImageUnchecked(c) ==
  /\ images' = images + 1
  /\ Enter(c, "image", 0)
  /\ UNCHANGED <<fileVars, kept, strays>>

ReserveDailyImage(c) ==
  /\ images < ImageLimit /\ images' = images + 1
  /\ Enter(c, "image", 0)
  /\ UNCHANGED <<fileVars, kept, strays>>

ImageStored(c) ==
  /\ At(c, "image") \/ At(c, "image before")
  /\ kept' = IF At(c, "image") THEN kept + 1 ELSE kept
  /\ End(c)
  /\ UNCHANGED <<fileVars, images, strays>>

\* The upload failed: the reservation is given back to the day it is by then.
ReleaseDailyImage(c) ==
  /\ At(c, "image") \/ At(c, "image before")
  /\ images' = IF images > 0 THEN images - 1 ELSE images
  /\ At(c, "image before") => strays < MaxStrays
  /\ strays' = IF At(c, "image before") /\ images > 0 THEN strays + 1 ELSE strays
  /\ End(c)
  /\ UNCHANGED <<fileVars, kept>>

-----------------------------------------------------------------------------
(* Time and failure. *)

\* resetDaily.
Midnight ==
  /\ used' = 0 /\ images' = 0
  /\ today' = [f \in Files |-> 0] /\ kept' = 0 /\ strays' = 0
  /\ marked' = [f \in Files |-> IF marked[f] = "today" THEN "before" ELSE marked[f]]
  /\ call' = [c \in Calls |-> IF At(c, "image") THEN [call[c] EXCEPT !.at = "image before"] ELSE call[c]]
  /\ UNCHANGED <<file, owned, inUse, charged>>

\* completeOnceTTL, longer than a request and than what is left of its day.
MarkExpires(f) ==
  /\ marked[f] = "before" /\ today[f] = 0 /\ \A c \in Calls : On(c) # f
  /\ marked' = [marked EXCEPT ![f] = "none"]
  /\ charged' = [charged EXCEPT ![f] = 0]
  /\ UNCHANGED <<file, owned, inUse, used, today, imageVars, call>>

OwnerExpires(f) ==
  /\ owned[f] /\ owned' = [owned EXCEPT ![f] = FALSE]
  /\ UNCHANGED <<file, marked, inUse, used, charged, today, imageVars, call>>

\* A call of the request fails, or the process dies.
Die(c) ==
  /\ call[c] # NoCall /\ End(c)
  /\ UNCHANGED <<fileVars, imageVars>>

-----------------------------------------------------------------------------
Init ==
  /\ file = [f \in Files |-> "none"] /\ owned = [f \in Files |-> FALSE]
  /\ marked = [f \in Files |-> "none"] /\ inUse = [f \in Files |-> FALSE]
  /\ used = 0 /\ images = 0 /\ call = [c \in Calls |-> NoCall]
  /\ charged = [f \in Files |-> 0] /\ today = [f \in Files |-> 0]
  /\ kept = 0 /\ strays = 0

CompleteStep(c) ==
  \/ MarkCompleteOnce(c) \/ Deduct(c) \/ DeleteOver(c)
  \/ \E why \in {"over", "failed"} : DeductNot(c, why)
  \/ \E lost \in BOOLEAN : UnmarkComplete(c, lost)

Next ==
  \/ Midnight
  \/ \E f \in Files :
       \/ Publish(f) \/ MarkExpires(f) \/ OwnerExpires(f)
       \/ \E result \in {"owned", "withdrawn", "unowned"} : InitUpload(f, result)
  \/ \E c \in Calls :
       \/ CompleteStep(c) \/ DeleteAborted(c) \/ Die(c)
       \/ ReserveDailyImage(c) \/ ImageStored(c) \/ ReleaseDailyImage(c)
       \/ \E f \in Files : Complete(c, f) \/ Abort(c, f)

Spec == Init /\ [][Next]_vars

-----------------------------------------------------------------------------
TypeOK ==
  /\ file \in [Files -> {"none", "open", "stored", "deleted"}]
  /\ marked \in [Files -> {"none", "today", "before"}]
  /\ owned \in [Files -> BOOLEAN] /\ inUse \in [Files -> BOOLEAN]
  /\ used \in Nat /\ images \in 0..ImageLimit
  /\ \A c \in Calls : On(c) \in Files \cup {0}
  /\ charged \in [Files -> Nat] /\ today \in [Files -> Nat] /\ kept \in Nat /\ strays \in Nat

\* However completes are sent again, race, fail and straddle midnight: a file is
\* charged once within the life of its mark, what the reader's day holds is what
\* was charged in it and within the limit; and no more images are stored of a day's
\* than its limit, but for the ones given back to it from the day before.
QuotasHeld ==
  /\ \A f \in Files : charged[f] <= 1
  /\ used = MapThenSumSet(LAMBDA f : today[f] * SizeOf[f], Files) /\ used <= Limit
  /\ kept + Cardinality({c \in Calls : At(c, "image")}) <= ImageLimit + strays
=============================================================================
