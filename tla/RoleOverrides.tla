----------------------------- MODULE RoleOverrides -----------------------------
(***************************************************************************)
(* Permission overrides of the roles: internal/permission/service.go,      *)
(* store.go, and the effective permissions of pkg/perm.                    *)
(*                                                                         *)
(* An editor reads the matrix, then its version, and later saves whole     *)
(* layers with that version.  A save judges and writes under one advisory  *)
(* lock, by the stored layers and by what the editor holds on the instance *)
(* that serves it; instances load the stored layers on a timer and after   *)
(* their own saves, two loads of one instance in any order.                *)
(*                                                                         *)
(* Abstractions.  A layer is the set of permissions it turns against its   *)
(* role's baseline: an override that turns nothing is refused.  What an    *)
(* editor asks for is any change, so of the matrix it read only the number *)
(* of saves it shows is kept (seen).  The creator layer, overrides of      *)
(* single users and ren, who holds all and has no layer, are left out.     *)
(***************************************************************************)
EXTENDS Naturals, Sequences, FiniteSets

CONSTANTS
  Perms,      \* pkg/perm catalog
  Baseline,   \* [Roles -> SUBSET Perms], the moderator's within the admin's
  Editors,    \* editors with a matrix open
  Rank,       \* [Editors -> {"admin", "ren"}]
  Instances,  \* processes of the site
  ServedBy,   \* [Editors -> Instances]
  MaxSaves    \* bound: saves that go through

Roles == {"moderator", "admin"}

VARIABLES
  stored,   \* role_permission_override
  trail,    \* permission_change: the saves, one id each
  loaded,   \* perm.current of an instance
  loading,  \* loads that have read and not yet stored
  editor    \* what an editor is at, with what the screen shows and its version

vars == <<stored, trail, loaded, loading, editor>>

Layers == [Roles -> SUBSET Perms]
Toggle(base, layer) == (base \ layer) \cup (layer \ base)
Apply(layers) == [r \in Roles |-> Toggle(Baseline[r], layers[r])]
NoMatrix == [at |-> "out", seen |-> 0, version |-> 0, want |-> <<>>]

\* Roles below the editor's own, and what the editor holds on the instance.
Below(e) == IF Rank[e] = "ren" THEN Roles ELSE {"moderator"}
Holds(e) == IF Rank[e] = "ren" THEN Perms ELSE Apply(loaded[ServedBy[e]])["admin"]

-----------------------------------------------------------------------------
(* The matrix and its version, in two statements. *)

ReadLayers(e) ==
  /\ editor[e].at # "saving"
  /\ editor' = [editor EXCEPT ![e] = [NoMatrix EXCEPT !.at = "reading", !.seen = Len(trail)]]
  /\ UNCHANGED <<stored, trail, loaded, loading>>

ReadVersion(e) ==
  /\ editor[e].at = "reading"
  /\ editor' = [editor EXCEPT ![e].at = "open", ![e].version = Len(trail)]
  /\ UNCHANGED <<stored, trail, loaded, loading>>

-----------------------------------------------------------------------------
(* ApplyRoles. *)

\* The layers once the changes are in.
Changed(changes) == [r \in Roles |-> IF r \in DOMAIN changes THEN changes[r] ELSE stored[r]]

Valid(e, changes) ==
  /\ DOMAIN changes \subseteq Below(e)
  /\ \A r \in DOMAIN changes : Toggle(stored[r], changes[r]) \subseteq Holds(e)
  /\ LET next == Apply(Changed(changes)) IN next["moderator"] \subseteq next["admin"]

\* Mutant of Current: a save is judged by what is stored, whatever its editor saw.
AnyVersion(e) == TRUE

Current(e) == editor[e].version = Len(trail)

\* Mutant of Unlocked: every save judges at once.
UnlockedAlways(e) == TRUE

\* pg_advisory_xact_lock, held to the end of the transaction.
Unlocked(e) == \A o \in Editors : editor[o].at # "saving"

Judge(e, changes) ==
  /\ editor[e].at = "open" /\ Unlocked(e) /\ Current(e) /\ Len(trail) < MaxSaves
  /\ Valid(e, changes) /\ Changed(changes) # stored
  /\ editor' = [editor EXCEPT ![e].at = "saving", ![e].want = [layers |-> changes, before |-> stored]]
  /\ UNCHANGED <<stored, trail, loaded, loading>>

\* replaceRole of each layer that changed, with its change row, and the commit.
Write(e) ==
  LET want == editor[e].want IN
  /\ editor[e].at = "saving"
  /\ stored' = Changed(want.layers)
  /\ trail' = Append(trail, [seen |-> editor[e].seen, version |-> editor[e].version,
                             before |-> want.before, after |-> Changed(want.layers)])
  /\ editor' = [editor EXCEPT ![e] = NoMatrix]
  /\ loading' = [loading EXCEPT ![ServedBy[e]] = @ \cup {stored'}]
  /\ UNCHANGED loaded

\* The transaction fails, or the process dies in it.
RollBack(e) ==
  /\ editor[e].at = "saving"
  /\ editor' = [editor EXCEPT ![e] = NoMatrix]
  /\ UNCHANGED <<stored, trail, loaded, loading>>

-----------------------------------------------------------------------------
(* Load: on the timer, and after a save. *)

Refresh(i) ==
  /\ stored \notin loading[i]
  /\ loading' = [loading EXCEPT ![i] = @ \cup {stored}]
  /\ UNCHANGED <<stored, trail, loaded, editor>>

Load(i, layers) ==
  /\ layers \in loading[i]
  /\ loaded' = [loaded EXCEPT ![i] = layers]
  /\ loading' = [loading EXCEPT ![i] = @ \ {layers}]
  /\ UNCHANGED <<stored, trail, editor>>

\* A read that fails keeps what was loaded.
LoadFails(i, layers) ==
  /\ layers \in loading[i]
  /\ loading' = [loading EXCEPT ![i] = @ \ {layers}]
  /\ UNCHANGED <<stored, trail, loaded, editor>>

-----------------------------------------------------------------------------
Init ==
  /\ stored = [r \in Roles |-> {}] /\ trail = <<>>
  /\ loaded = [i \in Instances |-> stored] /\ loading = [i \in Instances |-> {}]
  /\ editor = [e \in Editors |-> NoMatrix]

Next ==
  \/ \E e \in Editors :
       \/ ReadLayers(e) \/ ReadVersion(e) \/ Write(e) \/ RollBack(e)
       \/ \E R \in SUBSET Roles \ {{}} : \E changes \in [R -> SUBSET Perms] : Judge(e, changes)
  \/ \E i \in Instances : Refresh(i) \/ \E l \in loading[i] : Load(i, l) \/ LoadFails(i, l)

Spec == Init /\ [][Next]_vars

-----------------------------------------------------------------------------
TypeOK ==
  /\ stored \in Layers /\ loaded \in [Instances -> Layers]
  /\ loading \in [Instances -> SUBSET Layers] /\ Len(trail) <= MaxSaves
  /\ \A e \in Editors : /\ editor[e].at \in {"out", "reading", "open", "saving"}
                        /\ editor[e].seen \in 0..MaxSaves /\ editor[e].version \in 0..MaxSaves

\* However two editors read and save on any instances, a moderator never holds
\* what an admin does not, and the trail tells what happened: each save starts
\* from the layers the one before it left, the last one's are in force.  And it
\* replaces the layers that its editor saw, unless another save came between
\* those and the version that was read after them.
SavesSerialised ==
  /\ Apply(stored)["moderator"] \subseteq Apply(stored)["admin"]
  /\ \A n \in DOMAIN trail : /\ n > 1 => trail[n].before = trail[n - 1].after
                             /\ n = Len(trail) => trail[n].after = stored
                             /\ trail[n].seen = trail[n].version => trail[n].seen = n - 1
=============================================================================
