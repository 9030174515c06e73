------------------------------ MODULE MCRequests ------------------------------
(***************************************************************************)
(* The components whose steps race one another over rows, counters and     *)
(* caches of this site, each for TLC: folds of merged works, dispositions, *)
(* the inbox, uploads, favourites, permissions and purchase links.  They   *)
(* share no state; one runs in a behaviour and the others stay as they     *)
(* start.  TrustEnforce is extended, the others are instances; those that  *)
(* RequestsProofs is about take their parameters from this module's.       *)
(***************************************************************************)
EXTENDS TrustEnforce, TLC

CONSTANTS
  s1, c1, c2, r1, r2, p1, e1, e2, i1, i2, MaxFail,
  Instances, Perms, Baseline, Editors, Rank, ServedBy, MaxSaves,  \* of RoleOverrides
  Products, NoProduct, Readers, QueueSize, MaxPages, MaxRestart, MaxAsk,  \* of StoreLink
  Folders, Requests, Reads, MaxReq,  \* of FavoriteShelf
  Files, SizeOf, Limit, ImageLimit, MaxStrays,  \* of UploadQuota
  Folds, FeedPage, MaxSeq,  \* of InboxMirror
  Works, FirstPages, Resources, Joins, PeerOf, MergePage, MaxCatalog, MaxReader,
  FirstAt, FirstViews  \* of CatalogMerge

\* What the moderator may do by default, an admin may (pkg/perm).
ASSUME BaselineAssumption == Baseline["moderator"] \subseteq Baseline["admin"]
ASSUME ProductAssumption == NoProduct \notin Products

\* Bounds are numbers.
ASSUME BoundAssumption ==
  QueueSize \in Nat /\ MaxPages \in Nat /\ MaxRestart \in Nat /\ MaxAsk \in Nat /\ MaxSaves \in Nat

\* Folders are told by their numbers.
ASSUME ShelfAssumption == Folders \subseteq Nat /\ MaxReq \in Nat /\ IsFiniteSet(Requests)

\* Sizes and limits are numbers, and a day's charges can be added up.
ASSUME UploadAssumption ==
  /\ IsFiniteSet(Files) /\ IsFiniteSet(Calls) /\ SizeOf \in [Files -> Nat]
  /\ Limit \in Nat /\ ImageLimit \in Nat

\* There are notifications, and finitely many.
ASSUME InboxAssumption == IsFiniteSet(Folds) /\ Folds # {} /\ FeedPage \in Nat /\ MaxSeq \in Nat

\* Works have positive numbers, and rows start on a page, one per page and peer.
ASSUME MergeAssumption ==
  /\ Works \subseteq Nat \ {0} /\ IsFiniteSet(Works) /\ Works # {} /\ FirstPages \subseteq Works
  /\ FirstAt \in [Resources \cup Joins -> FirstPages \cup {0}] /\ FirstViews \in [FirstPages -> Nat]
  /\ \A j, k \in Joins : j # k /\ FirstAt[j] = FirstAt[k] /\ FirstAt[j] # 0 => PeerOf[j] # PeerOf[k]
  /\ MergePage \in Nat /\ MaxCatalog \in Nat /\ MaxFail \in Nat /\ MaxReader \in Nat

VARIABLES
  part,  \* which component runs
  m_into, m_at, m_db, m_records, m_cursor, m_batch, m_fails, m_changes, m_acts,
  m_born, m_gone, m_handled, m_rounds,
  i_fold, i_known, i_row, i_cursor, i_sync, i_forward, i_upTo, i_seen,
  i_missed, i_raced,
  u_file, u_owned, u_marked, u_inUse, u_used, u_images, u_call, u_charged,
  u_today, u_kept, u_strays,
  f_folders, f_keys, f_holds, f_writes, f_count, f_req, f_made, f_gens, f_gen,
  f_slot, f_flight, f_read, f_floor, f_alone,
  p_stored, p_trail, p_loaded, p_loading, p_editor,
  l_table, l_links, l_queue, l_queued, l_bad, l_halted, l_minter, l_reader,
  l_reqs, l_restarts, l_asks, l_refused

\* Two join rows of the same user, on different pages; one resource.
Peers == [j \in {"j1", "j2"} |-> "u"]
At == [x \in {"r1", "r2", "j1", "j2"} |-> CASE x \in {"r1", "j1"} -> 1 [] x = "j2" -> 2 [] OTHER -> 0]
Viewed == [w \in {1, 2} |-> w]  \* no two sums of them are equal

\* The second file alone fills the day.
Sizes == [f \in {1, 2} |-> f]

\* An admin and ren, on different instances.
Bases == [r \in {"moderator", "admin"} |-> IF r = "admin" THEN {p1} ELSE {}]
Ranks == [e \in {e1, e2} |-> IF e = e1 THEN "admin" ELSE "ren"]
Serves == [e \in {e1, e2} |-> IF e = e1 THEN i1 ELSE i2]

\* Calls are interchangeable, and so are page views and resources.
Symmetry == Permutations({c1, c2}) \cup Permutations({r1, r2})

Merge == INSTANCE CatalogMerge WITH
  PageSize <- MergePage,
  into <- m_into, at <- m_at, db <- m_db, records <- m_records,
  cursor <- m_cursor, batch <- m_batch, fails <- m_fails, changes <- m_changes,
  acts <- m_acts, born <- m_born, gone <- m_gone, handled <- m_handled,
  rounds <- m_rounds
mergeVars == <<m_into, m_at, m_db, m_records, m_cursor, m_batch, m_fails,
  m_changes, m_acts, m_born, m_gone, m_handled, m_rounds>>

Inbox == INSTANCE InboxMirror WITH
  Syncs <- Calls, PageSize <- FeedPage,
  fold <- i_fold, known <- i_known, row <- i_row, cursor <- i_cursor,
  sync <- i_sync, forward <- i_forward, upTo <- i_upTo, seen <- i_seen,
  missed <- i_missed, raced <- i_raced
inboxVars == <<i_fold, i_known, i_row, i_cursor, i_sync, i_forward, i_upTo,
  i_seen, i_missed, i_raced>>

Upload == INSTANCE UploadQuota WITH
  file <- u_file, owned <- u_owned, marked <- u_marked, inUse <- u_inUse,
  used <- u_used, images <- u_images, call <- u_call, charged <- u_charged,
  today <- u_today, kept <- u_kept, strays <- u_strays
uploadVars == <<u_file, u_owned, u_marked, u_inUse, u_used, u_images, u_call,
  u_charged, u_today, u_kept, u_strays>>

Shelf == INSTANCE FavoriteShelf WITH
  folders <- f_folders, keys <- f_keys, holds <- f_holds, writes <- f_writes,
  count <- f_count, req <- f_req, made <- f_made, gens <- f_gens, gen <- f_gen,
  slot <- f_slot, flight <- f_flight, read <- f_read, floor <- f_floor,
  alone <- f_alone
shelfVars == <<f_folders, f_keys, f_holds, f_writes, f_count, f_req, f_made,
  f_gens, f_gen, f_slot, f_flight, f_read, f_floor, f_alone>>

Permissions == INSTANCE RoleOverrides WITH
  stored <- p_stored, trail <- p_trail, loaded <- p_loaded,
  loading <- p_loading, editor <- p_editor
rolesVars == <<p_stored, p_trail, p_loaded, p_loading, p_editor>>

Shop == INSTANCE StoreLink WITH
  MaxReq <- MaxPages,
  table <- l_table, links <- l_links, queue <- l_queue, queued <- l_queued,
  bad <- l_bad, halted <- l_halted, minter <- l_minter, reader <- l_reader,
  reqs <- l_reqs, restarts <- l_restarts, asks <- l_asks, refused <- l_refused
shopVars == <<l_table, l_links, l_queue, l_queued, l_bad, l_halted, l_minter,
  l_reader, l_reqs, l_restarts, l_asks, l_refused>>

-----------------------------------------------------------------------------
allVars == <<part, mergeVars, vars, inboxVars, uploadVars, shelfVars, rolesVars, shopVars>>

InitOfOne ==
  /\ part \in {"merge", "trust", "inbox", "upload", "shelf", "roles", "links"}
  /\ Merge!Init /\ Init /\ Upload!Init /\ Permissions!Init
  /\ Inbox!Init /\ (part # "inbox" => i_known)
  /\ Shelf!Init /\ (part # "shelf" => f_folders.made = {})
  /\ Shop!Init /\ (part # "links" => l_table = {})

rows == <<mergeVars, vars, inboxVars>>
stores == <<uploadVars, shelfVars, rolesVars, shopVars>>
MergeOnly == UNCHANGED <<part, vars, inboxVars, stores>>
TrustOnly == UNCHANGED <<part, mergeVars, inboxVars, stores>>
InboxOnly == UNCHANGED <<part, mergeVars, vars, stores>>
UploadOnly == UNCHANGED <<part, shelfVars, rolesVars, shopVars, rows>>
ShelfOnly == UNCHANGED <<part, uploadVars, rolesVars, shopVars, rows>>
RolesOnly == UNCHANGED <<part, uploadVars, shelfVars, shopVars, rows>>
LinksOnly == UNCHANGED <<part, uploadVars, shelfVars, rolesVars, rows>>

NextOfOne ==
  \/ part = "merge" /\ Merge!Next /\ MergeOnly
  \/ part = "trust" /\ Next /\ TrustOnly
  \/ part = "inbox" /\ Inbox!Next /\ InboxOnly
  \/ part = "upload" /\ Upload!Next /\ UploadOnly
  \/ part = "shelf" /\ Shelf!Next /\ ShelfOnly
  \/ part = "roles" /\ Permissions!Next /\ RolesOnly
  \/ part = "links" /\ Shop!Next /\ LinksOnly

SpecOfOne == InitOfOne /\ [][NextOfOne]_allVars

-----------------------------------------------------------------------------
\* The state of the component that runs has its shape.
Shapes ==
  /\ part = "merge" => Merge!TypeOK
  /\ part = "trust" => TypeOK
  /\ part = "inbox" => Inbox!TypeOK
  /\ part = "upload" => Upload!TypeOK
  /\ part = "shelf" => Shelf!TypeOK
  /\ part = "roles" => Permissions!TypeOK
  /\ part = "links" => Shop!TypeOK

\* No chain of merges and undos loses a row but a twin that it records, or takes
\* one where the database would refuse it (CatalogMerge).
RowsKept == part = "merge" => Merge!RowsKept

\* Once the site has followed, every row is back on the page its work stands at,
\* and what pages counted is counted once (CatalogMerge).
UndosRestore == part = "merge" => Merge!UndosRestore

\* A redirect never ends at a page that is not there, and leads to the work its
\* number is merged into (CatalogMerge).
RedirectsSound == part = "merge" => Merge!RedirectsSound

\* Overlapping syncs and readers settle on the newest fold (InboxMirror).
InboxSettled == part = "inbox" => Inbox!InboxSettled

\* Racing completes and reservations keep within the quotas (UploadQuota).
QuotasHeld == part = "upload" => Upload!QuotasHeld

\* No cached shelf outlives the write that changed it (FavoriteShelf).
ShelfFollows == part = "shelf" => Shelf!ShelfFollows

\* Racing saves of the matrix are applied one after another (RoleOverrides).
SavesSerialised == part = "roles" => Permissions!SavesSerialised

\* A product is marked as queued exactly while it is on its way (StoreLink).
LinksKept == part = "links" => Shop!LinksKept
=============================================================================
