------------------------------ MODULE MergeProofs ------------------------------
(***************************************************************************)
(* Merges and undone merges lose no row (CatalogMerge, as the component of *)
(* MCRequests that runs), for any number of works, pages and rows, chains  *)
(* of any length, and however many undos and ticks fail or are retried.    *)
(*                                                                         *)
(* Why: every transaction of a merge or an undo keeps the constraints of   *)
(* the database (Sound), and a record says what its undo relies on         *)
(* (Recorded): the pages it found, and rows of which no two clash where    *)
(* they go back to.  So a row leaves every page only as a twin, and its    *)
(* record outlives every undo (Since).  Catalog's merges have no cycle     *)
(* (Forest), so a drain is never told to fold a page into itself.          *)
(*                                                                         *)
(* The last part proves the types of all seven components of MCRequests.   *)
(***************************************************************************)
EXTENDS RequestsProofs

AnyWork == Works \cup {0}
Site == [page : [Works -> Merge!PageType], at : [Merge!Rows -> AnyWork], redirect : [Works -> AnyWork]]
Snapshots == UNION {[S -> Merge!PageType] : S \in SUBSET Works}
MergeRecord ==
  [old : Works, new : Works, action : {"fold", "renumber", "ledger"},
   state : {"open", "failed", "undone"}, noted : BOOLEAN, late : BOOLEAN,
   before : Snapshots, after : Merge!PageType, moved : SUBSET Merge!Rows,
   dropped : SUBSET Merge!Rows, repointed : SUBSET Works]
MergeItem == [old : Works, new : Works, revoked : BOOLEAN, stamp : Nat]

\* Rows are on a page that is there, one per page and peer; an external id is on one.
Sound(d) ==
  /\ \A w \in Works : ~d.page[w].here => d.page[w] = Merge!NoPage
  /\ \A k \in Merge!Rows : d.at[k] # 0 => d.page[d.at[k]].here
  /\ \A j, k \in Joins : j # k /\ d.at[j] = d.at[k] /\ d.at[j] # 0 => PeerOf[j] # PeerOf[k]
  /\ \A v, w \in Works : v # w /\ d.page[v].here /\ d.page[w].here /\ d.page[v].ext = d.page[w].ext
                           => d.page[v].ext = 0

\* What an undo takes from its record.
Recorded(r) ==
  /\ r.old # r.new /\ r.before[r.old] \in Merge!PageType /\ r.before[r.new] \in Merge!PageType
  /\ r.dropped \subseteq r.moved
  /\ \A j, k \in r.moved \cap Joins : j # k => PeerOf[j] # PeerOf[k]
  /\ r.action = "fold" /\ r.before[r.new].here /\ r.after.here /\ r.before[r.new].ext # 0
       => r.after.ext = r.before[r.new].ext

SoundSite == {d \in Site : Sound(d)}
SoundRecord == {r \in MergeRecord : Recorded(r)}
SoundItem == {i \in MergeItem : ~i.revoked => i.old # i.new}
FeedBatch ==
  [items : Seq(SoundItem), pages : SUBSET Works, ledger : [Works -> AnyWork], next : Nat, on : BOOLEAN]

MergeShape ==
  /\ m_into \in [Works -> Works] /\ m_at \in [Works -> Nat] /\ m_cursor \in Nat
  /\ m_db \in SoundSite /\ m_records \in Seq(SoundRecord) /\ m_batch \in FeedBatch
  /\ m_born \in [Merge!Rows -> AnyWork] /\ m_gone \subseteq Merge!Rows
  /\ m_handled \in [Works -> Nat] /\ m_rounds \in Nat
  /\ m_fails \in 0..MaxFail /\ m_acts \in 0..MaxReader /\ m_changes \in 0..MaxCatalog

\* Catalog's merges have no cycle.
Forest == \E h \in [Works -> Nat] : \A w \in Works : m_into[w] # w => h[w] < h[m_into[w]]

\* A row on no page was deleted, or is in the record that dropped it.
NotLost ==
  \A k \in Merge!Rows : m_born[k] # 0 /\ m_db.at[k] = 0 =>
    k \in m_gone \/ \E n \in DOMAIN m_records : k \in m_records[n].dropped

MergeInv == MergeShape /\ Forest /\ NotLost

-----------------------------------------------------------------------------
LEMMA SnapshotIs ==
  ASSUME NEW v \in Works, NEW w \in Works, NEW f \in [{v, w} -> Merge!PageType]
  PROVE  f \in Snapshots
  <1>1. {v, w} \in SUBSET Works
    OBVIOUS
  <1> QED
    BY <1>1 DEF Snapshots

LEMMA NoPageIs == Merge!NoPage \in Merge!PageType /\ ~Merge!NoPage.here /\ Merge!NoPage.ext = 0 /\ Merge!NoPage.views = 0
  BY DEF Merge!NoPage, Merge!PageType, Merge!None

LEMMA PageIs ==
  ASSUME NEW p \in Merge!PageType
  PROVE  p.views \in Nat /\ p.ext \in AnyWork /\ p.here \in BOOLEAN
  BY DEF Merge!PageType, AnyWork, Merge!None

LEMMA PageWith ==
  ASSUME NEW p \in Merge!PageType, p.here, NEW v, NEW x
  PROVE  [p EXCEPT !.views = v, !.ext = x] = [views |-> v, ext |-> x, here |-> TRUE]
  <1>1. p \in [views : Nat, ext : Works \cup {Merge!None}, here : {TRUE}]
    BY DEF Merge!PageType
  <1>2. PICK q : q = [p EXCEPT !.views = v, !.ext = x]
    OBVIOUS
  <1>3. q \in [views : {v}, ext : {x}, here : {TRUE}]
    BY <1>1, <1>2
  <1>4. q = [views |-> v, ext |-> x, here |-> TRUE]
    BY <1>3
  <1> QED
    BY <1>2, <1>4

LEMMA SiteIs ==
  ASSUME NEW d \in Site
  PROVE  /\ d.page \in [Works -> Merge!PageType] /\ d.at \in [Merge!Rows -> AnyWork]
         /\ d.redirect \in [Works -> AnyWork]
         /\ \A w \in Works : d.page[w] \in Merge!PageType
         /\ \A k \in Merge!Rows : d.at[k] \in AnyWork
  BY DEF Site

LEMMA WorksArePositive == 0 \notin Works /\ \A x \in AnyWork : x # 0 => x \in Works
  BY MergeAssumption DEF AnyWork

\* A fold.
LEMMA FoldedIs ==
  ASSUME NEW d \in Site, NEW old \in Works, NEW new \in Works, old # new
  PROVE  LET e == Merge!Folded(d, old, new)
             lost == {k \in Merge!Children(d, old) : Merge!Twin(d, new, k)}
         IN  /\ e \in Site /\ e.redirect = d.redirect
             /\ \A k \in Merge!Rows : e.at[k] = (IF k \in lost THEN 0 ELSE IF d.at[k] = old THEN new ELSE d.at[k])
             /\ e.page[old] = Merge!NoPage
             /\ ~d.page[new].here => e.page[new] = d.page[new]
             /\ d.page[new].here =>
                  e.page[new] = [views |-> d.page[new].views + d.page[old].views,
                                 ext |-> IF d.page[new].ext = 0 THEN d.page[old].ext ELSE d.page[new].ext,
                                 here |-> TRUE]
             /\ \A w \in Works \ {old, new} : e.page[w] = d.page[w]
  <1> DEFINE e == Merge!Folded(d, old, new)
             lost == {k \in Merge!Children(d, old) : Merge!Twin(d, new, k)}
             p == d.page[new]
             l == d.page[old]
             q == IF ~p.here THEN p
                  ELSE [p EXCEPT !.views = @ + l.views, !.ext = IF @ = Merge!None THEN l.ext ELSE @]
  <1>1. p \in Merge!PageType /\ l \in Merge!PageType
    BY SiteIs
  <1>2. /\ q \in Merge!PageType
        /\ p.here => q = [views |-> p.views + l.views, ext |-> IF p.ext = 0 THEN l.ext ELSE p.ext, here |-> TRUE]
    <2> HIDE DEF p, l
    <2>1. CASE ~p.here
      BY <1>1, <2>1
    <2>2. CASE p.here
      <3>1. p \in [views : Nat, ext : AnyWork, here : BOOLEAN] /\ l.views \in Nat /\ l.ext \in AnyWork
        BY <1>1, PageIs DEF Merge!PageType, AnyWork, Merge!None
      <3>2. [p EXCEPT !.views = @ + l.views, !.ext = IF @ = 0 THEN l.ext ELSE @]
              = [views |-> p.views + l.views, ext |-> IF p.ext = 0 THEN l.ext ELSE p.ext, here |-> TRUE]
        <4>1. PICK v, x : v = p.views + l.views /\ x = (IF p.ext = 0 THEN l.ext ELSE p.ext)
          OBVIOUS
        <4>2. [p EXCEPT !.views = v, !.ext = x] = [views |-> v, ext |-> x, here |-> TRUE]
          BY <1>1, <2>2, PageWith
        <4> QED
          BY <4>1, <4>2
      <3>3. q = [views |-> p.views + l.views, ext |-> IF p.ext = 0 THEN l.ext ELSE p.ext, here |-> TRUE]
        BY <3>2, <2>2 DEF Merge!None
      <3>4. q \in [views : Nat, ext : AnyWork, here : BOOLEAN]
        <4>1. p.views \in Nat /\ p.ext \in AnyWork /\ p.views + l.views \in Nat
          BY <3>1
        <4> QED
          BY <3>1, <3>3, <4>1
      <3> QED
        BY <3>3, <3>4 DEF Merge!PageType, AnyWork, Merge!None
    <2> QED
      BY <2>1, <2>2
  <1>3. e = [d EXCEPT !.at = [k \in Merge!Rows |-> IF k \in lost THEN 0 ELSE IF d.at[k] = old THEN new ELSE d.at[k]],
                      !.page = [[d.page EXCEPT ![old] = Merge!NoPage] EXCEPT ![new] = q]]
    BY DEF Merge!Folded, Site, Merge!None
  <1>4. [k \in Merge!Rows |-> IF k \in lost THEN 0 ELSE IF d.at[k] = old THEN new ELSE d.at[k]] \in [Merge!Rows -> AnyWork]
    BY SiteIs DEF AnyWork
  <1>5. [[d.page EXCEPT ![old] = Merge!NoPage] EXCEPT ![new] = q] \in [Works -> Merge!PageType]
    <2> HIDE DEF q
    <2> QED
      BY <1>2, NoPageIs, SiteIs
  <1> HIDE DEF e, lost, q
  <1>6. e \in Site /\ e.redirect = d.redirect
    BY <1>3, <1>4, <1>5 DEF Site
  <1>7. \A k \in Merge!Rows : e.at[k] = (IF k \in lost THEN 0 ELSE IF d.at[k] = old THEN new ELSE d.at[k])
    BY <1>3 DEF Site
  <1>8. e.page = [[d.page EXCEPT ![old] = Merge!NoPage] EXCEPT ![new] = q]
    BY <1>3 DEF Site
  <1>9. e.page[old] = Merge!NoPage /\ e.page[new] = q /\ \A w \in Works \ {old, new} : e.page[w] = d.page[w]
    BY <1>8, SiteIs
  <1> QED
    BY <1>2, <1>6, <1>7, <1>9 DEF e, lost, q

LEMMA FoldSound ==
  ASSUME NEW d \in Site, Sound(d), NEW old \in Works, NEW new \in Works, old # new,
         d.page[new].here \/ Merge!Children(d, old) = {}
  PROVE  LET e == Merge!Folded(d, old, new)
         IN  /\ e \in Site /\ Sound(e)
             /\ \A k \in Merge!Rows : e.at[k] = 0 /\ d.at[k] # 0 => k \in Merge!Children(d, old)
             /\ d.page[new].here /\ e.page[new].here /\ d.page[new].ext # 0 => e.page[new].ext = d.page[new].ext
  <1> DEFINE lost == {k \in Merge!Children(d, old) : Merge!Twin(d, new, k)}
  <1>1. PICK e : e = Merge!Folded(d, old, new)
    OBVIOUS
  <1>2. /\ e \in Site
        /\ \A k \in Merge!Rows : e.at[k] = (IF k \in lost THEN 0 ELSE IF d.at[k] = old THEN new ELSE d.at[k])
        /\ e.page[old] = Merge!NoPage
        /\ ~d.page[new].here => e.page[new] = d.page[new]
        /\ d.page[new].here =>
             e.page[new] = [views |-> d.page[new].views + d.page[old].views,
                            ext |-> IF d.page[new].ext = 0 THEN d.page[old].ext ELSE d.page[new].ext,
                            here |-> TRUE]
        /\ \A w \in Works \ {old, new} : e.page[w] = d.page[w]
    BY <1>1, FoldedIs
  <1>3. Works \subseteq Nat \ {0}
    BY MergeAssumption
  <1>4. \A w \in Works : ~e.page[w].here => e.page[w] = Merge!NoPage
    BY <1>2 DEF Sound
  <1>5. \A k \in Merge!Rows : e.at[k] # 0 => e.page[e.at[k]].here
    <2> SUFFICES ASSUME NEW k \in Merge!Rows, e.at[k] # 0 PROVE e.page[e.at[k]].here
      OBVIOUS
    <2>1. CASE d.at[k] = old
      <3>1. e.at[k] = new /\ k \in Merge!Children(d, old)
        BY <1>2, <2>1 DEF Merge!Children
      <3> QED
        BY <3>1, <1>2
    <2>2. CASE d.at[k] # old
      <3>1. e.at[k] = d.at[k] /\ d.page[d.at[k]].here /\ d.at[k] \in Works \ {old}
        BY <1>2, <2>2, SiteIs DEF Sound, Merge!Children, AnyWork
      <3> QED
        BY <3>1, <1>2
    <2> QED
      BY <2>1, <2>2
  <1>6. \A j, k \in Joins : j # k /\ e.at[j] = e.at[k] /\ e.at[j] # 0 => PeerOf[j] # PeerOf[k]
    <2> SUFFICES ASSUME NEW j \in Joins, NEW k \in Joins, j # k, e.at[j] = e.at[k], e.at[j] # 0, PeerOf[j] = PeerOf[k]
                 PROVE  FALSE
      OBVIOUS
    <2>1. Joins \subseteq Merge!Rows
      BY DEF Merge!Rows
    <2>2. \A x, y \in Joins : x # y /\ d.at[x] = old /\ d.at[y] = new /\ PeerOf[x] = PeerOf[y] => x \in lost
      BY <2>1 DEF Merge!Children, Merge!Twin, Merge!Held
    <2>3. \A x \in Joins : d.at[x] # old => x \notin lost
      BY DEF Merge!Children
    <2>4. \A x \in Joins : e.at[x] # 0 => x \notin lost
      BY <1>2, <2>1
    <2>5. d.at[j] = d.at[k] /\ d.at[j] # 0 => FALSE
      BY DEF Sound
    <2> HIDE DEF lost
    <2> QED
      BY <1>2, <1>3, <2>1, <2>2, <2>3, <2>4, <2>5
  <1>7. \A v, w \in Works : v # w /\ e.page[v].here /\ e.page[w].here /\ e.page[v].ext = e.page[w].ext => e.page[v].ext = 0
    <2>1. ~e.page[old].here
      BY <1>2, NoPageIs
    <2>2. ~d.page[old].here => d.page[old].ext = 0
      BY NoPageIs DEF Sound
    <2>3. e.page[new].here => d.page[new].here /\ e.page[new].ext = (IF d.page[new].ext = 0 THEN d.page[old].ext ELSE d.page[new].ext)
      BY <1>2
    <2>4. \A w \in Works \ {old, new} : e.page[w] = d.page[w]
      BY <1>2
    <2>5. \A v, w \in Works : v # w /\ d.page[v].here /\ d.page[w].here /\ d.page[v].ext = d.page[w].ext => d.page[v].ext = 0
      BY DEF Sound
    <2>6. \A w \in Works \ {old, new} : e.page[w].here /\ e.page[new].here /\ e.page[new].ext = e.page[w].ext => e.page[w].ext = 0
      BY <2>2, <2>3, <2>4, <2>5
    <2> QED
      BY <2>1, <2>4, <2>5, <2>6
  <1>8. Sound(e)
    BY <1>4, <1>5, <1>6, <1>7 DEF Sound
  <1>9. \A k \in Merge!Rows : e.at[k] = 0 /\ d.at[k] # 0 => k \in Merge!Children(d, old)
    BY <1>2, <1>3
  <1> QED
    BY <1>1, <1>2, <1>8, <1>9

\* A renumber.
LEMMA RenumberSound ==
  ASSUME NEW d \in Site, Sound(d), NEW old \in Works, NEW new \in Works, old # new,
         ~(d.page[old].here /\ d.page[new].here)
  PROVE  LET e == Merge!Renumbered(d, old, new)
         IN  /\ e \in Site /\ Sound(e)
             /\ \A k \in Merge!Rows : e.at[k] = 0 => d.at[k] = 0
  <1>1. CASE ~d.page[old].here
    BY <1>1 DEF Merge!Renumbered, Merge!Here
  <1>2. CASE d.page[old].here
    <2> DEFINE at == [k \in Merge!Rows |-> IF d.at[k] = old THEN new ELSE d.at[k]]
               page == [[d.page EXCEPT ![new] = d.page[old]] EXCEPT ![old] = Merge!NoPage]
    <2>1. PICK e : e = Merge!Renumbered(d, old, new)
      OBVIOUS
    <2>2. e = [d EXCEPT !.at = at, !.page = page]
      BY <1>2, <2>1 DEF Merge!Renumbered, Merge!Here, Site
    <2>3. at \in [Merge!Rows -> AnyWork] /\ page \in [Works -> Merge!PageType]
      BY SiteIs, NoPageIs DEF AnyWork
    <2>4. e \in Site /\ e.at = at /\ e.page = page
      <3> HIDE DEF at, page
      <3> QED
        BY <2>2, <2>3 DEF Site
    <2>5. /\ e.page[new] = d.page[old] /\ e.page[old] = Merge!NoPage
          /\ \A w \in Works \ {old, new} : e.page[w] = d.page[w]
          /\ \A k \in Merge!Rows : e.at[k] = (IF d.at[k] = old THEN new ELSE d.at[k])
      BY <2>4, SiteIs
    <2>6. \A k \in Merge!Rows : d.at[k] # new /\ d.at[k] \in AnyWork
      BY <1>2, SiteIs, WorksArePositive DEF Sound
    <2>7. \A k \in Merge!Rows : e.at[k] # 0 => e.page[e.at[k]].here
      <3> SUFFICES ASSUME NEW k \in Merge!Rows, e.at[k] # 0 PROVE e.page[e.at[k]].here
        OBVIOUS
      <3>1. CASE d.at[k] = old
        BY <1>2, <2>5, <3>1
      <3>2. CASE d.at[k] # old
        <4>1. e.at[k] = d.at[k] /\ d.at[k] \in Works \ {old, new} /\ d.page[d.at[k]].here
          BY <2>5, <2>6, <3>2, WorksArePositive DEF Sound
        <4> QED
          BY <2>5, <4>1
      <3> QED
        BY <3>1, <3>2
    <2>8. \A j, k \in Joins : j # k /\ e.at[j] = e.at[k] /\ e.at[j] # 0 => PeerOf[j] # PeerOf[k]
      BY <2>5, <2>6, WorksArePositive DEF Sound, Merge!Rows
    <2>9. \A w \in Works : ~e.page[w].here => e.page[w] = Merge!NoPage
      BY <1>2, <2>5 DEF Sound
    <2>10. \A v, w \in Works : v # w /\ e.page[v].here /\ e.page[w].here /\ e.page[v].ext = e.page[w].ext
                                => e.page[v].ext = 0
      BY <1>2, <2>5, NoPageIs DEF Sound
    <2> QED
      BY <2>1, <2>4, <2>5, <2>7, <2>8, <2>9, <2>10, WorksArePositive DEF Sound
  <1> QED
    BY <1>1, <1>2

-----------------------------------------------------------------------------
(* An undo. *)

\* An external id that is taken is not taken twice.
LEMMA ExtFree ==
  ASSUME NEW d \in Site, NEW x \in AnyWork
  PROVE  /\ Merge!ExtOrHolder(d, x) \in AnyWork
         /\ \A w \in Works : d.page[w].here /\ d.page[w].ext = Merge!ExtOrHolder(d, x)
              => d.page[w].ext = 0
  BY DEF Merge!ExtOrHolder, Merge!ExtTaken, Merge!Here, Merge!None, AnyWork

\* A page with a free external id may be put where there is none.
LEMMA PagePut ==
  ASSUME NEW d \in Site, Sound(d), NEW w \in Works, ~d.page[w].here, NEW p \in Merge!PageType, p.here,
         \A v \in Works : d.page[v].here /\ d.page[v].ext = p.ext => p.ext = 0
  PROVE  LET e == [d EXCEPT !.page[w] = p]
         IN  e \in Site /\ Sound(e) /\ e.at = d.at /\ e.redirect = d.redirect
  <1>1. PICK e : e = [d EXCEPT !.page[w] = p]
    OBVIOUS
  <1>2. e \in Site /\ e.at = d.at /\ e.redirect = d.redirect /\ e.page = [d.page EXCEPT ![w] = p]
    BY <1>1 DEF Site
  <1>3. e.page[w] = p /\ \A v \in Works \ {w} : e.page[v] = d.page[v]
    BY <1>2, SiteIs
  <1>4. \A k \in Merge!Rows : e.at[k] # 0 => e.page[e.at[k]].here
    BY <1>2, <1>3, SiteIs DEF Sound, AnyWork
  <1>5. \A u, v \in Works : u # v /\ e.page[u].here /\ e.page[v].here /\ e.page[u].ext = e.page[v].ext
                             => e.page[u].ext = 0
    BY <1>3 DEF Sound
  <1>6. \A v \in Works : ~e.page[v].here => e.page[v] = Merge!NoPage
    BY <1>3 DEF Sound
  <1>7. Sound(e)
    BY <1>2, <1>4, <1>5, <1>6 DEF Sound
  <1> QED
    BY <1>1, <1>2, <1>7

LEMMA TakenBackSound ==
  ASSUME NEW d \in Site, Sound(d), NEW r \in MergeRecord, r.old # r.new,
         ~d.page[r.old].here, d.page[r.new].here
  PROVE  LET e == Merge!TakenBack(d, r)
         IN  /\ e \in Site /\ Sound(e) /\ e.page[r.old].here
             /\ \A k \in Merge!Rows : e.at[k] = 0 => d.at[k] = 0
  <1> DEFINE post == Merge!Children(d, r.new) \ r.moved
             back == [d EXCEPT !.page[r.old] = d.page[r.new], !.page[r.new] = Merge!NoPage]
             stub == [views |-> 0, ext |-> Merge!ExtOrHolder(back, r.new), here |-> TRUE]
             put == IF post = {} THEN Merge!NoPage ELSE stub
             at == [k \in Merge!Rows |-> IF d.at[k] = r.new /\ k \notin post THEN r.old ELSE d.at[k]]
  <1>1. PICK e : e = Merge!TakenBack(d, r)
    OBVIOUS
  <1>2. r.old \in Works /\ r.new \in Works /\ r.new \in AnyWork
    BY DEF MergeRecord, AnyWork
  <1>3. /\ back \in Site /\ back.at = d.at
        /\ back.page[r.old] = d.page[r.new] /\ back.page[r.new] = Merge!NoPage
        /\ \A w \in Works \ {r.old, r.new} : back.page[w] = d.page[w]
    BY <1>2, SiteIs, NoPageIs DEF Site
  <1>4. stub \in Merge!PageType /\ put \in Merge!PageType
    <2> HIDE DEF back, post
    <2>1. stub.ext \in AnyWork
      BY <1>2, <1>3, ExtFree
    <2>2. stub \in Merge!PageType
      BY <2>1 DEF Merge!PageType, AnyWork, Merge!None
    <2> QED
      BY <2>2, NoPageIs
  <1>5. e = [back EXCEPT !.page[r.new] = put, !.at = at]
    BY <1>1 DEF Merge!TakenBack
  <1>6. at \in [Merge!Rows -> AnyWork]
    BY <1>2, SiteIs DEF AnyWork
  <1>7. e \in Site /\ e.at = at /\ e.page = [back.page EXCEPT ![r.new] = put]
    <2> HIDE DEF back, put, at
    <2> QED
      BY <1>2, <1>3, <1>4, <1>5, <1>6 DEF Site
  <1>8. /\ e.page[r.new] = put /\ e.page[r.old] = d.page[r.new]
        /\ \A w \in Works \ {r.old, r.new} : e.page[w] = d.page[w]
    <2> HIDE DEF back, put
    <2> QED
      BY <1>2, <1>3, <1>7, SiteIs
  <1>9. \A k \in Merge!Rows : /\ d.at[k] \in AnyWork /\ d.at[k] # r.old
                              /\ e.at[k] = (IF d.at[k] = r.new /\ k \notin post THEN r.old ELSE d.at[k])
                              /\ d.at[k] = r.new /\ k \in post => put.here
    <2>1. \A k \in Merge!Rows : d.at[k] \in AnyWork /\ d.at[k] # r.old
      BY <1>2, SiteIs, WorksArePositive DEF Sound
    <2>2. post # {} => put.here
      OBVIOUS
    <2>3. \A k \in Merge!Rows : e.at[k] = (IF d.at[k] = r.new /\ k \notin post THEN r.old ELSE d.at[k])
      BY <1>7
    <2> HIDE DEF post, put
    <2> QED
      BY <2>1, <2>2, <2>3
  <1>10. put.here => \A w \in Works \ {r.new} : e.page[w].here /\ e.page[w].ext = put.ext => put.ext = 0
    <2>1. put.here => put = stub
      BY NoPageIs
    <2>2. \A w \in Works \ {r.new} : e.page[w] = back.page[w]
      <3> HIDE DEF back
      <3> QED
        BY <1>3, <1>8
    <2>3. \A w \in Works : back.page[w].here /\ back.page[w].ext = stub.ext => stub.ext = 0
      <3> HIDE DEF back
      <3> QED
        BY <1>2, <1>3, ExtFree
    <2> HIDE DEF put, back, stub
    <2> QED
      BY <2>1, <2>2, <2>3
  <1>11. ~put.here => put = Merge!NoPage
    OBVIOUS
  <1> HIDE DEF put, post, back, stub, at
  <1>12. \A w \in Works : ~e.page[w].here => e.page[w] = Merge!NoPage
    BY <1>8, <1>11 DEF Sound
  <1>13. \A k \in Merge!Rows : e.at[k] # 0 => e.page[e.at[k]].here
    <2> SUFFICES ASSUME NEW k \in Merge!Rows, e.at[k] # 0 PROVE e.page[e.at[k]].here
      OBVIOUS
    <2>1. CASE d.at[k] = r.new /\ k \notin post
      BY <1>8, <1>9, <2>1
    <2>2. CASE d.at[k] = r.new /\ k \in post
      BY <1>8, <1>9, <2>2
    <2>3. CASE d.at[k] # r.new
      <3>1. e.at[k] = d.at[k] /\ d.at[k] \in Works /\ d.page[d.at[k]].here /\ d.at[k] # r.old
        BY <1>9, <2>3, WorksArePositive DEF Sound
      <3> QED
        BY <1>8, <2>3, <3>1
    <2> QED
      BY <2>1, <2>2, <2>3
  <1>14. \A j, k \in Joins : j # k /\ e.at[j] = e.at[k] /\ e.at[j] # 0 => PeerOf[j] # PeerOf[k]
    <2>1. \A k \in Joins : /\ d.at[k] \in AnyWork /\ d.at[k] # r.old
                           /\ e.at[k] = (IF d.at[k] = r.new /\ k \notin post THEN r.old ELSE d.at[k])
      BY <1>9 DEF Merge!Rows
    <2>2. \A j, k \in Joins : e.at[j] = e.at[k] /\ e.at[j] # 0 => d.at[j] = d.at[k] /\ d.at[j] # 0
      BY <1>2, <2>1, WorksArePositive
    <2> QED
      BY <2>2 DEF Sound
  <1>15. \A v, w \in Works : v # w /\ e.page[v].here /\ e.page[w].here /\ e.page[v].ext = e.page[w].ext
                             => e.page[v].ext = 0
    <2> SUFFICES ASSUME NEW v \in Works, NEW w \in Works, v # w, e.page[v].here, e.page[w].here,
                        e.page[v].ext = e.page[w].ext
                 PROVE  e.page[v].ext = 0
      OBVIOUS
    <2>1. CASE v = r.new \/ w = r.new
      BY <1>8, <1>10, <2>1
    <2>2. CASE v # r.new /\ w # r.new
      <3>1. \A x \in Works \ {r.old, r.new} : x # r.new /\ e.page[x] = d.page[x]
        BY <1>8
      <3>2. e.page[r.old] = d.page[r.new]
        BY <1>8
      <3>3. CASE v = r.old
        BY <1>2, <2>2, <3>1, <3>2, <3>3 DEF Sound
      <3>4. CASE w = r.old
        BY <1>2, <2>2, <3>1, <3>2, <3>4 DEF Sound
      <3>5. CASE v # r.old /\ w # r.old
        BY <1>2, <2>2, <3>1, <3>5 DEF Sound
      <3> QED
        BY <3>3, <3>4, <3>5
    <2> QED
      BY <2>1, <2>2
  <1> QED
    BY <1>1, <1>2, <1>7, <1>8, <1>9, <1>12, <1>13, <1>14, <1>15, WorksArePositive DEF Sound

\* The survivor's counters and external id, as before the fold where they can be.
LEMMA RelievedSound ==
  ASSUME NEW d \in Site, Sound(d), NEW r \in MergeRecord, Recorded(r), r.action = "fold",
         d.page[r.new].here, r.before[r.new].here, r.after.here
  PROVE  LET e == Merge!Relieved(d, r)
         IN  /\ e \in Site /\ Sound(e) /\ e.at = d.at /\ e.redirect = d.redirect
             /\ \A w \in Works \ {r.new} : e.page[w] = d.page[w]
             /\ e.page[r.new] =
                  [views |-> IF d.page[r.new].views > r.before[r.old].views
                             THEN d.page[r.new].views - r.before[r.old].views ELSE 0,
                   ext |-> IF d.page[r.new].ext = r.after.ext THEN r.before[r.new].ext ELSE d.page[r.new].ext,
                   here |-> TRUE]
  <1> DEFINE v == IF d.page[r.new].views > r.before[r.old].views
                  THEN d.page[r.new].views - r.before[r.old].views ELSE 0
             x == IF d.page[r.new].ext = r.after.ext THEN r.before[r.new].ext ELSE d.page[r.new].ext
             p == [views |-> v, ext |-> x, here |-> TRUE]
  <1>1. PICK e : e = Merge!Relieved(d, r)
    OBVIOUS
  <1>2. r.new \in Works /\ r.old \in Works /\ d.page[r.new] \in Merge!PageType
    BY SiteIs DEF MergeRecord
  <1> DEFINE o == [d.page[r.new] EXCEPT !.views = v, !.ext = x]
  <1>3. o = p
    <2>1. PICK q \in Merge!PageType : q = d.page[r.new]
      BY <1>2
    <2>2. q \in [views : Nat, ext : Works \cup {Merge!None}, here : {TRUE}]
      BY <2>1 DEF Merge!PageType
    <2>3. PICK z : z = o
      OBVIOUS
    <2>4. z \in [views : {v}, ext : {x}, here : {TRUE}]
      BY <2>1, <2>2, <2>3
    <2> HIDE DEF o, v, x
    <2>5. z = [views |-> v, ext |-> x, here |-> TRUE]
      BY <2>4
    <2> QED
      BY <2>3, <2>5
  <1>4. e = [d EXCEPT !.page[r.new] = p]
    <2>1. e = [d EXCEPT !.page[r.new] = o]
      BY <1>1 DEF Merge!Relieved
    <2> HIDE DEF o, p
    <2> QED
      BY <1>3, <2>1
  <1>5. v \in Nat /\ x \in AnyWork
    BY <1>2, PageIs DEF Recorded
  <1>6. p \in Merge!PageType
    BY <1>5 DEF Merge!PageType, Merge!None, AnyWork
  <1>7. x # 0 => x = d.page[r.new].ext
    BY DEF Recorded
  <1> HIDE DEF v, x
  <1>8. e \in Site /\ e.at = d.at /\ e.redirect = d.redirect /\ e.page = [d.page EXCEPT ![r.new] = p]
    BY <1>4, <1>6 DEF Site
  <1>9. e.page[r.new] = p /\ \A w \in Works \ {r.new} : e.page[w] = d.page[w]
    BY <1>2, <1>8, SiteIs
  <1>10. \A w \in Works : (~e.page[w].here => e.page[w] = Merge!NoPage) /\ (d.page[w].here => e.page[w].here)
    BY <1>9 DEF Sound
  <1>11. \A w \in Works : e.page[w].here => d.page[w].here /\ (e.page[w].ext = d.page[w].ext \/ e.page[w].ext = 0)
    BY <1>7, <1>9
  <1>12. \A k \in Merge!Rows : e.at[k] # 0 => e.page[e.at[k]].here
    BY <1>8, <1>10, SiteIs, WorksArePositive DEF Sound
  <1>13. Sound(e)
    BY <1>8, <1>10, <1>11, <1>12 DEF Sound
  <1> QED
    BY <1>1, <1>8, <1>9, <1>13 DEF v, x

\* The pages of an undo.
LEMMA PagesSound ==
  ASSUME NEW d \in Site, Sound(d), NEW r \in MergeRecord, Recorded(r)
  PROVE  LET p == Merge!PagesRestored(d, r)
         IN  /\ p.db \in Site /\ Sound(p.db) /\ p.noted \in BOOLEAN
             /\ \A k \in Merge!Rows : p.db.at[k] = 0 => d.at[k] = 0
  <1> DEFINE p == Merge!PagesRestored(d, r)
             fold == r.action = "fold"
             relieve == d.page[r.new].here /\ r.before[r.new].here /\ r.after.here
             s == IF fold /\ relieve THEN Merge!Relieved(d, r) ELSE d
  <1>1. r.old \in Works /\ r.new \in Works
    BY DEF MergeRecord
  <1>2. CASE d.page[r.old].here
    <2>1. p = [db |-> d, noted |-> TRUE]
      BY <1>2 DEF Merge!PagesRestored, Merge!Here
    <2> HIDE DEF p
    <2> QED
      BY <2>1 DEF p
  <1>3. CASE ~d.page[r.old].here /\ ~fold /\ d.page[r.new].here
    <2>1. p = [db |-> Merge!TakenBack(d, r), noted |-> FALSE]
      BY <1>3 DEF Merge!PagesRestored, Merge!Here
    <2>2. /\ Merge!TakenBack(d, r) \in Site /\ Sound(Merge!TakenBack(d, r))
          /\ \A k \in Merge!Rows : Merge!TakenBack(d, r).at[k] = 0 => d.at[k] = 0
      BY <1>3, TakenBackSound DEF Recorded
    <2> HIDE DEF p
    <2> QED
      BY <2>1, <2>2 DEF p
  <1>4. CASE ~d.page[r.old].here /\ (fold \/ ~d.page[r.new].here) /\ ~r.before[r.old].here
    <2>1. p = [db |-> d, noted |-> TRUE]
      BY <1>4 DEF Merge!PagesRestored, Merge!Here
    <2> HIDE DEF p
    <2> QED
      BY <2>1 DEF p
  <1>5. CASE ~d.page[r.old].here /\ (fold \/ ~d.page[r.new].here) /\ r.before[r.old].here
    <2>1. p = [db |-> Merge!Reinserted(s, r),
               noted |-> (fold /\ ~relieve) \/ Merge!ExtTaken(s, r.before[r.old].ext)]
      BY <1>5 DEF Merge!PagesRestored, Merge!Here
    <2>2. s \in Site /\ Sound(s) /\ s.at = d.at /\ ~s.page[r.old].here
      <3>1. CASE fold /\ relieve
        <4>1. s = Merge!Relieved(d, r) /\ r.old \in Works \ {r.new}
          BY <1>1, <3>1 DEF Recorded
        <4>2. /\ Merge!Relieved(d, r) \in Site /\ Sound(Merge!Relieved(d, r))
              /\ Merge!Relieved(d, r).at = d.at
              /\ \A w \in Works \ {r.new} : Merge!Relieved(d, r).page[w] = d.page[w]
          BY <3>1, RelievedSound
        <4> HIDE DEF s
        <4> QED
          BY <1>5, <4>1, <4>2
      <3>2. CASE ~(fold /\ relieve)
        BY <1>5, <3>2
      <3> QED
        BY <3>1, <3>2
    <2> DEFINE b == [r.before[r.old] EXCEPT !.ext = Merge!ExtOrHolder(s, @)]
    <2>3. /\ b \in Merge!PageType /\ b.here
          /\ b.ext = Merge!ExtOrHolder(s, r.before[r.old].ext)
      <3> HIDE DEF s
      <3>1. r.before[r.old].ext \in AnyWork /\ r.before[r.old] \in Merge!PageType
        BY PageIs DEF Recorded
      <3>2. Merge!ExtOrHolder(s, r.before[r.old].ext) \in AnyWork
        BY <2>2, <3>1, ExtFree
      <3> QED
        BY <1>5, <3>1, <3>2 DEF Merge!PageType, AnyWork, Merge!None
    <2>4. \A v \in Works : s.page[v].here /\ s.page[v].ext = b.ext => b.ext = 0
      <3> HIDE DEF s, b
      <3>1. r.before[r.old].ext \in AnyWork
        BY PageIs DEF Recorded
      <3> QED
        BY <2>2, <2>3, <3>1, ExtFree
    <2>5. Merge!Reinserted(s, r) = [s EXCEPT !.page[r.old] = b]
      BY DEF Merge!Reinserted
    <2>6. /\ Merge!Reinserted(s, r) \in Site /\ Sound(Merge!Reinserted(s, r))
          /\ Merge!Reinserted(s, r).at = s.at
      <3> HIDE DEF s, b
      <3> QED
        BY <1>1, <2>2, <2>3, <2>4, <2>5, PagePut
    <2>7. p.noted \in BOOLEAN
      BY <2>1
    <2> HIDE DEF s, p, b
    <2> QED
      BY <2>1, <2>2, <2>6, <2>7 DEF p
  <1> QED
    BY <1>2, <1>3, <1>4, <1>5

\* The rows of an undo.
LEMMA ChildrenSound ==
  ASSUME NEW d \in Site, Sound(d), NEW r \in MergeRecord, Recorded(r), d.page[r.old].here, NEW a
  PROVE  LET e == Merge!ChildrenRestored(d, r, a)
         IN  /\ e \in Site /\ Sound(e)
             /\ \A k \in Merge!Rows : e.at[k] = 0 => d.at[k] = 0
  <1> DEFINE Back(k) == Merge!Returns(d, r, a, k)
             at == [k \in Merge!Rows |-> IF Back(k) THEN r.old ELSE d.at[k]]
  <1>1. PICK e : e = Merge!ChildrenRestored(d, r, a)
    OBVIOUS
  <1>2. r.old \in Works /\ r.old \in AnyWork
    BY DEF MergeRecord, AnyWork
  <1>3. e = [d EXCEPT !.at = at]
    BY <1>1 DEF Merge!ChildrenRestored
  <1>4. at \in [Merge!Rows -> AnyWork]
    <2> HIDE DEF Back
    <2> QED
      BY <1>2, SiteIs
  <1>5. e \in Site /\ e.at = at /\ e.page = d.page
    <2> HIDE DEF at
    <2> QED
      BY <1>3, <1>4 DEF Site
  <1>6. \A k \in Joins : Back(k) => /\ k \in r.moved /\ d.at[k] # r.old
                                   /\ \A x \in Joins \ {k} : d.at[x] = r.old => PeerOf[x] # PeerOf[k]
    BY DEF Merge!Returns, Merge!Twin, Merge!Held
  <1>7. \A k \in Merge!Rows : e.at[k] = (IF Back(k) THEN r.old ELSE d.at[k])
    BY <1>5
  <1> HIDE DEF Back, at
  <1>8. \A k \in Merge!Rows : e.at[k] # 0 => e.page[e.at[k]].here
    BY <1>5, <1>7 DEF Sound
  <1>9. \A j, k \in Joins : j # k /\ e.at[j] = e.at[k] /\ e.at[j] # 0 => PeerOf[j] # PeerOf[k]
    <2>1. \A k \in Joins : e.at[k] = (IF Back(k) THEN r.old ELSE d.at[k])
      BY <1>7 DEF Merge!Rows
    <2>2. \A j, k \in Joins : j # k /\ Back(j) /\ Back(k) => PeerOf[j] # PeerOf[k]
      BY <1>6 DEF Recorded
    <2> QED
      BY <1>6, <2>1, <2>2 DEF Sound
  <1>10. Sound(e)
    BY <1>5, <1>8, <1>9 DEF Sound
  <1>11. \A k \in Merge!Rows : e.at[k] = 0 => d.at[k] = 0
    BY <1>2, <1>7, WorksArePositive
  <1> QED
    BY <1>1, <1>5, <1>10, <1>11

\* The redirects of an undo.
LEMMA RedirectsOnly ==
  ASSUME NEW d \in Site, Sound(d), NEW r \in MergeRecord
  PROVE  LET e == Merge!RedirectsRestored(d, r)
         IN  e \in Site /\ Sound(e) /\ e.at = d.at /\ e.page = d.page
  <1> DEFINE to == [w \in Works |-> IF w \in r.repointed /\ d.redirect[w] # Merge!None THEN r.old ELSE d.redirect[w]]
  <1>1. PICK e : e = Merge!RedirectsRestored(d, r)
    OBVIOUS
  <1>2. e = [d EXCEPT !.redirect = to]
    BY <1>1 DEF Merge!RedirectsRestored
  <1>3. to \in [Works -> AnyWork]
    BY SiteIs DEF MergeRecord, AnyWork
  <1>4. e \in Site /\ e.at = d.at /\ e.page = d.page
    <2> HIDE DEF to
    <2> QED
      BY <1>2, <1>3 DEF Site
  <1>5. Sound(e)
    BY <1>4 DEF Sound
  <1> QED
    BY <1>1, <1>4, <1>5

LEMMA UndoneSound ==
  ASSUME NEW d \in Site, Sound(d), NEW r \in MergeRecord, Recorded(r), NEW recs
  PROVE  LET u == Merge!Undone(d, recs, r)
         IN  /\ u.db \in Site /\ Sound(u.db) /\ u.noted \in BOOLEAN
             /\ \A k \in Merge!Rows : u.db.at[k] = 0 => d.at[k] = 0
  <1> DEFINE u == Merge!Undone(d, recs, r)
             p == Merge!PagesRestored(d, r)
             a == Merge!Allowed(d, recs, r.new)
             c == IF p.db.page[r.old].here THEN Merge!ChildrenRestored(p.db, r, a) ELSE p.db
             n == p.noted \/ \E k \in Merge!Rows : Merge!Stays(p.db, r, a, k)
  <1>1. CASE r.action = "ledger"
    <2>1. u = [db |-> Merge!RedirectsRestored(d, r), noted |-> FALSE]
      BY <1>1 DEF Merge!Undone
    <2>2. /\ Merge!RedirectsRestored(d, r) \in Site /\ Sound(Merge!RedirectsRestored(d, r))
          /\ Merge!RedirectsRestored(d, r).at = d.at
      BY RedirectsOnly
    <2> HIDE DEF u
    <2> QED
      BY <2>1, <2>2 DEF u
  <1>2. CASE r.action # "ledger"
    <2>1. u = [db |-> Merge!RedirectsRestored(c, r), noted |-> n]
      BY <1>2 DEF Merge!Undone, Merge!Here
    <2>2. /\ p.db \in Site /\ Sound(p.db) /\ p.noted \in BOOLEAN
          /\ \A k \in Merge!Rows : p.db.at[k] = 0 => d.at[k] = 0
      BY PagesSound
    <2> HIDE DEF p
    <2>3. c \in Site /\ Sound(c) /\ \A k \in Merge!Rows : c.at[k] = 0 => d.at[k] = 0
      <3>1. CASE p.db.page[r.old].here
        <4>1. c = Merge!ChildrenRestored(p.db, r, a)
          BY <3>1
        <4>2. PICK q : q = p.db
          OBVIOUS
        <4> HIDE DEF c, a
        <4> QED
          BY <2>2, <3>1, <4>1, <4>2, ChildrenSound
      <3>2. CASE ~p.db.page[r.old].here
        BY <2>2, <3>2
      <3> QED
        BY <3>1, <3>2
    <2> HIDE DEF c
    <2>4. /\ Merge!RedirectsRestored(c, r) \in Site /\ Sound(Merge!RedirectsRestored(c, r))
          /\ Merge!RedirectsRestored(c, r).at = c.at
      BY <2>3, RedirectsOnly
    <2>5. n \in BOOLEAN
      BY <2>2
    <2> HIDE DEF u, n
    <2> QED
      BY <2>1, <2>3, <2>4, <2>5 DEF u
  <1> QED
    BY <1>1, <1>2

-----------------------------------------------------------------------------
(* The records of a number, undone one after another. *)

\* What was recorded of the merge stays when its undo is marked.
LEMMA Marked ==
  ASSUME NEW recs \in Seq(SoundRecord), NEW n \in DOMAIN recs, NEW q \in SoundRecord,
         q.dropped = recs[n].dropped
  PROVE  LET e == [recs EXCEPT ![n] = q]
         IN  /\ e \in Seq(SoundRecord) /\ Len(e) = Len(recs) /\ DOMAIN e = DOMAIN recs
             /\ \A m \in DOMAIN recs : e[m].dropped = recs[m].dropped
  <1>1. PICK e : e = [recs EXCEPT ![n] = q]
    OBVIOUS
  <1>2. Len(recs) \in Nat /\ DOMAIN recs = 1..Len(recs) /\ recs \in [1..Len(recs) -> SoundRecord]
    BY LenProperties
  <1>3. e \in [1..Len(recs) -> SoundRecord] /\ e[n] = q /\ \A m \in DOMAIN recs \ {n} : e[m] = recs[m]
    BY <1>1, <1>2
  <1>4. e \in Seq(SoundRecord) /\ Len(e) = Len(recs)
    BY <1>2, <1>3, SeqDef, LenProperties
  <1> QED
    BY <1>1, <1>2, <1>3, <1>4

\* What a chain of undos may have done to a state.
Since(t, s) ==
  /\ DOMAIN s.recs = DOMAIN t.recs /\ Len(s.recs) = Len(t.recs)
  /\ \A n \in DOMAIN t.recs : s.recs[n].dropped = t.recs[n].dropped
  /\ \A k \in Merge!Rows : s.db.at[k] = 0 => t.db.at[k] = 0
UndoState == [db : SoundSite, recs : Seq(SoundRecord)]

LEMMA UndoOneKeeps ==
  ASSUME NEW s \in UndoState, NEW n \in DOMAIN s.recs, NEW bad
  PROVE  Merge!UndoOne(s, n, bad) \in UndoState /\ Since(s, Merge!UndoOne(s, n, bad))
  <1>1. PICK e : e = Merge!UndoOne(s, n, bad)
    OBVIOUS
  <1>2. PICK d, recs : d = s.db /\ recs = s.recs
    OBVIOUS
  <1>3. d \in SoundSite /\ recs \in Seq(SoundRecord) /\ n \in DOMAIN recs
    BY <1>2 DEF UndoState
  <1>4. PICK r : r = recs[n] /\ r \in SoundRecord
    BY <1>3, ElementOfSeq, LenProperties
  <1>5. CASE n \in bad
    <2>1. PICK q : q = [r EXCEPT !.state = "failed"]
      OBVIOUS
    <2>2. q \in MergeRecord
      BY <1>4, <2>1 DEF SoundRecord, MergeRecord
    <2>3. /\ q.old = r.old /\ q.new = r.new /\ q.before = r.before /\ q.after = r.after
          /\ q.moved = r.moved /\ q.dropped = r.dropped /\ q.action = r.action
      BY <1>4, <2>1 DEF SoundRecord, MergeRecord
    <2>4. q \in SoundRecord
      BY <1>4, <2>2, <2>3 DEF SoundRecord, Recorded
    <2>5. e = [s EXCEPT !.recs = [recs EXCEPT ![n] = q]]
      BY <1>1, <1>2, <1>4, <1>5, <2>1 DEF Merge!UndoOne
    <2>6. PICK f : f = [recs EXCEPT ![n] = q]
      OBVIOUS
    <2>7. /\ f \in Seq(SoundRecord) /\ Len(f) = Len(recs) /\ DOMAIN f = DOMAIN recs
          /\ \A m \in DOMAIN recs : f[m].dropped = recs[m].dropped
      BY <1>3, <1>4, <2>3, <2>4, <2>6, Marked
    <2>8. e \in UndoState /\ e.db = d /\ e.recs = f
      BY <1>2, <2>5, <2>6, <2>7 DEF UndoState
    <2> QED
      BY <1>1, <1>2, <2>7, <2>8 DEF Since
  <1>6. CASE n \notin bad
    <2>1. PICK u : u = Merge!Undone(d, recs, r)
      OBVIOUS
    <2>2. /\ u.db \in SoundSite /\ u.noted \in BOOLEAN
          /\ \A k \in Merge!Rows : u.db.at[k] = 0 => d.at[k] = 0
      BY <1>3, <1>4, <2>1, UndoneSound DEF SoundSite, SoundRecord
    <2>3. PICK q : q = [r EXCEPT !.state = "undone", !.noted = u.noted, !.late = ~d.page[r.new].here]
      OBVIOUS
    <2>4. q \in MergeRecord
      BY <1>4, <2>2, <2>3 DEF SoundRecord, MergeRecord
    <2>5. /\ q.old = r.old /\ q.new = r.new /\ q.before = r.before /\ q.after = r.after
          /\ q.moved = r.moved /\ q.dropped = r.dropped /\ q.action = r.action
      BY <1>4, <2>3 DEF SoundRecord, MergeRecord
    <2>6. q \in SoundRecord
      BY <1>4, <2>4, <2>5 DEF SoundRecord, Recorded
    <2>7. PICK f : f = [recs EXCEPT ![n] = q]
      OBVIOUS
    <2>8. /\ f \in Seq(SoundRecord) /\ Len(f) = Len(recs) /\ DOMAIN f = DOMAIN recs
          /\ \A m \in DOMAIN recs : f[m].dropped = recs[m].dropped
      BY <1>3, <1>4, <2>5, <2>6, <2>7, Marked
    <2>9. e = [db |-> u.db, recs |-> f]
      <3>1. e = [db |-> u.db, recs |-> [recs EXCEPT ![n].state = "undone", ![n].noted = u.noted,
                                                    ![n].late = ~d.page[r.new].here]]
        BY <1>1, <1>2, <1>4, <1>6, <2>1 DEF Merge!UndoOne, Merge!Here
      <3>2. [recs EXCEPT ![n].state = "undone", ![n].noted = u.noted, ![n].late = ~d.page[r.new].here] = f
        BY <1>3, <1>4, <2>3, <2>7, LenProperties
      <3> QED
        BY <3>1, <3>2
    <2>10. e \in UndoState /\ e.db = u.db /\ e.recs = f
      BY <2>2, <2>8, <2>9 DEF UndoState
    <2> QED
      BY <1>1, <1>2, <2>2, <2>8, <2>10 DEF Since
  <1> QED
    BY <1>5, <1>6

\* A recursion over the first numbers has a solution.
Solution(f, D, x0, step, last) ==
  f \in [0..last -> D] /\ f[0] = x0 /\ \A i \in 1..last : f[i] = step[i][f[i - 1]]

LEMMA StepByStep ==
  ASSUME NEW D, NEW x0 \in D, NEW step \in [Nat -> [D -> D]], NEW last \in Nat
  PROVE  \E f : Solution(f, D, x0, step, last)
  <1> DEFINE Solves(f, n) == Solution(f, D, x0, step, n)
             P == {n \in Nat : \E f : Solves(f, n)}
  <1>1. 0 \in P
    <2>1. Solves([i \in 0..0 |-> x0], 0)
      BY DEF Solution
    <2> QED
      BY <2>1
  <1>2. ASSUME NEW n \in P PROVE n + 1 \in P
    <2>1. PICK f : /\ f \in [0..n -> D] /\ f[0] = x0
                   /\ \A i \in 1..n : f[i] = step[i][f[i - 1]]
      BY DEF Solution
    <2> DEFINE g == [i \in 0..(n + 1) |-> IF i = n + 1 THEN step[n + 1][f[n]] ELSE f[i]]
    <2>2. f[n] \in D /\ step[n + 1][f[n]] \in D /\ n \in Nat
      BY <2>1
    <2>3. g \in [0..(n + 1) -> D]
      BY <2>1, <2>2
    <2>4. \A i \in 0..n : g[i] = f[i]
      BY <2>2
    <2>5. g[n + 1] = step[n + 1][f[n]]
      BY <2>2
    <2> HIDE DEF g
    <2>6. g[0] = x0
      BY <2>1, <2>2, <2>4
    <2>7. ASSUME NEW i \in 1..(n + 1) PROVE g[i] = step[i][g[i - 1]]
      <3>1. CASE i = n + 1
        BY <2>2, <2>4, <2>5, <3>1
      <3>2. CASE i # n + 1
        <4>1. i \in 1..n /\ i \in 0..n /\ i - 1 \in 0..n
          BY <2>2, <3>2
        <4> QED
          BY <2>1, <2>4, <4>1
      <3> QED
        BY <3>1, <3>2
    <2>8. Solves(g, n + 1)
      BY <2>3, <2>6, <2>7 DEF Solution
    <2> QED
      BY <2>2, <2>8
  <1> HIDE DEF P
  <1>3. P = Nat
    <2>1. P \in SUBSET Nat
      BY DEF P
    <2> QED
      BY <1>1, <1>2, <2>1, EveryNumber
  <1> QED
    BY <1>3 DEF P

\* All records of a number.
LEMMA UndoneKeeps ==
  ASSUME NEW s \in UndoState, NEW S \in SUBSET DOMAIN s.recs, NEW bad
  PROVE  Merge!UndoneFrom(s, S, bad) \in UndoState /\ Since(s, Merge!UndoneFrom(s, S, bad))
  <1> DEFINE newest == Len(s.recs)
             D == {x \in UndoState : Since(s, x)}
             Place(i) == newest + 1 - i
             Next0(i, x) == IF Place(i) \in S THEN Merge!UndoOne(x, Place(i), bad) ELSE x
             step == [i \in Nat |-> [x \in D |-> Next0(i, x)]]
             Past(f) == f = [i \in 0..newest |-> IF i = 0 THEN s ELSE Next0(i, f[i - 1])]
  <1>1. newest \in Nat
    BY LenProperties DEF UndoState
  <1>2. s \in D
    BY DEF Since
  <1>3. ASSUME NEW i \in Nat, NEW x \in D PROVE Next0(i, x) \in D
    <2>1. CASE Place(i) \in S
      <3>1. PICK n \in DOMAIN s.recs : n = Place(i)
        BY <2>1
      <3>2. n \in DOMAIN x.recs /\ x \in UndoState /\ Since(s, x)
        BY <3>1 DEF Since
      <3>3. PICK y : y = Merge!UndoOne(x, n, bad)
        OBVIOUS
      <3>4. y \in UndoState /\ Since(x, y)
        BY <3>2, <3>3, UndoOneKeeps
      <3>5. Since(s, y)
        BY <3>2, <3>4 DEF Since
      <3>6. Next0(i, x) = y
        BY <2>1, <3>1, <3>3
      <3> HIDE DEF Next0
      <3> QED
        BY <3>4, <3>5, <3>6
    <2>2. CASE Place(i) \notin S
      BY <2>2
    <2> QED
      BY <2>1, <2>2
  <1> HIDE DEF Next0, D
  <1>4. step \in [Nat -> [D -> D]]
    BY <1>3
  <1>5. PICK f \in [0..newest -> D] : f[0] = s /\ \A i \in 1..newest : f[i] = step[i][f[i - 1]]
    <2>1. PICK t, l : t = step /\ l = newest
      OBVIOUS
    <2> HIDE DEF step, newest
    <2>2. t \in [Nat -> [D -> D]] /\ l \in Nat
      BY <1>1, <1>4, <2>1
    <2>3. \E g : Solution(g, D, s, t, l)
      BY <1>2, <2>2, StepByStep
    <2> QED
      BY <2>1, <2>3 DEF Solution
  <1>6. Past(f)
    <2>1. \A i \in 1..newest : f[i - 1] \in D /\ f[i] = Next0(i, f[i - 1])
      <3> SUFFICES ASSUME NEW i \in 1..newest PROVE f[i - 1] \in D /\ f[i] = Next0(i, f[i - 1])
        OBVIOUS
      <3>1. f[i - 1] \in D /\ i \in Nat /\ f[i] = step[i][f[i - 1]]
        <4> HIDE DEF step, newest
        <4> QED
          BY <1>1, <1>5
      <3> QED
        BY <3>1
    <2>2. \A i \in 0..newest : f[i] = (IF i = 0 THEN s ELSE Next0(i, f[i - 1]))
      BY <1>1, <1>5, <2>1
    <2> QED
      BY <1>5, <2>2
  <1>7. PICK p : p = (CHOOSE g : Past(g)) /\ Past(p)
    BY <1>6
  <1>8. Merge!UndoneFrom(s, S, bad) = p[newest]
    BY <1>7 DEF Merge!UndoneFrom, Next0
  <1>9. p[newest] \in D
    <2> DEFINE P == {i \in Nat : i <= newest => p[i] \in D}
    <2>1. \A i \in 0..newest : p[i] = (IF i = 0 THEN s ELSE Next0(i, p[i - 1]))
      BY <1>7
    <2>2. 0 \in P
      BY <1>1, <1>2, <2>1
    <2>3. ASSUME NEW i \in P PROVE i + 1 \in P
      <3> SUFFICES ASSUME i + 1 <= newest PROVE p[i + 1] \in D
        OBVIOUS
      <3>1. i + 1 \in 0..newest /\ i + 1 # 0 /\ (i + 1) - 1 = i /\ i <= newest /\ i + 1 \in Nat
        BY <1>1
      <3>2. p[i] \in D /\ p[i + 1] = Next0(i + 1, p[i])
        BY <2>1, <3>1
      <3> QED
        BY <1>3, <3>1, <3>2
    <2> HIDE DEF P
    <2>4. P = Nat
      <3>1. P \in SUBSET Nat
        BY DEF P
      <3> QED
        BY <2>2, <2>3, <3>1, EveryNumber
    <2> QED
      BY <1>1, <2>4 DEF P
  <1> QED
    BY <1>8, <1>9 DEF D

-----------------------------------------------------------------------------
(* Catalog. *)

LEMMA SizeOfWorks == Merge!Cardinality(Works) \in Nat \ {0} /\ \A S \in SUBSET Works : Merge!Cardinality(S) \in Nat
  <1>1. \A S : Merge!Cardinality(S) = Cardinality(S)
    BY DEF Merge!Cardinality, Cardinality
  <1>2. \A S \in SUBSET Works : Cardinality(S) \in Nat
    BY MergeAssumption, FS_Subset, FS_CardinalityType
  <1>3. Cardinality(Works) # 0
    BY MergeAssumption, FS_EmptySet
  <1> QED
    BY <1>1, <1>2, <1>3

\* Where a merged work leads is another work.
LEMMA CurrentIs ==
  ASSUME MergeShape, Forest, NEW w \in Works
  PROVE  Merge!Current(w) \in Works /\ (m_into[w] # w => Merge!Current(w) # w)
  <1> DEFINE Up(f) == f = [n \in 0..Merge!Cardinality(Works) |-> IF n = 0 THEN w ELSE m_into[f[n - 1]]]
  <1>1. PICK last \in Nat \ {0} : last = Merge!Cardinality(Works)
    BY SizeOfWorks
  <1>2. PICK f : f \in [0..last -> Works] /\ f[0] = w /\ \A i \in 1..last : f[i] = m_into[f[i - 1]]
    <2>1. PICK t : t = [i \in Nat |-> m_into]
      OBVIOUS
    <2>2. t \in [Nat -> [Works -> Works]]
      BY <2>1 DEF MergeShape
    <2>3. PICK f : Solution(f, Works, w, t, last)
      BY <2>2, StepByStep
    <2>4. \A i \in 1..last : t[i] = m_into
      BY <2>1
    <2> QED
      BY <2>3, <2>4 DEF Solution
  <1>3. Up(f)
    <2>1. \A n \in 0..last : n # 0 => n \in 1..last
      BY <1>1
    <2>2. f = [n \in 0..last |-> IF n = 0 THEN w ELSE m_into[f[n - 1]]]
      BY <1>2, <2>1
    <2> QED
      BY <1>1, <2>2
  <1>4. PICK u : u = (CHOOSE g : Up(g)) /\ Up(u)
    BY <1>3
  <1>5. Merge!Current(w) = u[last]
    BY <1>1, <1>4 DEF Merge!Current, Merge!Climb
  <1>6. \A n \in 0..last : u[n] = (IF n = 0 THEN w ELSE m_into[u[n - 1]])
    BY <1>1, <1>4
  <1>7. PICK h \in [Works -> Nat] : \A v \in Works : m_into[v] # v => h[v] < h[m_into[v]]
    BY DEF Forest
  <1> DEFINE Rises(n) == /\ u[n] \in Works /\ h[w] <= h[u[n]]
                         /\ n # 0 /\ m_into[w] # w => h[w] < h[u[n]]
             P == {n \in Nat : n <= last => Rises(n)}
  <1>8. 0 \in P
    BY <1>1, <1>6, <1>7
  <1>9. ASSUME NEW n \in P PROVE n + 1 \in P
    <2> SUFFICES ASSUME n + 1 <= last
                 PROVE  /\ u[n + 1] \in Works /\ h[w] <= h[u[n + 1]]
                        /\ m_into[w] # w => h[w] < h[u[n + 1]]
      OBVIOUS
    <2>0. Rises(n)
      <3> HIDE DEF Rises
      <3>1. n \in Nat /\ n <= last
        BY <1>1
      <3> QED
        BY <3>1
    <2>1. n \in Nat /\ n <= last /\ n + 1 \in 0..last /\ n + 1 # 0 /\ (n + 1) - 1 = n
      BY <1>1
    <2>2. /\ u[n] \in Works /\ h[w] <= h[u[n]]
          /\ n # 0 /\ m_into[w] # w => h[w] < h[u[n]]
      BY <2>0
    <2>3. u[n + 1] = m_into[u[n]]
      BY <1>6, <2>1
    <2>4. m_into[u[n]] \in Works
      BY <2>2 DEF MergeShape
    <2>5. m_into[u[n]] # u[n] => h[u[n]] < h[m_into[u[n]]]
      BY <1>7, <2>2
    <2>6. n = 0 => u[n] = w
      BY <1>6, <2>1
    <2>7. h[w] \in Nat /\ h[u[n]] \in Nat /\ h[m_into[u[n]]] \in Nat
      BY <1>7, <2>2, <2>4
    <2> QED
      BY <2>2, <2>3, <2>4, <2>5, <2>6, <2>7
  <1> HIDE DEF P
  <1>10. P = Nat
    <2>1. P \in SUBSET Nat
      BY DEF P
    <2> QED
      BY <1>8, <1>9, <2>1, EveryNumber
  <1>11. u[last] \in Works /\ (m_into[w] # w => h[w] < h[u[last]])
    <2>1. Rises(last)
      <3> HIDE DEF Rises
      <3> QED
        BY <1>1, <1>10 DEF P
    <2> QED
      BY <1>1, <2>1
  <1> QED
    BY <1>5, <1>7, <1>11

LEMMA RestampIs ==
  ASSUME MergeShape, NEW changed, changed \subseteq Works, Merge!Restamp(changed)
  PROVE  m_at' \in [Works -> Nat]
  <1>1. PICK R : R = Merge!Range(m_at)
    OBVIOUS
  <1>2. R = {m_at[w] : w \in Works}
    BY <1>1 DEF Merge!Range, MergeShape
  <1>3. R \subseteq Nat /\ R # {}
    BY <1>2, MergeAssumption DEF MergeShape
  <1>4. IsFiniteSet(R)
    <2>1. m_at \in Surjection(Works, R)
      BY <1>2 DEF Surjection, MergeShape
    <2> QED
      BY <2>1, MergeAssumption, FS_Surjection
  <1>5. Merge!Max(R) \in Nat
    <2>1. Merge!Max(R) = Inbox!Max(R)
      BY DEF Merge!Max, Inbox!Max
    <2> QED
      BY <1>3, <1>4, <2>1, GreatestNumber
  <1>6. \A w \in Works : Merge!Cardinality({x \in changed : x <= w}) \in Nat
    BY SizeOfWorks
  <1>7. m_at' = [w \in Works |-> IF w \in changed
                                THEN Merge!Max(R) + Merge!Cardinality({x \in changed : x <= w})
                                ELSE m_at[w]]
    BY <1>1 DEF Merge!Restamp
  <1>8. PICK m, rank : m = Merge!Max(R) /\ rank = [w \in Works |-> Merge!Cardinality({x \in changed : x <= w})]
    OBVIOUS
  <1>9. rank \in [Works -> Nat] /\ m \in Nat
    BY <1>5, <1>6, <1>8
  <1>10. m_at' = [w \in Works |-> IF w \in changed THEN m + rank[w] ELSE m_at[w]]
    BY <1>7, <1>8
  <1> QED
    BY <1>9, <1>10 DEF MergeShape

\* A step of catalog.
LEMMA CatalogMerges ==
  ASSUME MergeInv,
         \/ \E a, b \in Works : Merge!CatalogMerge(a, b)
         \/ \E a \in Works : Merge!CatalogUndo(a)
  PROVE  MergeInv'
  <1>1. PICK a \in Works, b \in Works :
          /\ m_into' = [m_into EXCEPT ![a] = b] /\ (a = b \/ (a # b /\ m_into[b] = b))
          /\ Merge!Bounded /\ Merge!Restamp(Merge!Under(a))
          /\ UNCHANGED <<m_acts, m_born, m_gone, m_cursor, m_batch, m_fails, m_handled, m_db, m_records>>
    BY DEF Merge!CatalogMerge, Merge!CatalogUndo, Merge!readerVars, Merge!syncVars
  <1>2. m_at' \in [Works -> Nat]
    <2>1. Merge!Under(a) \subseteq Works
      BY DEF Merge!Under
    <2> QED
      BY <1>1, <2>1, RestampIs DEF MergeInv
  <1>3. m_changes' \in 0..MaxCatalog /\ m_rounds' \in Nat
    BY <1>1, MergeAssumption DEF MergeInv, MergeShape, Merge!Bounded
  <1>4. m_into' \in [Works -> Works]
    BY <1>1 DEF MergeInv, MergeShape
  <1>5. MergeShape'
    BY <1>1, <1>2, <1>3, <1>4 DEF MergeInv, MergeShape
  <1>6. Forest'
    <2>1. PICK h \in [Works -> Nat] : \A w \in Works : m_into[w] # w => h[w] < h[m_into[w]]
      BY DEF MergeInv, Forest
    <2>2. m_into \in [Works -> Works]
      BY DEF MergeInv, MergeShape
    <2>3. CASE a = b
      <3>1. \A w \in Works : m_into'[w] # w => m_into'[w] = m_into[w]
        BY <1>1, <2>2, <2>3
      <3> QED
        BY <2>1, <3>1 DEF Forest
    <2>4. CASE a # b
      <3>1. PICK g : g = [h EXCEPT ![b] = h[a] + h[b] + 1]
        OBVIOUS
      <3>2. g \in [Works -> Nat] /\ g[b] = h[a] + h[b] + 1 /\ \A w \in Works \ {b} : g[w] = h[w]
        BY <2>1, <3>1
      <3>3. ASSUME NEW w \in Works, m_into'[w] # w PROVE g[w] < g[m_into'[w]]
        <4>1. w # b
          BY <1>1, <2>2, <2>4, <3>3
        <4>2. CASE w = a
          <5>1. m_into'[w] = b /\ g[w] = h[a] /\ h[a] \in Nat /\ h[b] \in Nat
            BY <1>1, <2>1, <2>2, <2>4, <3>2, <4>2
          <5> QED
            BY <3>2, <5>1
        <4>3. CASE w # a
          <5>1. m_into'[w] = m_into[w] /\ m_into[w] \in Works /\ h[w] < h[m_into[w]] /\ g[w] = h[w]
            BY <1>1, <2>1, <2>2, <3>2, <3>3, <4>1, <4>3
          <5>2. h[w] \in Nat /\ h[a] \in Nat /\ h[b] \in Nat /\ h[m_into[w]] \in Nat
            BY <2>1, <5>1
          <5>3. CASE m_into[w] = b
            BY <3>2, <5>1, <5>2, <5>3
          <5>4. CASE m_into[w] # b
            BY <3>2, <5>1, <5>2, <5>4
          <5> QED
            BY <5>3, <5>4
        <4> QED
          BY <4>2, <4>3
      <3> QED
        BY <3>2, <3>3 DEF Forest
    <2> QED
      BY <2>3, <2>4
  <1>7. NotLost'
    BY <1>1 DEF MergeInv, NotLost
  <1> QED
    BY <1>5, <1>6, <1>7 DEF MergeInv

-----------------------------------------------------------------------------
(* The drain. *)

LEMMA BatchIs ==
  ASSUME MergeShape
  PROVE  /\ m_batch.items \in Seq(SoundItem) /\ m_batch.pages \subseteq Works
         /\ m_batch.ledger \in [Works -> AnyWork] /\ m_batch.next \in Nat
  BY DEF MergeShape, FeedBatch

LEMMA NoBatchIs == Merge!NoBatch \in FeedBatch
  <1>1. <<>> \in Seq(SoundItem)
    BY EmptySeq
  <1> QED
    BY <1>1 DEF Merge!NoBatch, FeedBatch, Merge!None, AnyWork

LEMMA ItemIs ==
  ASSUME MergeShape, Forest, NEW w \in Works
  PROVE  /\ Merge!Item(w) \in SoundItem /\ Merge!Item(w).old \in Works
         /\ Merge!Item(w).new \in Works /\ Merge!Item(w).stamp \in Nat
  <1>1. PICK c, i, rev : c = Merge!Current(w) /\ i = Merge!Item(w) /\ rev = (m_into[w] = w)
    OBVIOUS
  <1>2. c \in Works /\ (~rev => c # w) /\ rev \in BOOLEAN /\ m_at[w] \in Nat
    BY <1>1, CurrentIs DEF MergeShape
  <1>3. i = [old |-> w, new |-> c, revoked |-> rev, stamp |-> m_at[w]]
    BY <1>1 DEF Merge!Item
  <1>4. i \in MergeItem /\ i.old = w /\ i.new = c /\ i.revoked = rev /\ i.stamp \in Nat
    BY <1>2, <1>3 DEF MergeItem
  <1> QED
    BY <1>1, <1>2, <1>4 DEF SoundItem

LEMMA FetchMerges ==
  ASSUME MergeInv, Merge!Fetch
  PROVE  MergeInv'
  <1> DEFINE S == {w \in Works : m_at[w] > m_cursor}
             Size(f) == IF Len(f) > MergePage THEN MergePage ELSE Len(f)
             Items(f) == [i \in 1..Size(f) |-> Merge!Item(f[i])]
             Named(f) == UNION {{Items(f)[i].old, Items(f)[i].new} : i \in 1..Size(f)}
  <1>1. PICK feed \in Merge!FeedAfter(m_cursor) :
          /\ Size(feed) > 0
          /\ m_batch' = [items |-> Items(feed), on |-> TRUE,
                         pages |-> {w \in Named(feed) : Merge!Here(m_db, w)},
                         ledger |-> [w \in Works |-> IF w \in Named(feed) THEN m_db.redirect[w] ELSE Merge!None],
                         next |-> IF Size(feed) = MergePage THEN Items(feed)[Size(feed)].stamp ELSE Merge!None]
          /\ UNCHANGED <<m_into, m_at, m_changes, m_acts, m_born, m_gone, m_db, m_records, m_cursor,
                         m_fails, m_handled, m_rounds>>
    BY DEF Merge!Fetch, Merge!catalogVars, Merge!readerVars
  <1>2. PICK c \in Nat : c = Merge!Cardinality(S)
    BY SizeOfWorks
  <1>3. feed \in [1..c -> S]
    BY <1>1, <1>2 DEF Merge!FeedAfter
  <1>4. \A w \in S : w \in Works
    OBVIOUS
  <1> HIDE DEF S
  <1>5. feed \in Seq(S) /\ Len(feed) = c /\ \A i \in 1..c : feed[i] \in S
    <2>1. feed \in Seq(S)
      BY <1>2, <1>3, SeqDef
    <2>2. DOMAIN feed = 1..c /\ DOMAIN feed = 1..Len(feed) /\ Len(feed) \in Nat
      BY <1>3, <2>1, LenProperties
    <2> QED
      BY <1>2, <1>3, <2>1, <2>2
  <1>6. PICK n : n = Size(feed)
    OBVIOUS
  <1>7. n \in Nat \ {0} /\ n <= c
    BY <1>1, <1>2, <1>5, <1>6, MergeAssumption
  <1>8. PICK items : items = Items(feed)
    OBVIOUS
  <1>9. items = [i \in 1..n |-> Merge!Item(feed[i])]
    BY <1>6, <1>8
  <1>10. \A i \in 1..n : /\ Merge!Item(feed[i]) \in SoundItem /\ Merge!Item(feed[i]).old \in Works
                         /\ Merge!Item(feed[i]).new \in Works /\ Merge!Item(feed[i]).stamp \in Nat
    <2>1. \A i \in 1..n : feed[i] \in Works
      BY <1>2, <1>4, <1>5, <1>7
    <2> QED
      BY <2>1, ItemIs DEF MergeInv
  <1>11. \A i \in 1..n : items[i] \in SoundItem /\ items[i].old \in Works /\ items[i].new \in Works /\ items[i].stamp \in Nat
    BY <1>9, <1>10
  <1>12. items \in Seq(SoundItem)
    <2>1. items \in [1..n -> SoundItem]
      BY <1>9, <1>10
    <2> QED
      BY <1>7, <2>1, SeqDef
  <1>13. PICK ids : ids = Named(feed)
    OBVIOUS
  <1>14. ids \subseteq Works
    <2>1. ids = UNION {{items[i].old, items[i].new} : i \in 1..n}
      BY <1>6, <1>8, <1>13
    <2> QED
      BY <1>11, <2>1
  <1>15. m_db.redirect \in [Works -> AnyWork]
    BY SiteIs DEF MergeInv, MergeShape, SoundSite
  <1>16. m_batch' \in FeedBatch
    <2>1. m_batch' = [items |-> items, on |-> TRUE, pages |-> {w \in ids : Merge!Here(m_db, w)},
                      ledger |-> [w \in Works |-> IF w \in ids THEN m_db.redirect[w] ELSE 0],
                      next |-> IF n = MergePage THEN items[n].stamp ELSE 0]
      BY <1>1, <1>6, <1>8, <1>13 DEF Merge!None
    <2>2. {w \in ids : Merge!Here(m_db, w)} \in SUBSET Works
      BY <1>14
    <2>3. [w \in Works |-> IF w \in ids THEN m_db.redirect[w] ELSE 0] \in [Works -> AnyWork]
      BY <1>15 DEF AnyWork
    <2>4. (IF n = MergePage THEN items[n].stamp ELSE 0) \in Nat
      BY <1>7, <1>11
    <2> QED
      BY <1>12, <2>1, <2>2, <2>3, <2>4 DEF FeedBatch
  <1>17. MergeShape'
    BY <1>1, <1>16 DEF MergeInv, MergeShape
  <1>18. Forest' /\ NotLost'
    BY <1>1 DEF MergeInv, Forest, NotLost
  <1> QED
    BY <1>17, <1>18 DEF MergeInv

\* The first row of the batch.
LEMMA HeadIs ==
  ASSUME MergeShape, Merge!Busy
  PROVE  /\ Head(m_batch.items) \in SoundItem /\ Tail(m_batch.items) \in Seq(SoundItem)
         /\ Head(m_batch.items).old \in Works /\ Head(m_batch.items).new \in Works
         /\ Head(m_batch.items).stamp \in Nat
         /\ ~Head(m_batch.items).revoked => Head(m_batch.items).old # Head(m_batch.items).new
  <1>1. Head(m_batch.items) \in SoundItem /\ Tail(m_batch.items) \in Seq(SoundItem)
    BY BatchIs, HeadTailProperties DEF Merge!Busy
  <1> QED
    BY <1>1 DEF SoundItem, MergeItem

LEMMA DoneIs ==
  ASSUME MergeShape, Merge!Busy, NEW pages \in SUBSET Works, NEW ledger \in [Works -> AnyWork],
         Merge!Done(pages, ledger)
  PROVE  /\ m_batch' \in FeedBatch /\ m_handled' \in [Works -> Nat]
         /\ UNCHANGED <<m_into, m_at, m_changes, m_acts, m_born, m_gone, m_cursor, m_rounds>>
  <1>1. m_batch' = [m_batch EXCEPT !.items = Tail(m_batch.items), !.pages = pages, !.ledger = ledger]
    BY DEF Merge!Done
  <1>2. m_batch' \in FeedBatch
    BY <1>1, HeadIs DEF MergeShape, FeedBatch
  <1>3. m_handled' \in [Works -> Nat]
    BY HeadIs DEF MergeShape, Merge!Done
  <1> QED
    BY <1>2, <1>3 DEF Merge!Done, Merge!catalogVars, Merge!readerVars

LEMMA PassMerges ==
  ASSUME MergeInv, Merge!Pass
  PROVE  MergeInv'
  <1>1. Merge!Busy /\ Merge!Done(m_batch.pages, m_batch.ledger) /\ UNCHANGED <<m_db, m_records, m_fails>>
    BY DEF Merge!Pass
  <1>2. /\ m_batch' \in FeedBatch /\ m_handled' \in [Works -> Nat]
        /\ UNCHANGED <<m_into, m_at, m_changes, m_acts, m_born, m_gone, m_cursor, m_rounds>>
    BY <1>1, BatchIs, DoneIs DEF MergeInv
  <1>3. MergeShape'
    BY <1>1, <1>2 DEF MergeInv, MergeShape
  <1>4. Forest' /\ NotLost'
    BY <1>1, <1>2 DEF MergeInv, Forest, NotLost
  <1> QED
    BY <1>3, <1>4 DEF MergeInv

\* The tick ends with an error, dies, or is done with the page.
LEMMA EndMerges ==
  ASSUME MergeInv, Merge!FollowFails \/ Merge!EndPage \/ Merge!Crash
  PROVE  MergeInv'
  <1>1. /\ m_batch' = Merge!NoBatch
        /\ UNCHANGED <<m_into, m_at, m_changes, m_acts, m_born, m_gone, m_db, m_records, m_handled>>
    BY DEF Merge!FollowFails, Merge!EndPage, Merge!Crash, Merge!catalogVars, Merge!readerVars
  <1>2. m_cursor' \in Nat /\ m_rounds' \in Nat /\ m_fails' \in 0..MaxFail
    BY BatchIs, MergeAssumption
    DEF MergeInv, MergeShape, Merge!FollowFails, Merge!EndPage, Merge!Crash, Merge!Rounds
  <1>3. MergeShape'
    BY <1>1, <1>2, NoBatchIs DEF MergeInv, MergeShape
  <1>4. Forest' /\ NotLost'
    BY <1>1 DEF MergeInv, Forest, NotLost
  <1> QED
    BY <1>3, <1>4 DEF MergeInv
-----------------------------------------------------------------------------
(* A merge followed. *)

\* The record of a merge, and the rows as it leaves them.
LEMMA MoveSound ==
  ASSUME NEW d \in Site, Sound(d), NEW old \in Works, NEW new \in Works, old # new,
         NEW action \in {"fold", "renumber", "ledger"},
         action = "renumber" => ~(d.page[old].here /\ d.page[new].here),
         action = "fold" => d.page[new].here \/ Merge!Children(d, old) = {}
  PROVE  LET e == Merge!Moved(d, action, old, new)
         IN  /\ e \in Site /\ Sound(e)
             /\ \A k \in Merge!Rows : e.at[k] = 0 /\ d.at[k] # 0 => k \in Merge!Children(d, old)
             /\ action = "fold" /\ d.page[new].here /\ e.page[new].here /\ d.page[new].ext # 0
                  => e.page[new].ext = d.page[new].ext
  <1>1. CASE action = "fold"
    <2>1. Merge!Moved(d, action, old, new) = Merge!Folded(d, old, new)
      BY <1>1 DEF Merge!Moved
    <2> QED
      BY <1>1, <2>1, FoldSound
  <1>2. CASE action = "renumber"
    <2>1. Merge!Moved(d, action, old, new) = Merge!Renumbered(d, old, new)
      BY <1>2 DEF Merge!Moved
    <2> QED
      BY <1>2, <2>1, RenumberSound
  <1>3. CASE action = "ledger"
    <2>1. Merge!Moved(d, action, old, new) = d
      BY <1>3 DEF Merge!Moved
    <2> QED
      BY <1>3, <2>1
  <1> QED
    BY <1>1, <1>2, <1>3

LEMMA BegunIs ==
  ASSUME NEW d \in Site, Sound(d), NEW old \in Works, NEW new \in Works, old # new,
         NEW action \in {"fold", "renumber", "ledger"}
  PROVE  LET r == Merge!Begun(d, action, old, new)
         IN  /\ r \in MergeRecord /\ r.old = old /\ r.new = new /\ r.action = action
             /\ r.moved = Merge!Children(d, old)
             /\ r.before[old] = d.page[old] /\ r.before[new] = d.page[new]
             /\ r.repointed = {w \in Works : d.redirect[w] = old}
             /\ \A j, k \in r.moved \cap Joins : j # k => PeerOf[j] # PeerOf[k]
  <1>1. PICK r, f, moved, to :
          /\ r = Merge!Begun(d, action, old, new) /\ f = [w \in {old, new} |-> d.page[w]]
          /\ moved = Merge!Children(d, old) /\ to = {w \in Works : d.redirect[w] = old}
    OBVIOUS
  <1>2. r = [old |-> old, new |-> new, action |-> action, state |-> "open",
             noted |-> FALSE, late |-> FALSE, before |-> f, after |-> Merge!NoPage,
             moved |-> moved, dropped |-> {}, repointed |-> to]
    BY <1>1 DEF Merge!Begun
  <1>3. f \in Snapshots /\ f[old] = d.page[old] /\ f[new] = d.page[new]
    <2>1. f \in [{old, new} -> Merge!PageType]
      BY <1>1, SiteIs
    <2> QED
      BY <1>1, <2>1, SnapshotIs
  <1>4. moved \in SUBSET Merge!Rows /\ to \in SUBSET Works
    BY <1>1 DEF Merge!Children
  <1>5. r \in MergeRecord
    BY <1>2, <1>3, <1>4, NoPageIs DEF MergeRecord
  <1>6. \A j, k \in moved \cap Joins : j # k => PeerOf[j] # PeerOf[k]
    BY <1>1, WorksArePositive DEF Sound, Merge!Children
  <1> QED
    BY <1>1, <1>2, <1>3, <1>5, <1>6

LEMMA FinishedSound ==
  ASSUME NEW d \in Site, Sound(d), NEW old \in Works, NEW new \in Works, old # new,
         NEW action \in {"fold", "renumber", "ledger"}, NEW e \in Site, Sound(e),
         action = "fold" /\ d.page[new].here /\ e.page[new].here /\ d.page[new].ext # 0
           => e.page[new].ext = d.page[new].ext
  PROVE  LET r == Merge!Finished(e, Merge!Begun(d, action, old, new))
         IN  /\ r \in SoundRecord /\ r.dropped = {k \in Merge!Children(d, old) : e.at[k] = 0}
             /\ r.old = old /\ r.new = new /\ r.action = action /\ r.moved = Merge!Children(d, old)
             /\ r.before[old] = d.page[old] /\ r.before[new] = d.page[new] /\ r.after = e.page[new]
             /\ r.repointed = {w \in Works : d.redirect[w] = old}
  <1>1. PICK b : b = Merge!Begun(d, action, old, new)
    OBVIOUS
  <1>2. /\ b \in MergeRecord /\ b.old = old /\ b.new = new /\ b.action = action
        /\ b.moved = Merge!Children(d, old)
        /\ b.before[old] = d.page[old] /\ b.before[new] = d.page[new]
        /\ b.repointed = {w \in Works : d.redirect[w] = old}
        /\ \A j, k \in b.moved \cap Joins : j # k => PeerOf[j] # PeerOf[k]
    BY <1>1, BegunIs
  <1>3. PICK lost, p, late : lost = {k \in b.moved : e.at[k] = 0} /\ p = e.page[new] /\ late = ~p.here
    OBVIOUS
  <1>4. PICK r : r = Merge!Finished(e, b)
    OBVIOUS
  <1>5. r = [b EXCEPT !.after = p, !.late = late, !.dropped = lost]
    BY <1>2, <1>3, <1>4 DEF Merge!Finished, Merge!Here, Merge!None
  <1>6. p \in Merge!PageType /\ late \in BOOLEAN /\ lost \in SUBSET Merge!Rows
    BY <1>2, <1>3, SiteIs DEF MergeRecord
  <1>7. r \in MergeRecord
    BY <1>2, <1>5, <1>6 DEF MergeRecord
  <1>8. /\ r.old = b.old /\ r.new = b.new /\ r.action = b.action /\ r.moved = b.moved /\ r.before = b.before
        /\ r.after = p /\ r.dropped = lost /\ r.repointed = b.repointed
    BY <1>2, <1>5 DEF MergeRecord
  <1>9. Recorded(r)
    <2>1. r.before[r.old] \in Merge!PageType /\ r.before[r.new] \in Merge!PageType
      BY <1>2, <1>8, SiteIs
    <2>2. r.dropped \subseteq r.moved
      BY <1>3, <1>8
    <2>3. r.action = "fold" /\ r.before[r.new].here /\ r.after.here /\ r.before[r.new].ext # 0
            => r.after.ext = r.before[r.new].ext
      BY <1>2, <1>3, <1>8
    <2> QED
      BY <1>2, <1>8, <2>1, <2>2, <2>3 DEF Recorded
  <1> QED
    BY <1>1, <1>2, <1>3, <1>4, <1>7, <1>8, <1>9 DEF SoundRecord

LEMMA FlatSound ==
  ASSUME NEW d \in Site, Sound(d), NEW old \in Works, NEW new \in Works
  PROVE  LET e == Merge!Flattened(d, old, new)
         IN  e \in Site /\ Sound(e) /\ e.at = d.at /\ e.page = d.page
  <1> DEFINE to == [w \in Works |-> IF w = old \/ d.redirect[w] = old THEN new ELSE d.redirect[w]]
  <1>1. PICK e : e = Merge!Flattened(d, old, new)
    OBVIOUS
  <1>2. e = [d EXCEPT !.redirect = to]
    BY <1>1 DEF Merge!Flattened
  <1>3. to \in [Works -> AnyWork]
    BY SiteIs DEF AnyWork
  <1>4. e \in Site /\ e.at = d.at /\ e.page = d.page
    <2> HIDE DEF to
    <2> QED
      BY <1>2, <1>3 DEF Site
  <1>5. Sound(e)
    BY <1>4 DEF Sound
  <1> QED
    BY <1>1, <1>4, <1>5

LEMMA FollowMerges ==
  ASSUME MergeInv, Merge!Follow
  PROVE  MergeInv'
  <1>1. PICK i, action, r, d, pages :
          /\ Merge!Busy /\ i = Head(m_batch.items) /\ action = Merge!ActionNow
          /\ r = Merge!Finished(d, Merge!Begun(m_db, action, i.old, i.new))
          /\ d = Merge!Moved(m_db, action, i.old, i.new)
          /\ ~i.revoked /\ action # "skip" /\ ~Merge!Refused(i)
          /\ m_db' = Merge!Flattened(d, i.old, i.new)
          /\ m_records' = Append(m_records, r)
          /\ Merge!Done(pages, m_batch.ledger) /\ UNCHANGED m_fails
          /\ pages = (IF action = "ledger" THEN m_batch.pages ELSE (m_batch.pages \cup {i.new}) \ {i.old})
    BY DEF Merge!Follow
  <1>2. MergeShape
    BY DEF MergeInv
  <1>3. PICK old \in Works, new \in Works : old = i.old /\ new = i.new /\ old # new
    BY <1>1, <1>2, HeadIs
  <1>4. action \in {"fold", "renumber", "ledger"}
    <2>1. action = Merge!Action(i.old \in m_batch.pages, i.new \in m_batch.pages)
      BY <1>1 DEF Merge!ActionNow
    <2>2. Merge!Action(i.old \in m_batch.pages, i.new \in m_batch.pages) \in {"fold", "renumber", "ledger", "skip"}
      BY DEF Merge!Action
    <2> QED
      BY <1>1, <2>1, <2>2
  <1>5. m_db \in Site /\ Sound(m_db) /\ m_records \in Seq(SoundRecord)
    BY <1>2 DEF MergeShape, SoundSite
  <1>6. /\ action = "renumber" => ~(m_db.page[old].here /\ m_db.page[new].here)
        /\ action = "fold" => m_db.page[new].here \/ Merge!Children(m_db, old) = {}
    BY <1>1, <1>3 DEF Merge!Refused, Merge!Here
  <1>7. /\ d \in Site /\ Sound(d)
        /\ \A k \in Merge!Rows : d.at[k] = 0 /\ m_db.at[k] # 0 => k \in Merge!Children(m_db, old)
        /\ action = "fold" /\ m_db.page[new].here /\ d.page[new].here /\ m_db.page[new].ext # 0
             => d.page[new].ext = m_db.page[new].ext
    <2>1. d = Merge!Moved(m_db, action, old, new)
      BY <1>1, <1>3
    <2>2. PICK s \in Site : s = m_db /\ Sound(s)
      BY <1>5
    <2> QED
      BY <1>3, <1>4, <1>6, <2>1, <2>2, MoveSound
  <1>8. r \in SoundRecord /\ r.dropped = {k \in Merge!Children(m_db, old) : d.at[k] = 0}
    <2>1. r = Merge!Finished(d, Merge!Begun(m_db, action, old, new))
      BY <1>1, <1>3
    <2>2. PICK s \in Site : s = m_db /\ Sound(s)
      BY <1>5
    <2> QED
      BY <1>3, <1>4, <1>7, <2>1, <2>2, FinishedSound
  <1>9. m_db' \in SoundSite /\ m_db'.at = d.at
    <2>1. PICK e : e = Merge!Flattened(d, old, new)
      OBVIOUS
    <2>2. e \in SoundSite /\ e.at = d.at
      BY <1>3, <1>7, <2>1, FlatSound DEF SoundSite
    <2> QED
      BY <1>1, <1>3, <2>1, <2>2
  <1>10. /\ m_records' \in Seq(SoundRecord) /\ Len(m_records') = Len(m_records) + 1
         /\ \A n \in 1..Len(m_records) : m_records'[n] = m_records[n]
         /\ m_records'[Len(m_records) + 1] = r
    BY <1>1, <1>5, <1>8, AppendProperties
  <1>11. /\ m_batch' \in FeedBatch /\ m_handled' \in [Works -> Nat]
         /\ UNCHANGED <<m_into, m_at, m_changes, m_acts, m_born, m_gone, m_cursor, m_rounds>>
    <2>1. pages \in SUBSET Works /\ m_batch.ledger \in [Works -> AnyWork]
      BY <1>1, <1>2, <1>3, BatchIs
    <2> QED
      BY <1>1, <1>2, <2>1, DoneIs
  <1>12. MergeShape'
    BY <1>1, <1>2, <1>9, <1>10, <1>11 DEF MergeShape
  <1>13. Forest'
    BY <1>11 DEF MergeInv, Forest
  <1>14. NotLost'
    <2> SUFFICES ASSUME NEW k \in Merge!Rows, m_born[k] # 0, d.at[k] = 0
                 PROVE  k \in m_gone \/ \E n \in DOMAIN m_records' : k \in m_records'[n].dropped
      BY <1>9, <1>11 DEF NotLost
    <2>1. DOMAIN m_records = 1..Len(m_records) /\ DOMAIN m_records' = 1..(Len(m_records) + 1) /\ Len(m_records) \in Nat
      BY <1>5, <1>10, LenProperties
    <2>2. CASE m_db.at[k] = 0
      BY <1>10, <2>1, <2>2 DEF MergeInv, NotLost
    <2>3. CASE m_db.at[k] # 0
      <3>1. k \in r.dropped
        BY <1>7, <1>8, <2>3
      <3> QED
        BY <1>10, <2>1, <3>1
    <2> QED
      BY <2>2, <2>3
  <1> QED
    BY <1>12, <1>13, <1>14 DEF MergeInv
-----------------------------------------------------------------------------
(* An undo that comes right after its merge. *)

LEMMA SameSite ==
  ASSUME NEW d \in Site, NEW e \in Site,
         \A w \in Works : e.page[w] = d.page[w] /\ e.redirect[w] = d.redirect[w],
         \A k \in Merge!Rows : e.at[k] = d.at[k]
  PROVE  e = d
  <1>1. e.page = d.page /\ e.redirect = d.redirect /\ e.at = d.at
    BY SiteIs
  <1> QED
    BY <1>1 DEF Site

\* The survivor is a page its rows may come from.
LEMMA AllowedSurvivor ==
  ASSUME NEW d \in Site, NEW recs \in Seq(SoundRecord), NEW new \in Works
  PROVE  new \in Merge!Allowed(d, recs, new)
  <1> DEFINE More(S) == ({d.redirect[w] : w \in S} \ {0})
                        \cup {recs[i].new : i \in {j \in DOMAIN recs :
                                 recs[j].old \in S /\ recs[j].state = "failed"}}
             More0(S) == S \cup More(S)
             Reach(f) == f = [n \in 0..Merge!Cardinality(Works) |->
                                IF n = 0 THEN {new} ELSE f[n - 1] \cup More(f[n - 1])]
             D == SUBSET Works
  <1>1. PICK last \in Nat \ {0} : last = Merge!Cardinality(Works)
    BY SizeOfWorks
  <1>2. \A S \in D : More(S) \in D
    <2>1. \A w \in Works : d.redirect[w] \in AnyWork
      BY SiteIs
    <2>2. \A i \in DOMAIN recs : recs[i].new \in Works
      <3>1. \A i \in DOMAIN recs : recs[i] \in SoundRecord
        BY ElementOfSeq, LenProperties
      <3> QED
        BY <3>1 DEF SoundRecord, MergeRecord
    <2> QED
      BY <2>1, <2>2, WorksArePositive
  <1> HIDE DEF More
  <1>3. PICK f : f \in [0..last -> D] /\ f[0] = {new} /\ \A i \in 1..last : f[i] = More0(f[i - 1])
    <2>1. PICK step : step = [i \in Nat |-> [S \in D |-> More0(S)]]
      OBVIOUS
    <2>2. step \in [Nat -> [D -> D]] /\ {new} \in D
      BY <1>2, <2>1
    <2>3. PICK f : Solution(f, D, {new}, step, last)
      BY <2>2, StepByStep
    <2>4. ASSUME NEW i \in 1..last PROVE f[i] = More0(f[i - 1])
      <3>1. i \in Nat /\ i - 1 \in 0..last
        BY <1>1
      <3>2. f[i - 1] \in D /\ f[i] = step[i][f[i - 1]]
        BY <2>3, <3>1 DEF Solution
      <3> HIDE DEF D, More0
      <3> QED
        BY <2>1, <3>1, <3>2
    <2> QED
      BY <2>3, <2>4 DEF Solution
  <1>4. Reach(f)
    <2>1. \A n \in 0..last : n # 0 => n \in 1..last
      BY <1>1
    <2>2. f = [n \in 0..last |-> IF n = 0 THEN {new} ELSE f[n - 1] \cup More(f[n - 1])]
      BY <1>3, <2>1
    <2> QED
      BY <1>1, <2>2
  <1>5. PICK u : u = (CHOOSE g : Reach(g)) /\ Reach(u)
    BY <1>4
  <1>6. Merge!Allowed(d, recs, new) = u[last]
    BY <1>1, <1>5 DEF Merge!Allowed, Merge!None, More
  <1>7. \A n \in 0..last : u[n] = (IF n = 0 THEN {new} ELSE u[n - 1] \cup More(u[n - 1]))
    BY <1>1, <1>5
  <1> DEFINE P == {n \in Nat : n <= last => new \in u[n]}
  <1>8. 0 \in P
    <2>1. 0 \in 0..last
      BY <1>1
    <2>2. u[0] = {new}
      BY <1>7, <2>1, Zenon
    <2> QED
      BY <2>2
  <1>9. ASSUME NEW n \in P PROVE n + 1 \in P
    <2> SUFFICES ASSUME n + 1 <= last PROVE new \in u[n + 1]
      OBVIOUS
    <2>1. n + 1 \in 0..last /\ n + 1 # 0 /\ (n + 1) - 1 = n /\ n <= last
      BY <1>1
    <2> QED
      BY <1>7, <2>1
  <1> HIDE DEF P
  <1>10. P = Nat
    <2>1. P \in SUBSET Nat
      BY DEF P
    <2> QED
      BY <1>8, <1>9, <2>1, EveryNumber
  <1> QED
    BY <1>1, <1>6, <1>10 DEF P

\* The pages m, the site e and the record r that a merge of old into new leaves,
\* once catalog has undone it and the drain has dropped the redirect.
Followed(d, action, old, new, m, e, r) ==
  /\ m = Merge!Moved(d, action, old, new)
  /\ e = [Merge!Flattened(m, old, new) EXCEPT !.redirect[old] = 0]
  /\ r = Merge!Finished(m, Merge!Begun(d, action, old, new))
\* The redirects of d, but those to old lead on to new.
Repointed(d, e, old, new) ==
  \A w \in Works : e.redirect[w] = (IF w = old THEN 0 ELSE IF d.redirect[w] = old THEN new ELSE d.redirect[w])

LEMMA AfterIs ==
  ASSUME NEW d \in Site, Sound(d), NEW old \in Works, NEW new \in Works, old # new,
         NEW action \in {"fold", "renumber", "ledger"},
         action = "renumber" => ~(d.page[old].here /\ d.page[new].here),
         action = "fold" => d.page[new].here,
         NEW m, NEW e, NEW r, Followed(d, action, old, new, m, e, r)
  PROVE  /\ e \in Site /\ Sound(e) /\ e.at = m.at /\ e.page = m.page /\ m \in Site
         /\ Repointed(m, e, old, new)
         /\ r \in SoundRecord /\ \A k : k \in r.dropped <=> k \in Merge!Children(d, old) /\ m.at[k] = 0
         /\ r.old = old /\ r.new = new /\ r.action = action /\ r.moved = Merge!Children(d, old)
         /\ r.before[old] = d.page[old] /\ r.before[new] = d.page[new] /\ r.after = m.page[new]
         /\ \A w \in Works : w \in r.repointed <=> d.redirect[w] = old
  <1>2. /\ m \in Site /\ Sound(m)
        /\ action = "fold" /\ d.page[new].here /\ m.page[new].here /\ d.page[new].ext # 0
             => m.page[new].ext = d.page[new].ext
    BY MoveSound DEF Followed
  <1>4. /\ r \in SoundRecord /\ \A k : k \in r.dropped <=> k \in Merge!Children(d, old) /\ m.at[k] = 0
        /\ r.old = old /\ r.new = new /\ r.action = action /\ r.moved = Merge!Children(d, old)
        /\ r.before[old] = d.page[old] /\ r.before[new] = d.page[new] /\ r.after = m.page[new]
        /\ \A w \in Works : w \in r.repointed <=> d.redirect[w] = old
    BY <1>2, FinishedSound DEF Followed
  <1>5. PICK f : f = Merge!Flattened(m, old, new)
    OBVIOUS
  <1>6. f \in Site /\ Sound(f) /\ f.at = m.at /\ f.page = m.page
    BY <1>2, <1>5, FlatSound
  <1>7. \A w \in Works : f.redirect[w] = (IF w = old \/ m.redirect[w] = old THEN new ELSE m.redirect[w])
    BY <1>2, <1>5 DEF Merge!Flattened, Site
  <1>8. e = [f EXCEPT !.redirect[old] = 0]
    BY <1>5 DEF Followed
  <1>9. /\ e \in Site /\ e.at = f.at /\ e.page = f.page
        /\ e.redirect = [f.redirect EXCEPT ![old] = 0]
    BY <1>6, <1>8 DEF Site, AnyWork
  <1>10. Sound(e)
    BY <1>6, <1>9 DEF Sound
  <1>11. Repointed(m, e, old, new)
    BY <1>6, <1>7, <1>9, SiteIs DEF Repointed
  <1> QED
    BY <1>2, <1>4, <1>6, <1>9, <1>10, <1>11

\* The redirects an undo takes back, when nothing re-pointed them since.
LEMMA RedirectsBack ==
  ASSUME NEW d \in Site, NEW c \in Site, NEW r \in MergeRecord, NEW old \in Works, r.old = old,
         NEW new \in Works, d.redirect[old] = 0,
         \A w \in Works : w \in r.repointed <=> d.redirect[w] = old,
         Repointed(d, c, old, new),
         c.page = d.page, c.at = d.at
  PROVE  Merge!RedirectsRestored(c, r) = d
  <1> DEFINE to == [w \in Works |-> IF w \in r.repointed /\ c.redirect[w] # 0 THEN old ELSE c.redirect[w]]
  <1>2. PICK e : e = [c EXCEPT !.redirect = to]
    OBVIOUS
  <1>3. to \in [Works -> AnyWork]
    BY SiteIs DEF AnyWork
  <1>4. \A w \in Works : to[w] = d.redirect[w]
    BY WorksArePositive DEF Repointed
  <1> HIDE DEF to
  <1>5. e \in Site /\ e.at = c.at /\ e.page = c.page /\ e.redirect = to
    BY <1>2, <1>3 DEF Site
  <1>6. e = d
    BY <1>4, <1>5, SameSite
  <1>7. e = Merge!RedirectsRestored(c, r)
    BY <1>2 DEF Merge!RedirectsRestored, Merge!None, to
  <1> QED
    BY <1>6, <1>7

LEMMA LedgerInverts ==
  ASSUME NEW d \in Site, Sound(d), NEW old \in Works, NEW new \in Works, old # new,
         d.redirect[old] = 0, NEW recs,
         NEW action \in {"fold", "renumber", "ledger"}, action = "ledger",
         NEW m, NEW e, NEW r, Followed(d, action, old, new, m, e, r)
  PROVE  Merge!Undone(e, recs, r) = [db |-> d, noted |-> FALSE]
  <1>2. m = d
    BY DEF Followed, Merge!Moved
  <1>3. /\ e \in Site /\ e.at = d.at /\ e.page = d.page
        /\ Repointed(d, e, old, new)
        /\ r \in SoundRecord /\ r.old = old /\ r.action = "ledger"
        /\ \A w \in Works : w \in r.repointed <=> d.redirect[w] = old
    BY <1>2, AfterIs
  <1>4. Merge!RedirectsRestored(e, r) = d
    BY <1>3, RedirectsBack DEF SoundRecord
  <1>5. Merge!Undone(e, recs, r) = [db |-> d, noted |-> FALSE]
    BY <1>3, <1>4 DEF Merge!Undone
  <1> QED
    BY <1>5

LEMMA RenumberInverts ==
  ASSUME NEW d \in Site, Sound(d), NEW old \in Works, NEW new \in Works, old # new,
         d.redirect[old] = 0, d.page[old].here, ~d.page[new].here, NEW recs,
         NEW action \in {"fold", "renumber", "ledger"}, action = "renumber",
         NEW m, NEW e, NEW r, Followed(d, action, old, new, m, e, r)
  PROVE  Merge!Undone(e, recs, r) = [db |-> d, noted |-> FALSE]
  <1>3. m = [d EXCEPT !.page[new] = d.page[old], !.page[old] = Merge!NoPage,
                      !.at = [k \in Merge!Rows |-> IF d.at[k] = old THEN new ELSE d.at[k]]]
    <2>1. m = Merge!Renumbered(d, old, new)
      BY DEF Followed, Merge!Moved
    <2> QED
      BY <2>1 DEF Merge!Renumbered, Merge!Here
  <1>4. /\ m.page = [[d.page EXCEPT ![new] = d.page[old]] EXCEPT ![old] = Merge!NoPage]
        /\ m.at = [k \in Merge!Rows |-> IF d.at[k] = old THEN new ELSE d.at[k]]
        /\ m.redirect = d.redirect
    BY <1>3 DEF Site
  <1>5. /\ e \in Site /\ Sound(e) /\ e.at = m.at /\ e.page = m.page
        /\ Repointed(d, e, old, new)
        /\ r \in SoundRecord /\ r.old = old /\ r.new = new /\ r.action = "renumber"
        /\ r.moved = Merge!Children(d, old)
        /\ \A w \in Works : w \in r.repointed <=> d.redirect[w] = old
    BY <1>4, AfterIs DEF Repointed
  <1>6. /\ e.page[new] = d.page[old] /\ e.page[old] = Merge!NoPage
        /\ \A w \in Works \ {old, new} : e.page[w] = d.page[w]
        /\ \A k \in Merge!Rows : e.at[k] = (IF d.at[k] = old THEN new ELSE d.at[k])
    BY <1>4, <1>5, SiteIs
  <1>7. \A k \in Merge!Rows : d.at[k] # new
    BY WorksArePositive DEF Sound
  <1>8. d.page[new] = Merge!NoPage
    BY DEF Sound
  <1>9. Merge!Children(e, new) \ r.moved = {}
    BY <1>5, <1>6, <1>7 DEF Merge!Children
  <1>10. PICK t : t = Merge!TakenBack(e, r)
    OBVIOUS
  <1>11. t = [[e EXCEPT !.page[old] = e.page[new], !.page[new] = Merge!NoPage] EXCEPT
               !.page[new] = Merge!NoPage,
               !.at = [k \in Merge!Rows |-> IF e.at[k] = new THEN old ELSE e.at[k]]]
    <2>1. \A k \in Merge!Rows : k \notin Merge!Children(e, new) \ r.moved
      BY <1>9
    <2> QED
      BY <1>5, <1>9, <1>10, <2>1 DEF Merge!TakenBack
  <1>12. /\ t \in Site /\ t.redirect = e.redirect
         /\ t.page = d.page /\ t.at = d.at
    <2>1. PICK page, at :
            /\ page = [[[e.page EXCEPT ![old] = e.page[new]] EXCEPT ![new] = Merge!NoPage]
                         EXCEPT ![new] = Merge!NoPage]
            /\ at = [k \in Merge!Rows |-> IF e.at[k] = new THEN old ELSE e.at[k]]
      OBVIOUS
    <2>2. page \in [Works -> Merge!PageType] /\ at \in [Merge!Rows -> AnyWork]
      BY <1>5, <2>1, SiteIs, NoPageIs DEF AnyWork
    <2>3. t = [e EXCEPT !.page = page, !.at = at]
      BY <1>5, <1>11, <2>1 DEF Site
    <2>4. t \in Site /\ t.redirect = e.redirect /\ t.page = page /\ t.at = at
      BY <1>5, <2>2, <2>3 DEF Site
    <2>5. \A w \in Works : page[w] = d.page[w]
      BY <1>5, <1>6, <1>8, <2>1, SiteIs
    <2>6. \A k \in Merge!Rows : at[k] = d.at[k]
      BY <1>6, <1>7, <2>1
    <2> QED
      BY <2>2, <2>4, <2>5, <2>6, SiteIs
  <1>13. Merge!PagesRestored(e, r) = [db |-> t, noted |-> FALSE]
    BY <1>5, <1>6, <1>10, NoPageIs DEF Merge!PagesRestored, Merge!Here
  <1>14. PICK a : a = Merge!Allowed(e, recs, new)
    OBVIOUS
  <1>15. \A k \in Merge!Rows : ~Merge!Returns(t, r, a, k) /\ ~Merge!Stays(t, r, a, k)
    BY <1>5, <1>12 DEF Merge!Returns, Merge!Stays, Merge!Children
  <1>16. Merge!ChildrenRestored(t, r, a) = t
    <2>1. [k \in Merge!Rows |-> IF Merge!Returns(t, r, a, k) THEN r.old ELSE t.at[k]] = t.at
      BY <1>12, <1>15, SiteIs
    <2> QED
      BY <1>12, <2>1 DEF Merge!ChildrenRestored, Site
  <1>17. Merge!RedirectsRestored(t, r) = d
    <2>1. Repointed(d, t, old, new)
      BY <1>5, <1>12 DEF Repointed
    <2>2. /\ t \in Site /\ r \in MergeRecord /\ r.old = old
          /\ \A w \in Works : w \in r.repointed <=> d.redirect[w] = old
      BY <1>5, <1>12 DEF SoundRecord
    <2> QED
      BY <1>12, <2>1, <2>2, RedirectsBack
  <1>18. Merge!Undone(e, recs, r) = [db |-> d, noted |-> FALSE]
    <2>1. PICK p : p = Merge!PagesRestored(e, r) /\ p.db = t /\ p.noted = FALSE
      BY <1>13
    <2>2. Merge!Undone(e, recs, r)
            = [db |-> Merge!RedirectsRestored(IF t.page[old].here THEN Merge!ChildrenRestored(t, r, a) ELSE t, r),
               noted |-> p.noted \/ \E k \in Merge!Rows : Merge!Stays(t, r, a, k)]
      BY <1>5, <1>14, <2>1 DEF Merge!Undone, Merge!Here
    <2>3. t.page[old].here
      BY <1>12
    <2>4. (p.noted \/ \E k \in Merge!Rows : Merge!Stays(t, r, a, k)) = FALSE
      BY <1>15, <2>1
    <2> QED
      BY <1>16, <1>17, <2>2, <2>3, <2>4
  <1> QED
    BY <1>18

LEMMA FoldInverts ==
  ASSUME NEW d \in Site, Sound(d), NEW old \in Works, NEW new \in Works, old # new,
         d.redirect[old] = 0, d.page[old].here, d.page[new].here, NEW recs \in Seq(SoundRecord),
         NEW action \in {"fold", "renumber", "ledger"}, action = "fold",
         NEW m, NEW e, NEW r, Followed(d, action, old, new, m, e, r)
  PROVE  Merge!Undone(e, recs, r) = [db |-> d, noted |-> FALSE]
  <1> DEFINE p == d.page[new]
             l == d.page[old]
  <1>1. m = Merge!Folded(d, old, new)
    BY DEF Followed, Merge!Moved
  <1>2. p \in Merge!PageType /\ l \in Merge!PageType /\ p.views \in Nat /\ l.views \in Nat
    BY SiteIs, PageIs
  <1>3. /\ e \in Site /\ Sound(e) /\ e.at = m.at /\ e.page = m.page /\ m.redirect = d.redirect
        /\ Repointed(d, e, old, new)
        /\ r \in MergeRecord /\ Recorded(r) /\ r.old = old /\ r.new = new /\ r.action = "fold"
        /\ r.moved = Merge!Children(d, old)
        /\ \A k : k \in r.dropped <=> k \in Merge!Children(d, old) /\ m.at[k] = 0
        /\ r.before[old] = l /\ r.before[new] = p /\ r.after = m.page[new]
        /\ \A w \in Works : w \in r.repointed <=> d.redirect[w] = old
    <2>1. m.redirect = d.redirect
      <3>1. PICK q : q = Merge!Folded(d, old, new)
        OBVIOUS
      <3>2. q.redirect = d.redirect
        BY ONLY <3>1, d \in Site DEF Merge!Folded, Site
      <3> QED
        BY <1>1, <3>1, <3>2
    <2>2. /\ e \in Site /\ Sound(e) /\ e.at = m.at /\ e.page = m.page
          /\ Repointed(m, e, old, new)
          /\ r \in SoundRecord /\ r.old = old /\ r.new = new /\ r.action = action
          /\ r.moved = Merge!Children(d, old)
          /\ \A k : k \in r.dropped <=> k \in Merge!Children(d, old) /\ m.at[k] = 0
          /\ r.before[old] = d.page[old] /\ r.before[new] = d.page[new] /\ r.after = m.page[new]
          /\ \A w \in Works : w \in r.repointed <=> d.redirect[w] = old
      BY AfterIs
    <2> QED
      BY <2>1, <2>2 DEF SoundRecord, Repointed
  <1>4. PICK lost : lost = {k \in Merge!Children(d, old) : Merge!Twin(d, new, k)}
    OBVIOUS
  <1>5. /\ \A k \in Merge!Rows : e.at[k] = (IF k \in lost THEN 0 ELSE IF d.at[k] = old THEN new ELSE d.at[k])
        /\ e.page[old] = Merge!NoPage
        /\ e.page[new] = [views |-> p.views + l.views, ext |-> IF p.ext = 0 THEN l.ext ELSE p.ext, here |-> TRUE]
        /\ \A w \in Works \ {old, new} : e.page[w] = d.page[w]
    BY <1>1, <1>3, <1>4, FoldedIs
  \* The survivor is as it was before the fold.
  <1>6. PICK s : s = Merge!Relieved(e, r)
    OBVIOUS
  <1>7. /\ s \in Site /\ Sound(s) /\ s.at = e.at /\ s.redirect = e.redirect
        /\ s.page[new] = p /\ s.page[old] = Merge!NoPage
        /\ \A w \in Works \ {old, new} : s.page[w] = d.page[w]
    <2>1. e.page[r.new].here /\ r.before[r.new].here /\ r.after.here
      BY <1>3, <1>5
    <2>2. /\ s \in Site /\ Sound(s) /\ s.at = e.at /\ s.redirect = e.redirect
          /\ \A w \in Works \ {r.new} : s.page[w] = e.page[w]
          /\ s.page[r.new] =
               [views |-> IF e.page[r.new].views > r.before[r.old].views
                          THEN e.page[r.new].views - r.before[r.old].views ELSE 0,
                ext |-> IF e.page[r.new].ext = r.after.ext THEN r.before[r.new].ext ELSE e.page[r.new].ext,
                here |-> TRUE]
      BY <1>3, <1>6, <2>1, RelievedSound
    <2>3. PICK v : v = (IF e.page[new].views > l.views THEN e.page[new].views - l.views ELSE 0)
      OBVIOUS
    <2>4. v = p.views
      <3>1. e.page[new].views = p.views + l.views
        BY <1>5
      <3> QED
        BY <1>2, <2>3, <3>1
    <2>5. e.page[new].ext = r.after.ext /\ r.before[r.old].views = l.views /\ r.before[r.new].ext = p.ext
      <3>1. e.page = m.page /\ r.after = m.page[new]
        BY <1>3
      <3>2. r.before[r.old] = l /\ r.before[r.new] = p
        BY <1>3
      <3> HIDE DEF p, l
      <3> QED
        BY ONLY <3>1, <3>2
    <2>6. s.page[new] = [views |-> v, ext |-> p.ext, here |-> TRUE]
      <3>1. r.new = new
        BY <1>3
      <3> HIDE DEF p, l
      <3> QED
        BY ONLY <2>2, <2>3, <2>5, <3>1
    <2>7. PICK q \in Merge!PageType : q = d.page[new]
      BY SiteIs
    <2>8. q \in [views : Nat, ext : Works \cup {Merge!None}, here : {TRUE}]
      BY <2>7 DEF Merge!PageType
    <2>9. q = [views |-> q.views, ext |-> q.ext, here |-> TRUE]
      BY <2>8
    <2>10. s.page[new] = p
      BY <2>4, <2>6, <2>7, <2>9
    <2>11. s.page[old] = e.page[old] /\ \A w \in Works \ {old, new} : s.page[w] = e.page[w]
      BY <1>3, <2>2
    <2> HIDE DEF p, l
    <2> QED
      BY <1>3, <1>5, <2>2, <2>10, <2>11
  \* The external id of the retired page is free again.
  <1>8. ~Merge!ExtTaken(s, l.ext) /\ Merge!ExtOrHolder(s, l.ext) = l.ext
    <2>1. \A w \in Works \ {old} : s.page[w] = d.page[w]
      BY <1>7
    <2>2. ~s.page[old].here
      BY <1>7, NoPageIs
    <2>3. \A w \in Works : s.page[w].here /\ s.page[w].ext = l.ext => l.ext = 0
      BY <2>1, <2>2 DEF Sound
    <2>4. ~Merge!ExtTaken(s, l.ext)
      BY <2>3 DEF Merge!ExtTaken, Merge!Here, Merge!None
    <2> QED
      BY <2>4 DEF Merge!ExtOrHolder
  <1>9. PICK t : t = Merge!Reinserted(s, r)
    OBVIOUS
  <1>10. t \in Site /\ t.at = e.at /\ t.redirect = e.redirect /\ t.page = d.page
    <2>1. [r.before[r.old] EXCEPT !.ext = Merge!ExtOrHolder(s, @)] = l
      <3>1. [l EXCEPT !.ext = l.ext] = l
        BY <1>2 DEF Merge!PageType
      <3> QED
        BY <1>3, <1>8, <3>1
    <2>2. t = [s EXCEPT !.page[old] = l]
      BY <1>3, <1>9, <2>1 DEF Merge!Reinserted
    <2>3. t \in Site /\ t.at = s.at /\ t.redirect = s.redirect /\ t.page = [s.page EXCEPT ![old] = l]
      BY <1>2, <1>7, <2>2 DEF Site
    <2>4. \A w \in Works : t.page[w] = d.page[w]
      BY <1>7, <2>3, SiteIs
    <2> QED
      BY <1>7, <2>3, <2>4, SiteIs
  <1>11. Merge!PagesRestored(e, r) = [db |-> t, noted |-> FALSE]
    <2>1. e.page[new].here /\ p.here /\ r.after.here /\ ~e.page[old].here
      BY <1>3, <1>5, NoPageIs
    <2> HIDE DEF p, l
    <2> QED
      BY <1>3, <1>6, <1>8, <1>9, <2>1 DEF Merge!PagesRestored, Merge!Here, l
  \* Every row of the retired page goes back.
  <1>12. PICK a : a = Merge!Allowed(e, recs, new) /\ new \in a
    BY <1>3, AllowedSurvivor
  <1>13. \A k \in Merge!Rows : t.at[k] # old
    BY <1>4, <1>5, <1>10, WorksArePositive DEF Merge!Children
  <1>14. \A k \in Merge!Rows : /\ Merge!Returns(t, r, a, k) <=> d.at[k] = old
                               /\ ~Merge!Stays(t, r, a, k)
    <2> SUFFICES ASSUME NEW k \in Merge!Rows
                 PROVE  (Merge!Returns(t, r, a, k) <=> d.at[k] = old) /\ ~Merge!Stays(t, r, a, k)
      OBVIOUS
    <2>1. k \in r.moved <=> d.at[k] = old
      BY <1>3 DEF Merge!Children
    <2>2. ~Merge!Twin(t, old, k)
      BY <1>13 DEF Merge!Twin, Merge!Held, Merge!Rows
    <2>3. d.at[k] = old => IF t.at[k] = 0 THEN k \in r.dropped ELSE t.at[k] = new
      BY <1>3, <1>5, <1>10 DEF Merge!Children
    <2> QED
      BY <1>3, <1>12, <1>13, <2>1, <2>2, <2>3 DEF Merge!Returns, Merge!Stays, Merge!None
  <1>15. PICK c : c = Merge!ChildrenRestored(t, r, a)
    OBVIOUS
  <1>16. c \in Site /\ c.at = d.at /\ c.page = d.page /\ c.redirect = e.redirect
    <2>1. PICK at : at = [k \in Merge!Rows |-> IF Merge!Returns(t, r, a, k) THEN r.old ELSE t.at[k]]
      OBVIOUS
    <2>2. at = d.at
      <3>1. \A k \in Merge!Rows : at[k] = d.at[k]
        BY <1>3, <1>4, <1>5, <1>10, <1>14, <2>1 DEF Merge!Children
      <3> QED
        BY <2>1, <3>1, SiteIs
    <2>3. c = [t EXCEPT !.at = at]
      BY <1>15, <2>1 DEF Merge!ChildrenRestored
    <2> QED
      BY <1>10, <2>2, <2>3, SiteIs DEF Site
  <1>17. Merge!RedirectsRestored(c, r) = d
    <2>1. Repointed(d, c, old, new)
      BY <1>3, <1>16 DEF Repointed
    <2> QED
      BY <1>3, <1>16, <2>1, RedirectsBack
  <1>18. Merge!Undone(e, recs, r) = [db |-> d, noted |-> FALSE]
    <2>1. PICK q : q = Merge!PagesRestored(e, r) /\ q.db = t /\ q.noted = FALSE
      BY <1>11
    <2>2. Merge!Undone(e, recs, r)
            = [db |-> Merge!RedirectsRestored(IF t.page[old].here THEN Merge!ChildrenRestored(t, r, a) ELSE t, r),
               noted |-> q.noted \/ \E k \in Merge!Rows : Merge!Stays(t, r, a, k)]
      BY <1>3, <1>12, <2>1 DEF Merge!Undone, Merge!Here
    <2>3. t.page[old].here
      BY <1>10
    <2>4. (q.noted \/ \E k \in Merge!Rows : Merge!Stays(t, r, a, k)) = FALSE
      BY <1>14, <2>1
    <2> QED
      BY <1>15, <1>17, <2>2, <2>3, <2>4
  <1> QED
    BY <1>18

\* An undo inverts its merge.  A work that is merged, and whose merge is undone before
\* anything else happens to the two pages, gets back exactly what it had: its page and
\* counters, its external id, every row with the twins the fold dropped, and the
\* redirects that were flattened; and nobody is asked to look at it (catalog_merge_sync.go
\* applyRedirect, internal/patch/merge Fold and Undo).
THEOREM UndoInverts ==
  ASSUME NEW d \in SoundSite, NEW old \in Works, NEW new \in Works, old # new, d.redirect[old] = 0,
         NEW action \in {"fold", "renumber", "ledger"},
         action = Merge!Action(Merge!Here(d, old), Merge!Here(d, new)),
         NEW recs \in Seq(SoundRecord),
         NEW m, NEW e, NEW r, Followed(d, action, old, new, m, e, r)
  PROVE  Merge!Undone(e, recs, r) = [db |-> d, noted |-> FALSE]
  <1>1. d \in Site /\ Sound(d)
    BY DEF SoundSite
  <1>2. CASE d.page[old].here /\ d.page[new].here
    <2>1. action = "fold"
      BY <1>2 DEF Merge!Action, Merge!Here
    <2> QED
      BY <1>1, <1>2, <2>1, FoldInverts
  <1>3. CASE d.page[old].here /\ ~d.page[new].here
    <2>1. action = "renumber"
      BY <1>3 DEF Merge!Action, Merge!Here
    <2> QED
      BY <1>1, <1>3, <2>1, RenumberInverts
  <1>4. CASE ~d.page[old].here
    <2>1. action = "ledger"
      BY <1>4 DEF Merge!Action, Merge!Here
    <2> QED
      BY <1>1, <2>1, LedgerInverts
  <1> QED
    BY <1>2, <1>3, <1>4

-----------------------------------------------------------------------------
(* Undos. *)

\* What undos leave of a state that loses no row loses none.
LEMMA UndosLoseNone ==
  ASSUME MergeInv, NEW d \in SoundSite, d.at = m_db.at,
         NEW s \in UndoState, Since([db |-> d, recs |-> m_records], s),
         m_db' = s.db, m_records' = s.recs, UNCHANGED <<m_born, m_gone>>
  PROVE  m_db' \in SoundSite /\ m_records' \in Seq(SoundRecord) /\ NotLost'
  <1>1. /\ DOMAIN m_records' = DOMAIN m_records
        /\ \A n \in DOMAIN m_records : m_records'[n].dropped = m_records[n].dropped
        /\ \A k \in Merge!Rows : m_db'.at[k] = 0 => m_db.at[k] = 0
    BY DEF Since
  <1>2. NotLost'
    BY <1>1 DEF MergeInv, NotLost
  <1> QED
    BY <1>2 DEF UndoState

LEMMA RevokeMerges ==
  ASSUME MergeInv, NEW bad, Merge!Revoke(bad)
  PROVE  MergeInv'
  <1> DEFINE i == Head(m_batch.items)
             survivor == m_batch.ledger[i.old]
             s == IF survivor # 0 THEN Merge!Revoked(i.old, bad) ELSE [db |-> m_db, recs |-> m_records]
             pages == IF survivor = 0 THEN m_batch.pages
                      ELSE (m_batch.pages \ {i.old, survivor})
                           \cup {w \in {i.old, survivor} : Merge!Here(s.db, w)}
             ledger == [m_batch.ledger EXCEPT ![i.old] = 0]
  <1>1. /\ Merge!Busy /\ bad \subseteq (IF survivor # 0 THEN Merge!OpenOf(i.old) ELSE {})
        /\ m_fails + Merge!Cardinality(bad) <= MaxFail
        /\ m_fails' = m_fails + Merge!Cardinality(bad)
        /\ m_db' = s.db /\ m_records' = s.recs
        /\ Merge!Done(pages, ledger)
    BY DEF Merge!Revoke, Merge!None
  <1>2. MergeShape
    BY DEF MergeInv
  <1>3. i.old \in Works
    BY <1>1, <1>2, HeadIs
  <1> HIDE DEF i
  <1>4. PICK d : d = [m_db EXCEPT !.redirect[i.old] = 0]
    OBVIOUS
  <1>5. d \in SoundSite /\ d.at = m_db.at
    <2>1. m_db \in Site /\ Sound(m_db)
      BY <1>2 DEF MergeShape, SoundSite
    <2>2. d \in Site /\ d.at = m_db.at /\ d.page = m_db.page
      BY <1>4, <2>1 DEF Site, AnyWork
    <2> QED
      BY <2>1, <2>2 DEF SoundSite, Sound
  <1>6. m_db \in SoundSite /\ m_records \in Seq(SoundRecord) /\ DOMAIN m_records = 1..Len(m_records) /\ Len(m_records) \in Nat
    BY <1>2, LenProperties DEF MergeShape
  <1>7. s \in UndoState /\ (Since([db |-> d, recs |-> m_records], s) \/ Since([db |-> m_db, recs |-> m_records], s))
    <2>1. CASE survivor # 0
      <3>1. PICK t : t = [db |-> d, recs |-> m_records]
        OBVIOUS
      <3>2. t \in UndoState /\ t.recs = m_records
        BY <1>5, <1>6, <3>1 DEF UndoState
      <3>3. PICK S : S = Merge!OpenOf(i.old)
        OBVIOUS
      <3>4. S \in SUBSET DOMAIN t.recs
        BY <3>2, <3>3 DEF Merge!OpenOf
      <3>5. s = Merge!UndoneFrom(t, S, bad)
        BY <1>1, <1>4, <2>1, <3>1, <3>3 DEF Merge!Revoked, Merge!None
      <3> QED
        BY <3>1, <3>2, <3>4, <3>5, UndoneKeeps
    <2>2. CASE survivor = 0
      <3>1. s = [db |-> m_db, recs |-> m_records]
        BY <1>1, <2>2
      <3> QED
        BY <1>6, <3>1 DEF UndoState, Since
    <2> QED
      BY <2>1, <2>2
  <1> HIDE DEF s
  <1>8. /\ m_batch' \in FeedBatch /\ m_handled' \in [Works -> Nat]
        /\ UNCHANGED <<m_into, m_at, m_changes, m_acts, m_born, m_gone, m_cursor, m_rounds>>
    <2>1. m_batch.ledger \in [Works -> AnyWork] /\ m_batch.pages \subseteq Works
      BY <1>2, BatchIs
    <2>2. survivor \in AnyWork /\ (survivor # 0 => survivor \in Works)
      BY <1>1, <1>3, <2>1, WorksArePositive
    <2>3. pages \in SUBSET Works
      BY <1>1, <1>3, <2>1, <2>2
    <2>4. ledger \in [Works -> AnyWork]
      BY <1>1, <2>1 DEF AnyWork
    <2> HIDE DEF pages, ledger
    <2> QED
      BY <1>1, <1>2, <2>3, <2>4, DoneIs
  <1>9. m_db' \in SoundSite /\ m_records' \in Seq(SoundRecord) /\ NotLost'
    <2>1. CASE Since([db |-> d, recs |-> m_records], s)
      BY <1>1, <1>5, <1>7, <1>8, <2>1, UndosLoseNone
    <2>2. CASE Since([db |-> m_db, recs |-> m_records], s)
      BY <1>1, <1>6, <1>7, <1>8, <2>2, UndosLoseNone
    <2> QED
      BY <1>7, <2>1, <2>2
  <1>10. m_fails' \in 0..MaxFail
    <2>1. IsFiniteSet(bad)
      <3>1. IsFiniteSet(1..Len(m_records))
        BY <1>6, FS_Interval
      <3>2. bad \subseteq 1..Len(m_records)
        <4>1. \A x \in bad : x \in Merge!OpenOf(i.old)
          BY <1>1
        <4> QED
          BY <1>6, <4>1 DEF Merge!OpenOf
      <3> QED
        BY <3>1, <3>2, FS_Subset
    <2>2. Merge!Cardinality(bad) \in Nat
      <3>1. Merge!Cardinality(bad) = Cardinality(bad)
        BY DEF Merge!Cardinality, Cardinality
      <3> QED
        BY <2>1, <3>1, FS_CardinalityType
    <2> QED
      <3>1. PICK c \in Nat : c = Merge!Cardinality(bad)
        BY <2>2
      <3> QED
        BY <1>1, <1>2, <3>1, MergeAssumption DEF MergeShape
  <1>11. MergeShape'
    BY <1>2, <1>8, <1>9, <1>10 DEF MergeShape
  <1>12. Forest'
    BY <1>8 DEF MergeInv, Forest
  <1> QED
    BY <1>9, <1>11, <1>12 DEF MergeInv

LEMMA RetryMerges ==
  ASSUME MergeInv, NEW n \in DOMAIN m_records, Merge!Retry(n)
  PROVE  MergeInv'
  <1>1. PICK s : /\ s = Merge!UndoOne([db |-> m_db, recs |-> m_records], n, {})
                 /\ m_db' = s.db /\ m_records' = s.recs
    BY DEF Merge!Retry
  <1>2. /\ UNCHANGED <<m_into, m_at, m_changes, m_acts, m_born, m_gone, m_cursor, m_batch, m_fails, m_handled>>
        /\ m_rounds' = 0
    BY DEF Merge!Retry, Merge!catalogVars, Merge!readerVars, Merge!syncVars
  <1>3. m_db \in SoundSite /\ m_records \in Seq(SoundRecord)
    BY DEF MergeInv, MergeShape
  <1>4. PICK t : t = [db |-> m_db, recs |-> m_records]
    OBVIOUS
  <1>5. t \in UndoState /\ n \in DOMAIN t.recs
    BY <1>3, <1>4 DEF UndoState
  <1>6. s \in UndoState /\ Since(t, s)
    BY <1>1, <1>4, <1>5, UndoOneKeeps
  <1>7. m_db' \in SoundSite /\ m_records' \in Seq(SoundRecord) /\ NotLost'
    BY <1>1, <1>2, <1>3, <1>4, <1>6, UndosLoseNone
  <1>8. MergeShape'
    BY <1>2, <1>7 DEF MergeInv, MergeShape
  <1>9. Forest'
    BY <1>2 DEF MergeInv, Forest
  <1> QED
    BY <1>7, <1>8, <1>9 DEF MergeInv
-----------------------------------------------------------------------------
(* Readers. *)

LEMMA CreatePageMerges ==
  ASSUME MergeInv, NEW w \in Works, Merge!CreatePage(w)
  PROVE  MergeInv'
  <1>1. PICK p : p = [views |-> 0, ext |-> Merge!ExtOrHolder(m_db, w), here |-> TRUE]
    OBVIOUS
  <1>2. /\ ~m_db.page[w].here /\ m_db' = [m_db EXCEPT !.page[w] = p]
        /\ m_acts < MaxReader /\ m_acts' = m_acts + 1 /\ m_rounds' = 0
        /\ UNCHANGED <<m_into, m_at, m_changes, m_cursor, m_batch, m_fails, m_handled, m_records, m_born, m_gone>>
    BY <1>1 DEF Merge!CreatePage, Merge!Act, Merge!Here, Merge!catalogVars, Merge!syncVars
  <1>3. m_db \in Site /\ Sound(m_db) /\ w \in AnyWork
    BY DEF MergeInv, MergeShape, SoundSite, AnyWork
  <1>4. p \in Merge!PageType /\ p.here /\ \A v \in Works : m_db.page[v].here /\ m_db.page[v].ext = p.ext => p.ext = 0
    <2>1. PICK x : x = Merge!ExtOrHolder(m_db, w)
      OBVIOUS
    <2>2. x \in AnyWork /\ \A v \in Works : m_db.page[v].here /\ m_db.page[v].ext = x => m_db.page[v].ext = 0
      BY <1>3, <2>1, ExtFree
    <2>3. p = [views |-> 0, ext |-> x, here |-> TRUE]
      BY <1>1, <2>1
    <2> QED
      BY <2>2, <2>3 DEF Merge!PageType, Merge!None, AnyWork
  <1>5. m_db' \in SoundSite /\ m_db'.at = m_db.at
    <2>1. PICK d, e : d = m_db /\ e = [d EXCEPT !.page[w] = p]
      OBVIOUS
    <2>2. e \in SoundSite /\ e.at = d.at
      BY <1>2, <1>3, <1>4, <2>1, PagePut DEF SoundSite
    <2> QED
      BY <1>2, <2>1, <2>2
  <1>6. MergeShape'
    <2>1. m_acts' \in 0..MaxReader /\ m_rounds' \in Nat
      BY <1>2, MergeAssumption DEF MergeInv, MergeShape
    <2> QED
      BY <1>2, <1>5, <2>1 DEF MergeInv, MergeShape
  <1>7. Forest' /\ NotLost'
    BY <1>2, <1>5 DEF MergeInv, Forest, NotLost
  <1> QED
    BY <1>6, <1>7 DEF MergeInv

LEMMA PublishMerges ==
  ASSUME MergeInv, NEW k \in Merge!Rows, NEW w \in Works, Merge!Publish(k, w)
  PROVE  MergeInv'
  <1>1. /\ m_db.page[w].here /\ ~Merge!Twin(m_db, w, k) /\ m_db' = [m_db EXCEPT !.at[k] = w]
        /\ m_acts < MaxReader /\ m_acts' = m_acts + 1 /\ m_rounds' = 0
        /\ m_born' = [m_born EXCEPT ![k] = w]
        /\ UNCHANGED <<m_into, m_at, m_changes, m_cursor, m_batch, m_fails, m_handled, m_records, m_gone>>
    BY DEF Merge!Publish, Merge!Act, Merge!Here, Merge!catalogVars, Merge!syncVars
  <1>2. m_db \in Site /\ Sound(m_db) /\ w \in AnyWork
    BY DEF MergeInv, MergeShape, SoundSite, AnyWork
  <1>3. PICK d, e : d = m_db /\ e = [d EXCEPT !.at[k] = w]
    OBVIOUS
  <1>4. /\ e \in Site /\ e.page = d.page /\ e.at[k] = w
        /\ \A j \in Merge!Rows \ {k} : e.at[j] = d.at[j]
    BY <1>2, <1>3 DEF Site
  <1>5. Sound(e)
    <2>1. \A j \in Merge!Rows : e.at[j] # 0 => e.page[e.at[j]].here
      BY <1>1, <1>2, <1>3, <1>4 DEF Sound
    <2>2. k \in Joins => \A x \in Joins \ {k} : d.at[x] = w => PeerOf[x] # PeerOf[k]
      BY <1>1, <1>3 DEF Merge!Twin, Merge!Held
    <2>3. \A i, j \in Joins : i # j /\ d.at[i] = d.at[j] /\ d.at[i] # 0 => PeerOf[i] # PeerOf[j]
      BY <1>2, <1>3 DEF Sound
    <2>4. \A i, j \in Joins : i # j /\ e.at[i] = e.at[j] /\ e.at[i] # 0 => PeerOf[i] # PeerOf[j]
      BY <1>4, <2>2, <2>3 DEF Merge!Rows
    <2> QED
      BY <1>2, <1>3, <1>4, <2>1, <2>4 DEF Sound
  <1>6. m_db' = e /\ m_db' \in SoundSite
    BY <1>1, <1>3, <1>4, <1>5 DEF SoundSite
  <1>7. m_born' \in [Merge!Rows -> AnyWork]
    BY <1>1, <1>2 DEF MergeInv, MergeShape
  <1>8. MergeShape'
    <2>1. m_acts' \in 0..MaxReader /\ m_rounds' \in Nat
      BY <1>1, MergeAssumption DEF MergeInv, MergeShape
    <2> QED
      BY <1>1, <1>6, <1>7, <2>1 DEF MergeInv, MergeShape
  <1>9. NotLost'
    <2>1. \A j \in Merge!Rows : m_db'.at[j] = 0 => m_db.at[j] = 0 /\ m_born'[j] = m_born[j]
      BY <1>1, <1>3, <1>4, <1>6, WorksArePositive DEF MergeInv, MergeShape
    <2> QED
      BY <1>1, <2>1 DEF MergeInv, NotLost
  <1>10. Forest'
    BY <1>1 DEF MergeInv, Forest
  <1> QED
    BY <1>8, <1>9, <1>10 DEF MergeInv

LEMMA DeleteMerges ==
  ASSUME MergeInv, NEW k \in Merge!Rows, Merge!Delete(k)
  PROVE  MergeInv'
  <1>1. /\ m_db' = [m_db EXCEPT !.at[k] = 0] /\ m_gone' = m_gone \cup {k}
        /\ m_acts < MaxReader /\ m_acts' = m_acts + 1 /\ m_rounds' = 0
        /\ UNCHANGED <<m_into, m_at, m_changes, m_cursor, m_batch, m_fails, m_handled, m_records, m_born>>
    BY DEF Merge!Delete, Merge!Act, Merge!None, Merge!catalogVars, Merge!syncVars
  <1>2. m_db \in Site /\ Sound(m_db)
    BY DEF MergeInv, MergeShape, SoundSite
  <1>3. PICK d, e : d = m_db /\ e = [d EXCEPT !.at[k] = 0]
    OBVIOUS
  <1>4. /\ e \in Site /\ e.page = d.page /\ e.at[k] = 0
        /\ \A j \in Merge!Rows \ {k} : e.at[j] = d.at[j]
    BY <1>2, <1>3 DEF Site, AnyWork
  <1>5. Sound(e)
    <2>1. \A j \in Merge!Rows : e.at[j] # 0 => e.page[e.at[j]].here
      BY <1>2, <1>3, <1>4 DEF Sound
    <2>2. \A i, j \in Joins : i # j /\ e.at[i] = e.at[j] /\ e.at[i] # 0 => PeerOf[i] # PeerOf[j]
      BY <1>2, <1>3, <1>4 DEF Sound, Merge!Rows
    <2> QED
      BY <1>2, <1>3, <1>4, <2>1, <2>2 DEF Sound
  <1>6. m_db' = e /\ m_db' \in SoundSite
    BY <1>1, <1>3, <1>4, <1>5 DEF SoundSite
  <1>7. MergeShape'
    <2>1. m_acts' \in 0..MaxReader /\ m_rounds' \in Nat
      BY <1>1, MergeAssumption DEF MergeInv, MergeShape
    <2> QED
      BY <1>1, <1>6, <2>1 DEF MergeInv, MergeShape
  <1>8. NotLost'
    BY <1>1, <1>3, <1>4, <1>6 DEF MergeInv, NotLost
  <1>9. Forest'
    BY <1>1 DEF MergeInv, Forest
  <1> QED
    BY <1>7, <1>8, <1>9 DEF MergeInv

-----------------------------------------------------------------------------
LEMMA InitMerges == InitOfOne => MergeInv
  <1> SUFFICES ASSUME InitOfOne PROVE MergeInv
    OBVIOUS
  <1>1. Merge!Init
    BY DEF InitOfOne
  <1>2. /\ m_into = [w \in Works |-> w] /\ m_at = [w \in Works |-> 0] /\ m_records = <<>> /\ m_cursor = 0
        /\ m_batch = Merge!NoBatch /\ m_fails = 0 /\ m_acts = 0 /\ m_changes = 0
        /\ m_born = FirstAt /\ m_gone = {} /\ m_handled = [w \in Works |-> 0] /\ m_rounds = 0
    BY <1>1 DEF Merge!Init
  <1>3. PICK page, none : /\ page = [w \in Works |-> IF w \in FirstPages
                                THEN [views |-> FirstViews[w], ext |-> w, here |-> TRUE] ELSE Merge!NoPage]
                          /\ none = [w \in Works |-> 0]
    OBVIOUS
  <1>4. m_db = [page |-> page, at |-> FirstAt, redirect |-> none]
    BY <1>1, <1>3 DEF Merge!Init, Merge!None
  <1>5. /\ page \in [Works -> Merge!PageType]
        /\ \A w \in Works : w \in FirstPages => page[w].here /\ page[w].ext = w
        /\ \A w \in Works : w \notin FirstPages => page[w] = Merge!NoPage /\ ~page[w].here
    <2>1. ASSUME NEW w \in FirstPages
          PROVE  [views |-> FirstViews[w], ext |-> w, here |-> TRUE] \in Merge!PageType
      BY MergeAssumption DEF Merge!PageType
    <2> QED
      BY <1>3, <2>1, NoPageIs
  <1>6. FirstAt \in [Merge!Rows -> AnyWork] /\ none \in [Works -> AnyWork]
        /\ \A k \in Merge!Rows : FirstAt[k] # 0 => FirstAt[k] \in FirstPages
    BY <1>3, MergeAssumption DEF AnyWork, Merge!Rows
  <1>7. m_db \in Site /\ m_db.page = page /\ m_db.at = FirstAt
    BY <1>4, <1>5, <1>6 DEF Site
  <1>8. Sound(m_db)
    <2>1. \A w \in Works : w \in FirstPages \/ ~page[w].here
      BY <1>5
    <2>2. \A v, w \in Works : v # w /\ page[v].here /\ page[w].here => page[v].ext # page[w].ext
      BY <1>5
    <2>3. \A k \in Merge!Rows : FirstAt[k] # 0 => page[FirstAt[k]].here
      BY <1>5, <1>6, MergeAssumption
    <2> QED
      BY <1>5, <1>7, <2>2, <2>3, MergeAssumption DEF Sound
  <1>9. m_records \in Seq(SoundRecord)
    BY <1>2, EmptySeq
  <1>10. MergeShape
    BY <1>2, <1>6, <1>7, <1>8, <1>9, NoBatchIs, MergeAssumption DEF MergeShape, SoundSite
  <1>11. Forest
    <2>1. [w \in Works |-> 0] \in [Works -> Nat]
      OBVIOUS
    <2> QED
      BY <1>2, <2>1 DEF Forest
  <1>12. NotLost
    BY <1>2, <1>7 DEF NotLost
  <1> QED
    BY <1>10, <1>11, <1>12 DEF MergeInv

LEMMA NextMerges == MergeInv /\ [NextOfOne]_allVars => MergeInv'
  <1> SUFFICES ASSUME MergeInv, [NextOfOne]_allVars PROVE MergeInv'
    OBVIOUS
  <1>1. CASE Merge!Next
    <2>1. \/ \E a, b \in Works : Merge!CatalogMerge(a, b)
          \/ \E a \in Works : Merge!CatalogUndo(a)
          \/ Merge!Fetch \/ Merge!Pass \/ Merge!Follow \/ Merge!FollowFails \/ Merge!EndPage \/ Merge!Crash
          \/ \E bad \in SUBSET (DOMAIN m_records) : Merge!Revoke(bad)
          \/ \E n \in DOMAIN m_records : Merge!Retry(n)
          \/ \E w \in Works : Merge!CreatePage(w)
          \/ \E k \in Merge!Rows, w \in Works : Merge!Publish(k, w)
          \/ \E k \in Merge!Rows : Merge!Delete(k)
      BY <1>1 DEF Merge!Next, Merge!Drain
    <2> QED
      BY <2>1, CatalogMerges, FetchMerges, PassMerges, FollowMerges, EndMerges, RevokeMerges, RetryMerges,
         CreatePageMerges, PublishMerges, DeleteMerges
  <1>2. CASE UNCHANGED mergeVars
    BY <1>2 DEF mergeVars, MergeInv, MergeShape, Forest, NotLost
  <1> QED
    BY <1>1, <1>2 DEF NextOfOne, allVars, rows, TrustOnly, InboxOnly, UploadOnly, ShelfOnly, RolesOnly, LinksOnly

\* Whatever chains of merges and undos catalog makes, and whichever of their undos and
\* ticks fail, die or are retried between readers' own steps: a row that is on no page
\* was deleted by its owner or is in the record of the merge that found its twin, and
\* rows keep the constraints of the database (catalog_merge_sync.go, internal/patch/merge).
THEOREM RowsAreKept == SpecOfOne => []RowsKept
  <1>1. MergeInv => RowsKept
    <2> SUFFICES ASSUME MergeInv, NEW k \in Merge!Rows
                 PROVE  /\ m_born[k] # 0 /\ m_db.at[k] = 0 => k \in m_gone \/ Merge!Dropped(k) # {}
                        /\ m_db.at[k] # 0 => m_db.page[m_db.at[k]].here /\ ~Merge!Twin(m_db, m_db.at[k], k)
      BY DEF RowsKept, Merge!RowsKept, Merge!None, Merge!Here
    <2>1. m_born[k] # 0 /\ m_db.at[k] = 0 => k \in m_gone \/ Merge!Dropped(k) # {}
      BY DEF MergeInv, NotLost, Merge!Dropped
    <2>2. m_db.at[k] # 0 => m_db.page[m_db.at[k]].here /\ ~Merge!Twin(m_db, m_db.at[k], k)
      BY DEF MergeInv, MergeShape, SoundSite, Sound, Merge!Twin, Merge!Held
    <2> QED
      BY <2>1, <2>2
  <1> QED
    BY <1>1, InitMerges, NextMerges, PTL DEF SpecOfOne

-----------------------------------------------------------------------------
(* The types of all seven, beside the invariants that their promises need. *)

\* What a step of the composition is to each of them, besides merges.
LEMMA StepsOfOne ==
  ASSUME [NextOfOne]_allVars
  PROVE  /\ [Next]_vars /\ [Inbox!Next]_inboxVars /\ [Upload!Next]_uploadVars
         /\ [Shelf!Next]_shelfVars /\ [Permissions!Next]_rolesVars /\ [Shop!Next]_shopVars
  <1> USE DEF NextOfOne, allVars, MergeOnly, TrustOnly, InboxOnly, UploadOnly, ShelfOnly, RolesOnly,
              LinksOnly, rows, stores
  <1>1. [Next]_vars
    OBVIOUS
  <1>2. [Inbox!Next]_inboxVars
    OBVIOUS
  <1>3. [Upload!Next]_uploadVars
    OBVIOUS
  <1>4. [Shelf!Next]_shelfVars
    OBVIOUS
  <1>5. [Permissions!Next]_rolesVars
    OBVIOUS
  <1>6. [Shop!Next]_shopVars
    OBVIOUS
  <1> HIDE DEF NextOfOne, allVars, MergeOnly, TrustOnly, InboxOnly, UploadOnly, ShelfOnly, RolesOnly,
              LinksOnly, rows, stores
  <1> QED
    BY <1>1, <1>2, <1>3, <1>4, <1>5, <1>6

\* Merges.
LEMMA MergeTyped == MergeInv => Merge!TypeOK
  <1> SUFFICES ASSUME MergeInv PROVE Merge!TypeOK
    OBVIOUS
  <1>1. m_db \in Site
    BY DEF MergeInv, MergeShape, SoundSite
  <1>2. \A n \in DOMAIN m_records :
          /\ m_records[n].action \in {"fold", "renumber", "ledger"}
          /\ m_records[n].state \in {"open", "failed", "undone"}
          /\ m_records[n].moved \subseteq Merge!Rows /\ m_records[n].dropped \subseteq m_records[n].moved
    BY DEF MergeInv, MergeShape, SoundRecord, MergeRecord, Recorded
  <1>3. m_batch.on \in BOOLEAN
    BY DEF MergeInv, MergeShape, FeedBatch
  <1> QED
    BY <1>1, <1>2, <1>3, SiteIs DEF MergeInv, MergeShape, Merge!TypeOK, AnyWork, Merge!None

\* The inbox: versions stay within the bound, and what is here is of some version.
InboxBounds == (\A n \in Folds : i_fold[n].seq <= MaxSeq) /\ i_upTo <= MaxSeq

LEMMA InboxStays ==
  ASSUME InboxInv, InboxBounds, [Inbox!Next]_inboxVars
  PROVE  InboxBounds'
  <1>1. \A n \in Folds : i_fold[n].seq \in Nat
    BY DEF InboxInv, InboxShape, Fold
  <1>2. Inbox!Newest \in Nat /\ Inbox!Newest <= MaxSeq
    BY NewestSeq DEF InboxInv, InboxBounds
  <1>3. ASSUME NEW n \in Folds, NEW items \in {0, 1}, Inbox!Update(n, items) PROVE InboxBounds'
    <2>1. PICK top \in Nat : top = Inbox!Newest + 1 /\ top <= MaxSeq
      BY <1>2, <1>3, InboxAssumption DEF Inbox!Update
    <2>2. i_fold' = [i_fold EXCEPT ![n] = [seq |-> top, items |-> items, read |-> FALSE]] /\ i_upTo' = i_upTo
      BY <1>3, <2>1 DEF Inbox!Update
    <2> QED
      BY <2>1, <2>2 DEF InboxBounds, InboxInv, InboxShape
  <1>4. ASSUME NEW n \in Folds, NEW lost \in BOOLEAN, Inbox!ForwardRead(n, lost) PROVE InboxBounds'
    <2>1. \A m \in Folds : i_fold'[m].seq = i_fold[m].seq
      BY <1>4 DEF Inbox!ForwardRead, InboxInv, InboxShape, Fold
    <2> QED
      BY <1>4, <2>1 DEF InboxBounds, Inbox!ForwardRead
  <1>5. CASE Inbox!OpenWall
    BY <1>2, <1>5 DEF InboxBounds, Inbox!OpenWall
  <1>6. CASE Inbox!MarkThreadRead
    BY <1>6, InboxAssumption DEF InboxBounds, Inbox!MarkThreadRead
  <1>7. CASE Inbox!SignIn \/ Inbox!MarkAsRead
    BY <1>7 DEF InboxBounds, Inbox!SignIn, Inbox!MarkAsRead
  <1>8. ASSUME NEW s \in Calls, Inbox!Start(s) \/ Inbox!FetchPage(s) \/ Inbox!ApplyPage(s) \/ Inbox!Stop(s)
        PROVE  InboxBounds'
    <2>1. i_fold' = i_fold /\ i_upTo' = i_upTo
      <3>1. CASE Inbox!Start(s) \/ Inbox!Stop(s)
        BY <3>1 DEF Inbox!Start, Inbox!Stop
      <3>2. CASE Inbox!FetchPage(s)
        BY <3>2 DEF Inbox!FetchPage
      <3>3. CASE Inbox!ApplyPage(s)
        BY <3>3 DEF Inbox!ApplyPage
      <3> QED
        BY <1>8, <3>1, <3>2, <3>3
    <2> QED
      BY <2>1 DEF InboxBounds
  <1>9. CASE UNCHANGED inboxVars
    BY <1>9 DEF inboxVars, InboxBounds
  <1> QED
    BY <1>3, <1>4, <1>5, <1>6, <1>7, <1>8, <1>9 DEF Inbox!Next

LEMMA InboxTyped == InboxInv /\ InboxBounds => Inbox!TypeOK
  <1> SUFFICES ASSUME InboxInv, InboxBounds PROVE Inbox!TypeOK
    OBVIOUS
  <1>1. \A n \in Folds : /\ i_fold[n] \in [seq : 0..MaxSeq, items : {0, 1}, read : BOOLEAN]
                         /\ i_row[n] \in [seq : 0..MaxSeq, read : BOOLEAN]
                         /\ i_seen[n] \in 0..MaxSeq /\ i_missed[n] \in 0..MaxSeq
    <2> SUFFICES ASSUME NEW n \in Folds
                 PROVE  /\ i_fold[n] \in [seq : 0..MaxSeq, items : {0, 1}, read : BOOLEAN]
                        /\ i_row[n] \in [seq : 0..MaxSeq, read : BOOLEAN]
                        /\ i_seen[n] \in 0..MaxSeq /\ i_missed[n] \in 0..MaxSeq
      OBVIOUS
    <2>1. i_fold[n] \in Fold /\ i_row[n] \in Copy /\ i_seen[n] \in Nat /\ i_missed[n] \in Nat
      BY DEF InboxInv, InboxShape
    <2>2. i_fold[n].seq <= MaxSeq /\ i_row[n].seq <= i_fold[n].seq /\ i_seen[n] <= i_fold[n].seq
          /\ i_missed[n] <= i_fold[n].seq
      BY DEF InboxInv, InboxBounds, Versions
    <2> QED
      BY <2>1, <2>2, InboxAssumption DEF Fold, Copy
  <1>2. i_cursor \in 0..MaxSeq
    <2>1. PICK n \in Folds : i_cursor <= i_fold[n].seq
      BY DEF InboxInv, Caught
    <2> QED
      BY <1>1, <2>1, InboxAssumption DEF InboxInv, InboxShape
  <1>3. \A s \in Calls : i_sync[s].at \in {"idle", "reading", "fetched"}
    BY DEF InboxInv, InboxShape, Fetcher
  <1> QED
    BY <1>1, <1>2, <1>3, InboxAssumption DEF InboxInv, InboxShape, InboxBounds, Inbox!TypeOK

\* Uploads.
FilesShape ==
  /\ u_file \in [Files -> {"none", "open", "stored", "deleted"}]
  /\ u_owned \in [Files -> BOOLEAN] /\ u_inUse \in [Files -> BOOLEAN]

LEMMA FilesStay ==
  ASSUME UploadInv, FilesShape, [Upload!Next]_uploadVars
  PROVE  FilesShape'
  <1>1. CASE UNCHANGED uploadVars
    <2>1. UNCHANGED <<u_file, u_owned, u_inUse>>
      BY <1>1 DEF uploadVars
    <2> QED
      BY <2>1 DEF FilesShape
  <1>2. CASE Upload!Midnight
    <2>1. u_file' = u_file /\ u_owned' = u_owned /\ u_inUse' = u_inUse
      BY <1>2, Zenon DEF Upload!Midnight
    <2> QED
      BY <2>1 DEF FilesShape
  <1>3. ASSUME NEW f \in Files, \/ Upload!Publish(f) \/ Upload!MarkExpires(f) \/ Upload!OwnerExpires(f)
                                \/ \E result \in {"owned", "withdrawn", "unowned"} : Upload!InitUpload(f, result)
        PROVE  FilesShape'
    <2>1. CASE Upload!Publish(f) \/ Upload!MarkExpires(f) \/ Upload!OwnerExpires(f)
      BY <2>1 DEF Upload!Publish, Upload!MarkExpires, Upload!OwnerExpires, FilesShape
    <2>2. ASSUME NEW result \in {"owned", "withdrawn", "unowned"}, Upload!InitUpload(f, result)
          PROVE  FilesShape'
      <3>1. (result = "owned") \in BOOLEAN
        OBVIOUS
      <3> QED
        BY <2>2, <3>1 DEF Upload!InitUpload, FilesShape
    <2> QED
      BY <1>3, <2>1, <2>2
  <1>4. ASSUME NEW c \in Calls,
               \/ Upload!CompleteStep(c) \/ Upload!DeleteAborted(c) \/ Upload!Die(c)
               \/ Upload!ReserveDailyImage(c) \/ Upload!ImageStored(c) \/ Upload!ReleaseDailyImage(c)
               \/ \E f \in Files : Upload!Complete(c, f) \/ Upload!Abort(c, f)
        PROVE  FilesShape'
    <2>1. CASE Upload!CompleteStep(c)
      BY <2>1 DEF Upload!CompleteStep, Upload!MarkCompleteOnce, Upload!Deduct, Upload!DeleteOver,
         Upload!DeductNot, Upload!UnmarkComplete, Upload!fileVars, FilesShape
    <2>2. CASE Upload!DeleteAborted(c)
      BY <2>2 DEF Upload!DeleteAborted, FilesShape
    <2>3. CASE \/ Upload!Die(c) \/ Upload!ReserveDailyImage(c) \/ Upload!ImageStored(c)
               \/ Upload!ReleaseDailyImage(c)
      <3>1. UNCHANGED <<u_file, u_owned, u_inUse>>
        <4>1. Upload!Die(c) => UNCHANGED Upload!fileVars
          BY Zenon DEF Upload!Die
        <4>2. Upload!ReserveDailyImage(c) => UNCHANGED Upload!fileVars
          BY Zenon DEF Upload!ReserveDailyImage
        <4>3. Upload!ImageStored(c) => UNCHANGED Upload!fileVars
          BY Zenon DEF Upload!ImageStored
        <4>4. Upload!ReleaseDailyImage(c) => UNCHANGED Upload!fileVars
          BY Zenon DEF Upload!ReleaseDailyImage
        <4>5. UNCHANGED Upload!fileVars
          BY <2>3, <4>1, <4>2, <4>3, <4>4
        <4> QED
          BY <4>5 DEF Upload!fileVars
      <3> QED
        BY <3>1 DEF FilesShape
    <2>4. ASSUME NEW f \in Files, Upload!Complete(c, f) \/ Upload!Abort(c, f) PROVE FilesShape'
      BY <2>4 DEF Upload!Complete, Upload!Abort, Upload!fileVars, FilesShape
    <2> QED
      BY <1>4, <2>1, <2>2, <2>3, <2>4
  <1> QED
    BY <1>1, <1>2, <1>3, <1>4 DEF Upload!Next

LEMMA UploadTyped == UploadInv /\ FilesShape => Upload!TypeOK
  <1> SUFFICES ASSUME UploadInv, FilesShape PROVE Upload!TypeOK
    OBVIOUS
  <1>1. \A c \in Calls : u_call[c].on \in Files \cup {0}
    <2> SUFFICES ASSUME NEW c \in Calls PROVE u_call[c].on \in Files \cup {0}
      OBVIOUS
    <2>1. u_call[c] \in Uploads
      BY DEF UploadInv, CallShape
    <2> DEFINE A == OnFile \cup {"idle", "image", "image before"}
    <2>2. \A u \in Uploads : u.on \in Files \cup {0}
      <3>1. Uploads = [at : A, on : Files \cup {0}]
        BY Zenon DEF Uploads
      <3> HIDE DEF A
      <3> QED
        BY <3>1
    <2> HIDE DEF A
    <2> QED
      BY <2>1, <2>2
  <1>2. u_images \in 0..ImageLimit
    BY UploadAssumption DEF UploadInv, ImageInv
  <1> QED
    BY <1>1, <1>2 DEF UploadInv, ChargeInv, DayInv, ImageInv, FilesShape, Upload!TypeOK, Upload!On

\* The shelf: every folder that is told, asked for or held was made.
FoldersMade ==
  /\ f_folders.default \in f_folders.made \cup {Shelf!None} /\ f_holds \subseteq f_folders.made
  /\ \A k \in DOMAIN f_keys : f_keys[k] \in f_folders.made
  /\ \A c \in Requests : f_req[c].want \subseteq f_folders.made
  /\ \A r \in Reads : f_read[r].gen \in 0..MaxReq

LEMMA ReadersPinned ==
  ASSUME ShelfInv
  PROVE  f_gens \in 0..MaxReq /\ f_gen \in 0..MaxReq
  <1>1. IsFiniteSet(Active)
    BY ShelfAssumption, FS_Subset DEF Active
  <1>2. Cardinality(Active) \in Nat
    BY <1>1, FS_CardinalityType
  <1>3. f_gens \in 0..MaxReq
    BY <1>2, ShelfAssumption DEF ShelfInv, GensCounted
  <1> QED
    BY <1>3, ShelfAssumption DEF ShelfInv, CacheInv, CacheShape

\* A request that goes on, wanting only what was made.
LEMMA WantsMade ==
  ASSUME ShelfInv, FoldersMade, NEW c \in Requests, NEW r, f_req' = [f_req EXCEPT ![c] = r],
         r.want \subseteq f_folders.made,
         UNCHANGED <<f_folders, f_keys>>, f_holds' \subseteq f_folders.made, f_read' = f_read
  PROVE  FoldersMade'
  <1>1. \A o \in Requests : f_req'[o].want \subseteq f_folders.made
    BY DEF ShelfInv, ShelfShape, FoldersMade
  <1> QED
    BY <1>1 DEF FoldersMade

LEMMA FoldersStay ==
  ASSUME ShelfInv, FoldersMade, [Shelf!Next]_shelfVars
  PROVE  FoldersMade'
  <1>1. CASE UNCHANGED shelfVars
    BY <1>1 DEF shelfVars, FoldersMade
  <1>2. CASE Shelf!GenExpires \/ \E g \in Shelf!Gens : Shelf!Expire(g)
    BY <1>2 DEF Shelf!GenExpires, Shelf!Expire, Shelf!catalog, FoldersMade
  <1>3. ASSUME NEW c \in Requests PROVE f_req[c] \in Asked /\ f_req[c].want \subseteq f_folders.made
    BY DEF ShelfInv, ShelfShape, FoldersMade
  <1>4. Shelf!NoReq \in Asked /\ Shelf!NoReq.want = {}
    BY DEF Shelf!NoReq, Asked, Steps
  <1>5. ASSUME NEW c \in Requests, NEW step, NEW want \in SUBSET f_folders.made, Shelf!Enter(c, step, want)
        PROVE  FoldersMade'
    <2>1. PICK r : r = [Shelf!NoReq EXCEPT !.at = step, !.want = want]
      OBVIOUS
    <2>2. r.want = want
      BY <1>4, <2>1 DEF Asked
    <2>3. f_req' = [f_req EXCEPT ![c] = r] /\ UNCHANGED <<f_folders, f_keys, f_holds, f_read>>
      BY <1>5, <2>1 DEF Shelf!Enter, Shelf!catalog, Shelf!cache
    <2> QED
      BY <2>2, <2>3, WantsMade DEF FoldersMade
  <1>6. ASSUME NEW c \in Requests, Shelf!ReadHolding(c) \/ Shelf!Refuse(c) \/ Shelf!Moved(c) PROVE FoldersMade'
    <2>1. PICK r : f_req' = [f_req EXCEPT ![c] = r] /\ r.want = f_req[c].want
                   /\ UNCHANGED <<f_folders, f_keys, f_holds, f_read>>
      BY <1>3, <1>6 DEF Shelf!ReadHolding, Shelf!Refuse, Shelf!Moved, Shelf!Go, Shelf!catalog, Shelf!cache, Asked
    <2> QED
      BY <1>3, <2>1, WantsMade DEF FoldersMade
  <1>7. ASSUME NEW c \in Requests, Shelf!FindDefault(c) PROVE FoldersMade'
    <2>1. PICK r : f_req' = [f_req EXCEPT ![c] = r] /\ r.want \in {f_req[c].want, {f_folders.default} \ {Shelf!None}}
                   /\ UNCHANGED <<f_folders, f_keys, f_holds, f_read>>
      BY <1>3, <1>7 DEF Shelf!FindDefault, Shelf!Go, Shelf!catalog, Shelf!cache, Asked
    <2> QED
      BY <1>3, <2>1, WantsMade DEF FoldersMade
  <1>8. ASSUME NEW c \in Requests, Shelf!CreateDefault(c) PROVE FoldersMade'
    <2>1. PICK key : key = f_req[c].seen
      OBVIOUS
    <2>2. PICK f : f = (IF key \in DOMAIN f_keys THEN f_keys[key] ELSE Shelf!NewFolder)
      OBVIOUS
    <2>3. PICK r : r = [f_req[c] EXCEPT !.at = "move", !.want = {f}]
      OBVIOUS
    <2>4. r.want = {f}
      BY <1>3, <2>3 DEF Asked
    <2>5. f_req' = [f_req EXCEPT ![c] = r] /\ UNCHANGED <<f_holds, f_read>>
      BY <1>8, <2>1, <2>2, <2>3 DEF Shelf!CreateDefault, Shelf!Go, Shelf!cache
    <2>6. CASE key \in DOMAIN f_keys
      <3>1. UNCHANGED <<f_folders, f_keys>>
        BY <1>8, <2>1, <2>6 DEF Shelf!CreateDefault
      <3> QED
        BY <2>2, <2>4, <2>5, <2>6, <3>1, WantsMade DEF FoldersMade
    <2>7. CASE key \notin DOMAIN f_keys
      <3>1. /\ f_folders' = [made |-> f_folders.made \cup {f}, default |-> f]
            /\ f_keys' = [k \in DOMAIN f_keys \cup {key} |-> IF k = key THEN f ELSE f_keys[k]]
        BY <1>8, <2>1, <2>2, <2>7 DEF Shelf!CreateDefault
      <3>2. f_folders'.made = f_folders.made \cup {f} /\ f_folders'.default = f
        BY <3>1
      <3>3. \A o \in Requests : f_req'[o].want \subseteq f_folders.made \cup {f}
        BY <2>4, <2>5 DEF ShelfInv, ShelfShape, FoldersMade
      <3>4. \A k \in DOMAIN f_keys' : f_keys'[k] \in f_folders.made \cup {f}
        BY <3>1 DEF FoldersMade
      <3> QED
        BY <2>5, <3>2, <3>3, <3>4 DEF FoldersMade
    <2> QED
      BY <2>6, <2>7
  <1>9. ASSUME NEW c \in Requests, NEW f \in Folders, Shelf!PutItem(c, f) \/ Shelf!DeleteItem(c, f)
        PROVE  FoldersMade'
    <2>1. PICK r : f_req' = [f_req EXCEPT ![c] = r] /\ r.want = f_req[c].want
                   /\ UNCHANGED <<f_folders, f_keys, f_read>>
      BY <1>3, <1>9 DEF Shelf!PutItem, Shelf!DeleteItem, Shelf!Go, Shelf!cache, Asked
    <2>2. f_holds' \subseteq f_folders.made
      BY <1>3, <1>9 DEF Shelf!PutItem, Shelf!DeleteItem, FoldersMade
    <2> QED
      BY <1>3, <2>1, <2>2, WantsMade
  <1>10. ASSUME NEW c \in Requests, Shelf!Settle(c) PROVE FoldersMade'
    <2>1. PICK r : r = [f_req[c] EXCEPT !.at = "forget"]
      OBVIOUS
    <2>2. r.want = f_req[c].want
      BY <1>3, <2>1 DEF Asked
    <2>3. f_req' = [f_req EXCEPT ![c] = r] /\ UNCHANGED <<f_folders, f_keys, f_holds, f_read>>
      BY <1>10, <2>1 DEF Shelf!Settle, Shelf!catalog, Shelf!cache
    <2> QED
      BY <1>3, <2>2, <2>3, WantsMade DEF FoldersMade
  <1>11. ASSUME NEW c \in Requests, Shelf!Die(c) \/ \E lost \in BOOLEAN : Shelf!Forget(c, lost) PROVE FoldersMade'
    <2>1. f_req' = [f_req EXCEPT ![c] = Shelf!NoReq] /\ UNCHANGED <<f_folders, f_keys, f_holds, f_read>>
      BY <1>11 DEF Shelf!Die, Shelf!Forget, Shelf!catalog, Shelf!cache
    <2> QED
      BY <1>4, <2>1, WantsMade DEF FoldersMade
  <1>12. ASSUME NEW r \in Reads,
                \/ Shelf!Open(r) \/ Shelf!Peek(r) \/ Shelf!Fetch(r) \/ Shelf!WalkAll(r) \/ Shelf!StoreWalk(r)
                \/ Shelf!Close(r) \/ \E miss \in BOOLEAN : Shelf!Filled(r, miss)
         PROVE  FoldersMade'
    <2>1. UNCHANGED <<f_folders, f_keys, f_holds, f_req>>
      BY <1>12 DEF Shelf!Open, Shelf!Peek, Shelf!Fetch, Shelf!WalkAll, Shelf!StoreWalk, Shelf!Close,
         Shelf!Filled, Shelf!catalog
    <2>2. f_read[r] \in [at : Views, gen : Nat, shows : Nat, needs : Nat]
          /\ f_read \in [Reads -> [at : Views, gen : Nat, shows : Nat, needs : Nat]]
      BY DEF ShelfInv, CacheInv, CacheShape
    <2>3. PICK v : f_read' = [f_read EXCEPT ![r] = v] /\ v.gen \in {f_read[r].gen, f_gen, 0}
      <3>1. Shelf!NoRead.gen = 0
        BY DEF Shelf!NoRead
      <3>2. CASE Shelf!Open(r)
        <4>1. PICK v : v = [at |-> "peek", gen |-> f_gen, shows |-> 0, needs |-> f_floor]
          OBVIOUS
        <4>2. f_read' = [f_read EXCEPT ![r] = v]
          BY <3>2, <4>1 DEF Shelf!Open
        <4>3. v.gen = f_gen
          BY <4>1
        <4> QED
          BY <4>2, <4>3
      <3>3. CASE Shelf!Peek(r)
        <4>1. PICK kept : kept = f_slot[f_read[r].gen]
          OBVIOUS
        <4>2. PICK v : v = (IF kept = Shelf!Absent THEN [f_read[r] EXCEPT !.at = "fetch"]
                            ELSE [f_read[r] EXCEPT !.at = "shown", !.shows = kept])
          OBVIOUS
        <4>3. f_read' = [f_read EXCEPT ![r] = v]
          BY <3>3, <4>1, <4>2 DEF Shelf!Peek
        <4>4. v.gen = f_read[r].gen
          BY <2>2, <4>2
        <4> QED
          BY <4>3, <4>4
      <3>4. CASE Shelf!Fetch(r)
        BY <2>2, <3>4 DEF Shelf!Fetch
      <3>5. CASE Shelf!WalkAll(r) \/ Shelf!StoreWalk(r)
        BY <2>2, <3>5 DEF Shelf!WalkAll, Shelf!StoreWalk
      <3>6. CASE Shelf!Close(r) \/ \E miss \in BOOLEAN : Shelf!Filled(r, miss)
        BY <2>2, <3>1, <3>6 DEF Shelf!Close, Shelf!Filled
      <3> QED
        BY <1>12, <3>2, <3>3, <3>4, <3>5, <3>6
    <2>4. \A o \in Reads : f_read'[o].gen \in 0..MaxReq
      BY <2>2, <2>3, ReadersPinned, ShelfAssumption DEF FoldersMade
    <2> QED
      BY <2>1, <2>4 DEF FoldersMade
  <1>13. ASSUME NEW c \in Requests, Shelf!Toggle(c) PROVE FoldersMade'
    BY <1>5, <1>13 DEF Shelf!Toggle
  <1>14. ASSUME NEW c \in Requests, NEW targets \in SUBSET Folders, Shelf!SetPatchFolders(c, targets)
         PROVE  FoldersMade'
    BY <1>5, <1>14 DEF Shelf!SetPatchFolders
  <1> QED
    BY <1>1, <1>2, <1>6, <1>7, <1>8, <1>9, <1>10, <1>11, <1>12, <1>13, <1>14 DEF Shelf!Next

LEMMA ShelfTyped == ShelfInv /\ FoldersMade => Shelf!TypeOK
  <1> SUFFICES ASSUME ShelfInv, FoldersMade PROVE Shelf!TypeOK
    OBVIOUS
  <1>1. \A c \in Requests : f_req[c].held \subseteq Folders /\ f_req[c].want \subseteq Folders
    BY DEF ShelfInv, ShelfShape, Asked
  <1>2. f_gens \in Shelf!Gens /\ f_made \in 0..MaxReq /\ f_gen \in 0..f_gens
    BY ReadersPinned DEF ShelfInv, GensCounted, CacheInv, CacheShape, Shelf!Gens
  <1>3. \A r \in Reads : f_read[r].gen \in Shelf!Gens /\ f_read[r].shows \in Nat
    BY DEF ShelfInv, CacheInv, CacheShape, FoldersMade, Shelf!Gens
  <1>4. f_folders.made \subseteq Folders
    BY DEF ShelfInv, ShelfShape
  <1> QED
    BY <1>1, <1>2, <1>3, <1>4 DEF ShelfInv, ShelfShape, CacheInv, CacheShape, Kept, FoldersMade, Shelf!TypeOK

\* Permissions: saves are counted, one at a time.
RoleBounds ==
  /\ Len(p_trail) <= MaxSaves
  /\ p_loaded \in [Instances -> Layers] /\ p_loading \in [Instances -> SUBSET Layers]
  /\ \A e \in Editors : /\ p_editor[e].version <= MaxSaves /\ p_editor[e].seen <= MaxSaves
                        /\ p_editor[e].at = "saving" => Len(p_trail) < MaxSaves

LEMMA RolesStay ==
  ASSUME RoleInv, RoleBounds, [Permissions!Next]_rolesVars
  PROVE  RoleBounds'
  <1>1. /\ Len(p_trail) \in Nat /\ p_editor \in [Editors -> Desk] /\ p_stored \in Layers
        /\ Layers' = Layers
    BY LenProperties DEF RoleInv, RoleShape, Layers, Permissions!Layers
  <1>2. /\ Permissions!NoMatrix \in Desk /\ Permissions!NoMatrix.version = 0
        /\ Permissions!NoMatrix.seen = 0 /\ Permissions!NoMatrix.at = "out"
    BY DEF Permissions!NoMatrix, Desk
  <1>3. CASE UNCHANGED rolesVars
    BY <1>1, <1>3 DEF rolesVars, RoleBounds
  <1>4. ASSUME NEW e \in Editors, Permissions!ReadLayers(e) PROVE RoleBounds'
    <2>1. PICK m : m = [Permissions!NoMatrix EXCEPT !.at = "reading", !.seen = Len(p_trail)]
      OBVIOUS
    <2>2. m.at = "reading" /\ m.seen = Len(p_trail) /\ m.version = 0
      BY <1>1, <1>2, <2>1 DEF Desk
    <2>3. p_editor' = [p_editor EXCEPT ![e] = m] /\ UNCHANGED <<p_stored, p_trail, p_loaded, p_loading>>
      BY <1>4, <2>1 DEF Permissions!ReadLayers
    <2>4. \A o \in Editors : p_editor'[o] = (IF o = e THEN m ELSE p_editor[o])
      BY <1>1, <2>3
    <2> QED
      BY <1>1, <2>2, <2>3, <2>4, BoundAssumption DEF RoleBounds
  <1>9. ASSUME NEW e \in Editors, Permissions!ReadVersion(e) PROVE RoleBounds'
    <2>1. PICK m : m = [p_editor[e] EXCEPT !.at = "open", !.version = Len(p_trail)]
      OBVIOUS
    <2>2. m.at = "open" /\ m.version = Len(p_trail) /\ m.seen = p_editor[e].seen
      BY <1>1, <2>1 DEF Desk
    <2>3. p_editor' = [p_editor EXCEPT ![e] = m] /\ UNCHANGED <<p_stored, p_trail, p_loaded, p_loading>>
      BY <1>1, <1>9, <2>1 DEF Permissions!ReadVersion
    <2>4. \A o \in Editors : p_editor'[o] = (IF o = e THEN m ELSE p_editor[o])
      BY <1>1, <2>3
    <2> QED
      BY <1>1, <2>2, <2>3, <2>4 DEF RoleBounds
  <1>5. ASSUME NEW e \in Editors, NEW changes, Permissions!Judge(e, changes) PROVE RoleBounds'
    <2>1. PICK m : m = [p_editor[e] EXCEPT !.at = "saving", !.want = [layers |-> changes, before |-> p_stored]]
      OBVIOUS
    <2>2. m.version = p_editor[e].version /\ m.seen = p_editor[e].seen
      BY <1>1, <2>1 DEF Desk
    <2>3. /\ p_editor' = [p_editor EXCEPT ![e] = m] /\ Len(p_trail) < MaxSaves
          /\ UNCHANGED <<p_stored, p_trail, p_loaded, p_loading>>
      BY <1>1, <1>5, <2>1 DEF Permissions!Judge
    <2>4. \A o \in Editors : p_editor'[o] = (IF o = e THEN m ELSE p_editor[o])
      BY <1>1, <2>3
    <2> QED
      BY <1>1, <2>2, <2>3, <2>4 DEF RoleBounds
  <1>6. ASSUME NEW e \in Editors, Permissions!Write(e) PROVE RoleBounds'
    <2>1. PICK want : want = p_editor[e].want
      OBVIOUS
    <2>2. want.layers \in Change /\ \A o \in Editors : p_editor[o].at = "saving" => o = e
      BY <1>6, <2>1 DEF Permissions!Write, RoleInv, SavingIsCurrent
    <2>3. PICK after : after = Permissions!Changed(want.layers)
      OBVIOUS
    <2>4. after \in Layers
      BY <2>2, <2>3, ChangedTypes DEF RoleInv
    <2>5. PICK saved : saved = [seen |-> p_editor[e].seen, version |-> p_editor[e].version,
                                 before |-> want.before, after |-> after]
      OBVIOUS
    <2>6. /\ p_trail' = Append(p_trail, saved) /\ p_editor[e].at = "saving"
          /\ p_editor' = [p_editor EXCEPT ![e] = Permissions!NoMatrix]
          /\ p_loading' = [p_loading EXCEPT ![ServedBy[e]] = @ \cup {after}]
          /\ p_loaded' = p_loaded
      BY <1>6, <2>1, <2>3, <2>5 DEF Permissions!Write
    <2>7. Len(p_trail') = Len(p_trail) + 1
      BY <2>6 DEF RoleInv, RoleShape
    <2>8. p_loading' \in [Instances -> SUBSET Layers]
      BY <2>4, <2>6 DEF RoleBounds
    <2>9. \A o \in Editors : p_editor'[o] = (IF o = e THEN Permissions!NoMatrix ELSE p_editor[o])
      BY <1>1, <2>6
    <2>10. \A o \in Editors : /\ p_editor'[o].version <= MaxSaves /\ p_editor'[o].seen <= MaxSaves
                                    /\ p_editor'[o].at # "saving"
      BY <1>2, <2>2, <2>9, BoundAssumption DEF RoleBounds
    <2> QED
      BY <1>1, <2>6, <2>7, <2>8, <2>10, BoundAssumption DEF RoleBounds
  <1>7. ASSUME NEW e \in Editors, Permissions!RollBack(e) PROVE RoleBounds'
    <2>1. /\ p_editor' = [p_editor EXCEPT ![e] = Permissions!NoMatrix]
          /\ UNCHANGED <<p_stored, p_trail, p_loaded, p_loading>>
      BY <1>7 DEF Permissions!RollBack
    <2>2. \A o \in Editors : p_editor'[o] = (IF o = e THEN Permissions!NoMatrix ELSE p_editor[o])
      BY <1>1, <2>1
    <2> QED
      BY <1>1, <1>2, <2>1, <2>2, BoundAssumption DEF RoleBounds
  <1>8. ASSUME NEW i \in Instances,
               Permissions!Refresh(i) \/ \E l \in p_loading[i] : Permissions!Load(i, l) \/ Permissions!LoadFails(i, l)
        PROVE  RoleBounds'
    <2>1. UNCHANGED <<p_stored, p_trail, p_editor>>
      BY <1>8 DEF Permissions!Refresh, Permissions!Load, Permissions!LoadFails
    <2>2. p_loading' \in [Instances -> SUBSET Layers] /\ p_loaded' \in [Instances -> Layers]
      BY <1>1, <1>8 DEF Permissions!Refresh, Permissions!Load, Permissions!LoadFails, RoleBounds
    <2> QED
      BY <1>1, <2>1, <2>2 DEF RoleBounds
  <1> QED
    BY <1>3, <1>4, <1>5, <1>6, <1>7, <1>8, <1>9 DEF Permissions!Next

LEMMA RolesTyped == RoleInv /\ RoleBounds => Permissions!TypeOK
  <1> SUFFICES ASSUME RoleInv, RoleBounds PROVE Permissions!TypeOK
    OBVIOUS
  <1>1. \A e \in Editors : /\ p_editor[e].at \in {"out", "reading", "open", "saving"}
                             /\ p_editor[e].seen \in 0..MaxSaves /\ p_editor[e].version \in 0..MaxSaves
    BY BoundAssumption DEF RoleInv, RoleShape, RoleBounds, Desk
  <1> QED
    BY <1>1 DEF RoleInv, RoleShape, RoleBounds, Layers, Permissions!TypeOK

\* Links: a channel holds no more than it can.
LinkBounds ==
  /\ \A i \in Instances : Len(l_queue[i]) <= QueueSize
  /\ l_reqs \in 0..MaxPages /\ l_restarts \in 0..MaxRestart /\ l_asks \in 0..MaxAsk

LEMMA LinksStay ==
  ASSUME LinkInv, LinkBounds, [Shop!Next]_shopVars
  PROVE  LinkBounds'
  <1>1. \A i \in Instances : l_queue[i] \in Seq(Products) /\ Len(l_queue[i]) \in Nat
    BY DEF LinkInv, LinkShape
  <1>2. CASE UNCHANGED shopVars
    BY <1>2 DEF shopVars, LinkBounds
  <1>3. ASSUME NEW r \in Readers, NEW i \in Instances, NEW p \in Products, Shop!Resolve(r, i, p) PROVE LinkBounds'
    BY <1>3, BoundAssumption DEF Shop!Resolve, LinkBounds
  <1>4. ASSUME NEW r \in Readers, Shop!Mark(r) \/ Shop!Drop(r) PROVE LinkBounds'
    BY <1>4 DEF Shop!Mark, Shop!Drop, Shop!bounds, LinkBounds
  <1>5. ASSUME NEW r \in Readers, Shop!Send(r) PROVE LinkBounds'
    <2>1. PICK i, p : i = l_reader[r].i /\ p = l_reader[r].p
      OBVIOUS
    <2>2. i \in Instances /\ p \in Products
      BY <1>5, <2>1 DEF Shop!Send, Shop!Gone, LinkInv, LinkShape
    <2>3. UNCHANGED <<l_reqs, l_restarts, l_asks>>
      BY <1>5 DEF Shop!Send, Shop!bounds
    <2>4. CASE Len(l_queue[i]) < QueueSize
      <3>1. l_queue' = [l_queue EXCEPT ![i] = Append(l_queue[i], p)]
        BY <1>5, <2>1, <2>4 DEF Shop!Send
      <3>2. Len(Append(l_queue[i], p)) = Len(l_queue[i]) + 1
        BY <1>1, <2>2
      <3>3. \A j \in Instances : Len(l_queue'[j]) <= QueueSize
        BY <1>1, <2>2, <2>4, <3>1, <3>2, BoundAssumption DEF LinkBounds, LinkInv, LinkShape
      <3> QED
        BY <2>3, <3>3 DEF LinkBounds
    <2>5. CASE ~(Len(l_queue[i]) < QueueSize)
      <3>1. l_queue' = l_queue
        BY <1>5, <2>1, <2>5 DEF Shop!Send
      <3> QED
        BY <2>3, <3>1 DEF LinkBounds
    <2> QED
      BY <2>4, <2>5
  <1>6. ASSUME NEW i \in Instances, Shop!Take(i) PROVE LinkBounds'
    <2>1. /\ l_queue' = [l_queue EXCEPT ![i] = Tail(l_queue[i])] /\ l_queue[i] # <<>>
          /\ UNCHANGED <<l_reqs, l_restarts, l_asks>>
      BY <1>6 DEF Shop!Take, Shop!bounds
    <2>2. Len(Tail(l_queue[i])) = Len(l_queue[i]) - 1
      BY <1>1, <2>1
    <2>3. \A j \in Instances : Len(l_queue'[j]) <= QueueSize
      BY <1>1, <2>1, <2>2, BoundAssumption DEF LinkBounds, LinkInv, LinkShape
    <2> QED
      BY <2>1, <2>3 DEF LinkBounds
  <1>7. ASSUME NEW i \in Instances, Shop!PurchaseLinks(i) PROVE LinkBounds'
    BY <1>7, BoundAssumption DEF Shop!PurchaseLinks, LinkBounds
  <1>8. ASSUME NEW i \in Instances,
               Shop!MarkBad(i) \/ Shop!Halt(i) \/ Shop!Store(i) \/ Shop!Remember(i) \/ Shop!Release(i)
        PROVE  LinkBounds'
    <2>1. UNCHANGED <<l_queue, l_reqs, l_restarts, l_asks>>
      BY <1>8 DEF Shop!MarkBad, Shop!Halt, Shop!Store, Shop!Remember, Shop!Release, Shop!bounds
    <2> QED
      BY <2>1 DEF LinkBounds
  <1>9. ASSUME NEW i \in Instances, Shop!Restart(i) PROVE LinkBounds'
    <2>1. l_queue' = [l_queue EXCEPT ![i] = <<>>] /\ l_restarts < MaxRestart /\ l_restarts' = l_restarts + 1
          /\ UNCHANGED <<l_reqs, l_asks>>
      BY <1>9 DEF Shop!Restart
    <2>2. \A j \in Instances : Len(l_queue'[j]) <= QueueSize
      BY <2>1, BoundAssumption DEF LinkBounds, LinkInv, LinkShape
    <2> QED
      BY <2>1, <2>2, BoundAssumption DEF LinkBounds
  <1> QED
    BY <1>2, <1>3, <1>4, <1>5, <1>6, <1>7, <1>8, <1>9 DEF Shop!Next

LEMMA LinksTyped == LinkInv /\ LinkBounds => Shop!TypeOK
  <1> SUFFICES ASSUME LinkInv, LinkBounds PROVE Shop!TypeOK
    OBVIOUS
  <1>1. \A i \in Instances :
          /\ l_links[i] \cup l_queued[i] \cup l_bad[i] \cup l_refused[i] \subseteq Products
          /\ l_halted[i] \in BOOLEAN /\ l_minter[i].p \in Products \cup {NoProduct}
    BY DEF LinkInv, LinkShape, Shop!Resting
  <1>2. \A r \in Readers : l_reader[r].p \in Products \cup {NoProduct}
    BY DEF LinkInv, LinkShape, Shop!Gone
  <1> QED
    BY <1>1, <1>2 DEF LinkInv, LinkShape, LinkBounds, Shop!TypeOK

-----------------------------------------------------------------------------
\* All of it.
TypesInv ==
  /\ MergeInv /\ IInv /\ InboxInv /\ InboxBounds /\ UploadInv /\ FilesShape /\ ShelfInv /\ FoldersMade
  /\ RoleInv /\ RoleBounds /\ LinkInv /\ LinkBounds

LEMMA InitTypes == InitOfOne => TypesInv
  <1> SUFFICES ASSUME InitOfOne PROVE TypesInv
    OBVIOUS
  <1>1. MergeInv /\ IInv /\ InboxInv /\ UploadInv /\ ShelfInv /\ RoleInv /\ LinkInv
    BY InitMerges, InitInv, InitInbox, InitUploads, InitShelf, InitRoles, InitLinks DEF InitOfOne
  <1>2. InboxBounds
    BY InboxAssumption DEF InitOfOne, Inbox!Init, InboxBounds
  <1>3. FilesShape
    BY DEF InitOfOne, Upload!Init, FilesShape
  <1>4. FoldersMade
    <2>1. /\ f_folders.default \in f_folders.made \cup {Shelf!None}
          /\ f_holds = {} /\ f_keys = [k \in {} |-> Shelf!None]
          /\ f_req = [c \in Requests |-> Shelf!NoReq] /\ f_read = [r \in Reads |-> Shelf!NoRead]
      BY DEF InitOfOne, Shelf!Init
    <2>2. Shelf!NoReq.want = {} /\ Shelf!NoRead.gen = 0
      BY DEF Shelf!NoReq, Shelf!NoRead
    <2> QED
      BY <2>1, <2>2, ShelfAssumption DEF FoldersMade
  <1>5. RoleBounds
    <2>1. p_stored \in Layers
      BY <1>1 DEF RoleInv, RoleShape
    <2>2. /\ p_trail = <<>> /\ p_loaded = [i \in Instances |-> p_stored] /\ p_loading = [i \in Instances |-> {}]
          /\ p_editor = [e \in Editors |-> Permissions!NoMatrix]
      BY DEF InitOfOne, Permissions!Init
    <2>3. /\ Permissions!NoMatrix.version = 0 /\ Permissions!NoMatrix.seen = 0
          /\ Permissions!NoMatrix.at = "out"
      BY DEF Permissions!NoMatrix
    <2> QED
      BY <2>1, <2>2, <2>3, BoundAssumption DEF RoleBounds
  <1>6. LinkBounds
    BY BoundAssumption DEF InitOfOne, Shop!Init, LinkBounds
  <1> QED
    BY <1>1, <1>2, <1>3, <1>4, <1>5, <1>6 DEF TypesInv

LEMMA NextTypes == TypesInv /\ [NextOfOne]_allVars => TypesInv'
  <1> SUFFICES ASSUME TypesInv, [NextOfOne]_allVars PROVE TypesInv'
    OBVIOUS
  <1>1. MergeInv'
    BY NextMerges DEF TypesInv
  <1>2. IInv' /\ InboxInv' /\ UploadInv' /\ ShelfInv' /\ RoleInv' /\ LinkInv'
    BY StepsOfOne, StepInv, NextInbox, NextUpload, NextShelf, NextRoles, NextLinks DEF TypesInv
  <1>3. InboxBounds' /\ FilesShape' /\ FoldersMade' /\ RoleBounds' /\ LinkBounds'
    BY StepsOfOne, InboxStays, FilesStay, FoldersStay, RolesStay, LinksStay DEF TypesInv
  <1> QED
    BY <1>1, <1>2, <1>3 DEF TypesInv

\* The types of the seven components, for every value of their parameters: no
\* record, row, folder, session or link names what is not there, queues stay
\* within their size, and counters within their bounds.
THEOREM RequestsHaveShapes == SpecOfOne => []Shapes
  <1>1. TypesInv => Shapes
    <2>1. IInv => TypeOK
      BY DEF IInv
    <2> QED
      BY <2>1, MergeTyped, InboxTyped, UploadTyped, ShelfTyped, RolesTyped, LinksTyped DEF TypesInv, Shapes
  <1> QED
    BY InitTypes, NextTypes, <1>1, PTL DEF SpecOfOne
==============================================================================
