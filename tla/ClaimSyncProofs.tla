--------------------------- MODULE ClaimSyncProofs ---------------------------
(***************************************************************************)
(* A submitter is told of a decision once and a recorded ban keeps the     *)
(* page down, for any number of works, of syncs that overlap and die, and  *)
(* of events.                                                              *)
(*                                                                         *)
(* Why: the watermark may go back but never past an event that was not     *)
(* dealt with, and what an earlier sync took for unanchored no later one   *)
(* takes for anchored.  So the events of a work are recorded in their      *)
(* order (Ordered), and the one that is being applied is the last of its   *)
(* work: a ban is the latest state from its commit on, and a submission is *)
(* not recorded behind one.                                                *)
(***************************************************************************)
EXTENDS ClaimSync, WellFoundedInduction, TLAPS

States == {"none", "pending", "live", "declined", "hidden"}
Event == [work : Works, from : States, to : States]
Landing == {"no", "fit", "late", "spoilt"}

Typed ==
  /\ claim \in [Works -> States] /\ log \in Seq(Event)
  /\ public \in [DOMAIN public -> BOOLEAN] /\ DOMAIN public \subseteq Works
  /\ processed \subseteq 1..Len(log) /\ cursor \in Unseeded..Len(log)
  /\ sync \in [Syncs -> [todo : Seq(Nat), anchored : SUBSET Works]]
  /\ landing \in [Works -> Landing]

\* What a sync has yet to apply is consecutive, and it took no erased work for
\* anchored but what was erased since.
Batches ==
  \A s \in Syncs : sync[s] # Idle =>
    /\ Len(sync[s].todo) >= 1 /\ Works \ erased \subseteq sync[s].anchored
    /\ \A n \in 1..Len(sync[s].todo) :
         sync[s].todo[n] \in 1..Len(log) /\ sync[s].todo[n] = sync[s].todo[1] + n - 1

\* An event that a sync with these anchors need not deal with any more.
Past(j, anchored) == j \in processed \/ Effect(log[j]) = "none" \/ log[j].work \notin anchored

\* The events after the k-th, where the watermark was seeded: what is behind the
\* watermark or a sync is past, and of a work they are recorded in their order.
OrderedFrom(k) ==
  /\ cursor >= k
  /\ \A s \in Syncs : sync[s] # Idle =>
       sync[s].todo[1] > k /\ \A j \in (k + 1)..(sync[s].todo[1] - 1) : Past(j, sync[s].anchored)
  /\ \A j \in (k + 1)..cursor : Past(j, Works \ erased)
  /\ \A i \in processed : i > k /\ \A j \in (k + 1)..(i - 1) :
       log[j].work = log[i].work => j \in processed \/ Effect(log[j]) = "none"

Ordered ==
  IF cursor = Unseeded THEN processed = {} /\ \A s \in Syncs : sync[s] = Idle
  ELSE \E k \in Nat : OrderedFrom(k)

\* A notice is recorded with its event.
Told == DOMAIN notices = Ids /\ \A i \in Ids : notices[i] = 0 \/ (notices[i] = 1 /\ i \in processed)

\* A resource that lands found a page to publish, and is fit until a ban.
Banned(w) == LatestState(w) = "hidden" /\ HasSubmitter(w)
Landed ==
  \A w \in Works :
    /\ landing[w] \in {"fit", "late"} => w \in DOMAIN public /\ ~public[w]
    /\ landing[w] = "fit" => ~Banned(w)

ClaimInv == Typed /\ Batches /\ Ordered /\ Told /\ Landed /\ BannedStaysDown

\* What an event leaves of its sync: the watermark is at the event.
LEMMA AdvanceTo ==
  ASSUME Typed, Batches, NEW s \in Syncs, sync[s] # Idle, Advance(s)
  PROVE  /\ sync' \in [Syncs -> [todo : Seq(Nat), anchored : SUBSET Works]]
         /\ cursor' = sync[s].todo[1] /\ Head(sync[s].todo) = sync[s].todo[1]
         /\ sync[s].todo[1] \in 1..Len(log)
         /\ \A u \in Syncs \ {s} : sync'[u] = sync[u]
         /\ \/ sync'[s] = Idle
            \/ /\ Len(sync[s].todo) > 1 /\ Len(sync'[s].todo) = Len(sync[s].todo) - 1
               /\ sync'[s].anchored = sync[s].anchored
               /\ \A n \in 1..(Len(sync[s].todo) - 1) : sync'[s].todo[n] = sync[s].todo[n + 1]
         /\ UNCHANGED <<claim, log, erased, died>>
<1> DEFINE t == sync[s].todo
           rest == IF Tail(t) = <<>> THEN Idle ELSE [sync[s] EXCEPT !.todo = Tail(t)]
<1>1. sync[s] \in [todo : Seq(Nat), anchored : SUBSET Works] /\ t \in Seq(Nat)
      /\ Len(t) \in Nat /\ Len(t) >= 1
  BY DEF Typed, Batches
<1>2. sync' = [sync EXCEPT ![s] = rest] /\ cursor' = Head(t) /\ UNCHANGED <<claim, log, erased, died>>
  BY DEF Advance
<1>3. Head(t) = t[1] /\ t[1] \in 1..Len(log)
  BY <1>1 DEF Batches
<1>4. Tail(t) \in Seq(Nat) /\ Len(Tail(t)) = Len(t) - 1 /\ \A n \in 1..(Len(t) - 1) : Tail(t)[n] = t[n + 1]
  BY <1>1
<1>5. Idle \in [todo : Seq(Nat), anchored : SUBSET Works]
  BY DEF Idle
<1>6. Tail(t) # <<>> => /\ rest \in [todo : Seq(Nat), anchored : SUBSET Works]
                    /\ rest.todo = Tail(t) /\ rest.anchored = sync[s].anchored
  BY <1>1, <1>4
<1>7. Tail(t) = <<>> => rest = Idle
  OBVIOUS
<1> HIDE DEF rest
<1>8. rest \in [todo : Seq(Nat), anchored : SUBSET Works]
  BY <1>5, <1>6, <1>7
<1>9. sync' \in [Syncs -> [todo : Seq(Nat), anchored : SUBSET Works]]
  BY <1>2, <1>8 DEF Typed
<1>10. \A u \in Syncs : sync'[u] = IF u = s THEN rest ELSE sync[u]
  BY <1>2 DEF Typed
<1>11. Tail(t) = <<>> \/ Len(t) > 1
  BY <1>1, <1>4
<1> QED BY <1>2, <1>3, <1>4, <1>6, <1>7, <1>9, <1>10, <1>11

\* The effect of an event and the work it is about stay what they were.
LEMMA LogGrows ==
  ASSUME log \in Seq(Event), NEW e \in Event, log' = Append(log, e)
  PROVE  /\ log' \in Seq(Event) /\ Len(log') = Len(log) + 1
         /\ \A i \in 1..Len(log) : log'[i] = log[i]
  OBVIOUS

\* A sync deals with its next event: the batches stay consecutive.
LEMMA DealtBatches ==
  ASSUME Typed, Batches, NEW s \in Syncs, sync[s] # Idle, Advance(s)
  PROVE  Batches'
<1>1. /\ \A u \in Syncs \ {s} : sync'[u] = sync[u]
      /\ \/ sync'[s] = Idle
         \/ /\ Len(sync[s].todo) > 1 /\ Len(sync'[s].todo) = Len(sync[s].todo) - 1
            /\ sync'[s].anchored = sync[s].anchored
            /\ \A n \in 1..(Len(sync[s].todo) - 1) : sync'[s].todo[n] = sync[s].todo[n + 1]
      /\ UNCHANGED <<log, erased>>
  BY AdvanceTo
<1> SUFFICES ASSUME NEW u \in Syncs, sync'[u] # Idle
             PROVE  /\ Len(sync'[u].todo) >= 1 /\ Works \ erased \subseteq sync'[u].anchored
                    /\ \A n \in 1..Len(sync'[u].todo) :
                         sync'[u].todo[n] \in 1..Len(log) /\ sync'[u].todo[n] = sync'[u].todo[1] + n - 1
  BY <1>1 DEF Batches
<1>2. CASE u # s
  BY <1>1, <1>2 DEF Batches
<1>3. CASE u = s
  <2> DEFINE t == sync[s].todo
             t2 == sync'[s].todo
  <2>1. Len(t) \in Nat /\ Len(t) > 1 /\ Len(t2) = Len(t) - 1 /\ sync'[s].anchored = sync[s].anchored
        /\ \A n \in 1..(Len(t) - 1) : t2[n] = t[n + 1]
    BY <1>1, <1>3 DEF Typed
  <2>2. \A n \in 1..Len(t) : t[n] \in 1..Len(log) /\ t[n] = t[1] + n - 1
    BY DEF Batches
  <2>3. Works \ erased \subseteq sync[s].anchored
    BY DEF Batches
  <2>4. t[1] \in Nat
    BY <2>1, <2>2
  <2>5. \A n \in 1..Len(t2) : t2[n] = t[n + 1] /\ n + 1 \in 1..Len(t)
    BY <2>1
  <2>6. t2[1] = t[1] + 1
    <3>1. 1 \in 1..Len(t2) /\ 2 \in 1..Len(t)
      BY <2>1
    <3> QED BY <2>2, <2>4, <2>5, <3>1
  <2> HIDE DEF t, t2
  <2>7. \A n \in 1..Len(t2) : t2[n] \in 1..Len(log) /\ t2[n] = t2[1] + n - 1
    BY <2>1, <2>2, <2>4, <2>5, <2>6
  <2>8. Len(t2) >= 1
    BY <2>1
  <2> QED BY <1>3, <2>1, <2>3, <2>7, <2>8 DEF t2
<1> QED BY <1>2, <1>3

\* It deals with it: what is behind the watermark is past, in the order of its work.
LEMMA DealtOrdered ==
  ASSUME Typed, Batches, Ordered, NEW s \in Syncs, sync[s] # Idle, Advance(s),
         NEW i, i = Head(sync[s].todo),
         \/ Ignored(s, i) /\ processed' = processed
         \/ ~Ignored(s, i) /\ processed' = processed \cup {i}
  PROVE  /\ Ordered'
         /\ ~Ignored(s, i) => \A h \in processed : log[h].work = log[i].work => h < i
<1> DEFINE t == sync[s].todo
<1>1. /\ cursor' = t[1] /\ i = t[1] /\ t[1] \in 1..Len(log)
      /\ \A u \in Syncs \ {s} : sync'[u] = sync[u]
      /\ \/ sync'[s] = Idle
         \/ /\ Len(t) > 1 /\ sync'[s].anchored = sync[s].anchored
            /\ \A n \in 1..(Len(t) - 1) : sync'[s].todo[n] = t[n + 1]
      /\ UNCHANGED <<log, erased>>
  BY AdvanceTo
<1>2. cursor # Unseeded /\ \E k \in Nat : OrderedFrom(k)
  BY DEF Ordered
<1>3. PICK k \in Nat : OrderedFrom(k)
  BY <1>2
<1>4. i \in Nat /\ i > k /\ \A j \in (k + 1)..(i - 1) : Past(j, sync[s].anchored)
  BY <1>1, <1>3 DEF OrderedFrom
<1>5. Len(t) \in Nat /\ Len(log) \in Nat /\ \A h \in processed : h \in Nat
  BY DEF Typed
<1>6. sync'[s] = Idle \/ sync'[s].todo[1] = i + 1
  <2> SUFFICES ASSUME Len(t) > 1, sync'[s].todo[1] = t[2] PROVE sync'[s].todo[1] = i + 1
    BY <1>1, <1>5
  <2>1. 2 \in 1..Len(t)
    BY <1>5
  <2>2. t[2] = t[1] + 2 - 1
    BY <2>1 DEF Batches
  <2> QED BY <1>1, <1>4, <2>2
<1> DEFINE PastNow(j, anchored) == j \in processed' \/ Effect(log[j]) = "none" \/ log[j].work \notin anchored
<1>7. \A j, a : Past(j, a) => PastNow(j, a)
  BY DEF Past
<1>8. PastNow(i, sync[s].anchored)
  BY DEF Ignored
<1>9. Works \ erased \subseteq sync[s].anchored
  BY DEF Batches
<1>10. ASSUME NEW j \in (k + 1)..i
       PROVE  PastNow(j, sync[s].anchored) /\ PastNow(j, Works \ erased)
  <2>1. PastNow(j, sync[s].anchored)
    <3>1. j = i \/ j \in (k + 1)..(i - 1)
      BY <1>4
    <3> QED BY <1>4, <1>7, <1>8, <3>1
  <2> QED BY <1>9, <2>1
<1>11. ASSUME ~Ignored(s, i), NEW h \in processed, log[h].work = log[i].work PROVE h < i
  <2> SUFFICES ASSUME ~(h < i) PROVE FALSE
    OBVIOUS
  <2>1. Effect(log[i]) # "none" /\ i \notin processed
    BY <1>11 DEF Ignored
  <2>2. i \in (k + 1)..(h - 1)
    BY <1>4, <1>5, <2>1
  <2> QED BY <1>3, <1>11, <2>1, <2>2 DEF OrderedFrom
<1>12. OrderedFrom(k)'
  <2>1. cursor' >= k
    BY <1>1, <1>4
  <2>2. ASSUME NEW u \in Syncs, sync'[u] # Idle
        PROVE  sync'[u].todo[1] > k /\ \A j \in (k + 1)..(sync'[u].todo[1] - 1) : PastNow(j, sync'[u].anchored)
    <3>1. CASE u # s
      <4>1. sync'[u] = sync[u] /\ sync[u] # Idle
        BY <1>1, <2>2, <3>1
      <4> QED BY <1>3, <1>7, <4>1 DEF OrderedFrom
    <3>2. CASE u = s
      <4>1. sync'[s].todo[1] = i + 1 /\ sync'[s].anchored = sync[s].anchored
        BY <1>1, <1>6, <2>2, <3>2
      <4>2. i + 1 > k /\ (i + 1) - 1 = i
        BY <1>4
      <4> QED BY <1>10, <3>2, <4>1, <4>2
    <3> QED BY <3>1, <3>2
  <2>3. \A j \in (k + 1)..cursor' : PastNow(j, Works \ erased)
    BY <1>1, <1>10
  <2>4. ASSUME NEW h \in processed'
        PROVE  h > k /\ \A j \in (k + 1)..(h - 1) :
                 log[j].work = log[h].work => j \in processed' \/ Effect(log[j]) = "none"
    <3>1. CASE h \in processed
      BY <1>3, <3>1 DEF OrderedFrom
    <3>2. CASE h = i /\ ~Ignored(s, i) /\ processed' = processed \cup {i}
      <4>1. log[i].work \in sync[s].anchored
        BY <3>2 DEF Ignored
      <4> QED BY <1>4, <3>2, <4>1 DEF Past
    <3> QED BY <2>4, <3>1, <3>2
  <2>5. \A j, a : PastNow(j, a) <=> (j \in processed' \/ Effect(log'[j]) = "none" \/ log'[j].work \notin a)
    BY <1>1
  <2> HIDE DEF PastNow
  <2> QED BY <1>1, <2>1, <2>2, <2>3, <2>4, <2>5 DEF OrderedFrom, Past, Effect
<1>13. cursor' # Unseeded
  BY <1>1, <1>4 DEF Unseeded
<1>14. Ordered'
  <2>1. \E m \in Nat : OrderedFrom(m)'
    BY <1>12
  <2> QED BY <1>13, <2>1 DEF Ordered
<1> QED BY <1>11, <1>14

\* A set of numbers has a least one.
LEMMA LeastNumber ==
  ASSUME NEW S, S \subseteq Nat, S # {}
  PROVE  \E m \in S : \A n \in S : m <= n
<1>1. PICK m \in S : \A n \in S : ~(<<n, m>> \in OpToRel(<, Nat))
  BY NatLessThanWellFounded, WFMin
<1>2. ASSUME NEW n \in S PROVE m <= n
  <2>1. n \in Nat /\ m \in Nat
    OBVIOUS
  <2>2. n < m => <<n, m>> \in OpToRel(<, Nat)
    BY <2>1 DEF OpToRel
  <2>3. ~(n < m)
    BY <1>1, <2>2
  <2> QED BY <2>1, <2>3
<1> QED BY <1>2

\* The latest state of a work is that of the event recorded last; of the others
\* it stays.
LEMMA LatestRecorded ==
  ASSUME Typed, NEW i \in 1..Len(log), processed' = processed \cup {i}, log' = log,
         \A h \in processed : log[h].work = log[i].work => h < i
  PROVE  /\ LatestState(log[i].work)' = log[i].to
         /\ HasSubmitter(log[i].work)' <=> HasSubmitter(log[i].work) \/ log[i].to = "pending"
         /\ \A w \in Works \ {log[i].work} :
              LatestState(w)' = LatestState(w) /\ (HasSubmitter(w)' <=> HasSubmitter(w))
<1> DEFINE of(w) == {h \in processed : log[h].work = w}
           ofNow(w) == {h \in processed' : log'[h].work = w}
           v == log[i].work
<1>1. processed \subseteq Nat /\ i \in Nat
  BY DEF Typed
<1>2. i \in ofNow(v) /\ \A h \in ofNow(v) : h \in Nat /\ i >= h
  BY <1>1
<1> HIDE DEF ofNow
<1>3. Max(ofNow(v)) = i
  <2>1. \E x \in ofNow(v) : \A y \in ofNow(v) : x >= y
    BY <1>2
  <2>2. Max(ofNow(v)) \in ofNow(v) /\ \A y \in ofNow(v) : Max(ofNow(v)) >= y
    BY <2>1 DEF Max
  <2> QED BY <1>1, <1>2, <2>2
<1>4. LatestState(v)' = log[i].to
  <2>1. LatestState(v)' = IF ofNow(v) = {} THEN "" ELSE log'[Max(ofNow(v))].to
    BY DEF LatestState, ofNow
  <2> QED BY <1>2, <1>3, <2>1
<1>5. ASSUME NEW w \in Works \ {v} PROVE LatestState(w)' = LatestState(w) /\ (HasSubmitter(w)' <=> HasSubmitter(w))
  <2>1. ofNow(w) = of(w)
    BY DEF ofNow
  <2>2. LatestState(w)' = IF ofNow(w) = {} THEN "" ELSE log'[Max(ofNow(w))].to
    BY DEF LatestState, ofNow
  <2>3. LatestState(w) = IF of(w) = {} THEN "" ELSE log[Max(of(w))].to
    BY DEF LatestState
  <2> HIDE DEF of
  <2>4. LatestState(w)' = LatestState(w)
    BY <2>1, <2>2, <2>3
  <2>5. HasSubmitter(w)' <=> HasSubmitter(w)
    BY DEF HasSubmitter
  <2> QED BY <2>4, <2>5
<1>6. HasSubmitter(v)' <=> HasSubmitter(v) \/ log[i].to = "pending"
  BY DEF HasSubmitter
<1> QED BY <1>4, <1>5, <1>6

\* What is not recorded changes no state of a work.
LEMMA LatestKept ==
  ASSUME Typed, processed' = processed, \A h \in processed : log'[h] = log[h]
  PROVE  \A w \in Works : LatestState(w)' = LatestState(w) /\ (HasSubmitter(w)' <=> HasSubmitter(w))
<1> SUFFICES ASSUME NEW w \in Works
             PROVE  LatestState(w)' = LatestState(w) /\ (HasSubmitter(w)' <=> HasSubmitter(w))
  OBVIOUS
<1> DEFINE of == {h \in processed : log[h].work = w}
           ofNow == {h \in processed' : log'[h].work = w}
<1>1. ofNow = of
  OBVIOUS
<1>2. LatestState(w)' = IF ofNow = {} THEN "" ELSE log'[Max(ofNow)].to
  BY DEF LatestState
<1>3. LatestState(w) = IF of = {} THEN "" ELSE log[Max(of)].to
  BY DEF LatestState
<1>4. of # {} => Max(of) \in processed
  <2> SUFFICES ASSUME of # {} PROVE Max(of) \in of
    OBVIOUS
  <2>1. \E x \in of : \A y \in of : x >= y
    <3> DEFINE back == {Len(log) - x : x \in of}
    <3>1. of \subseteq 1..Len(log) /\ Len(log) \in Nat
      BY DEF Typed
    <3> HIDE DEF of
    <3>2. \A x \in of : Len(log) - x \in Nat
      BY <3>1
    <3>5. back \subseteq Nat /\ back # {}
      <4>1. \A n \in back : n \in Nat
        BY <3>2
      <4>2. \E x \in of : TRUE
        OBVIOUS
      <4> QED BY <4>1, <4>2
    <3>3. PICK m \in back : \A n \in back : m <= n
      BY <3>5, LeastNumber
    <3>4. PICK x \in of : m = Len(log) - x
      BY <3>3
    <3>6. ASSUME NEW y \in of PROVE x >= y
      <4>1. m <= Len(log) - y
        BY <3>3
      <4> QED BY <3>1, <3>4, <4>1
    <3> QED BY <3>4, <3>6
  <2> HIDE DEF of
  <2> QED BY <2>1 DEF Max
<1> HIDE DEF of, ofNow
<1>5. LatestState(w)' = LatestState(w)
  BY <1>1, <1>2, <1>3, <1>4
<1>6. HasSubmitter(w)' <=> HasSubmitter(w)
  BY DEF HasSubmitter
<1> QED BY <1>5, <1>6

\* The first state: nothing has happened.
LEMMA InitClaims == Init => ClaimInv
<1> SUFFICES ASSUME Init PROVE ClaimInv
  OBVIOUS
<1>1. log = <<>> /\ Len(log) = 0 /\ DOMAIN public = {} /\ processed = {} /\ cursor = Unseeded
  BY DEF Init
<1>2. Idle \in [todo : Seq(Nat), anchored : SUBSET Works]
  BY DEF Idle
<1>3. public \in [DOMAIN public -> BOOLEAN]
  BY DEF Init
<1>4. Typed
  BY <1>1, <1>2, <1>3 DEF Init, Typed, States, Landing, Unseeded
<1>5. Batches /\ Ordered
  BY DEF Init, Batches, Ordered
<1>6. Told /\ Landed /\ BannedStaysDown
  BY <1>1 DEF Init, Told, Landed, BannedStaysDown
<1> QED BY <1>4, <1>5, <1>6 DEF ClaimInv

\* A sync is idle or has the type of one that is not; where it dies it is idle.
LEMMA IdleAgain ==
  ASSUME ClaimInv, NEW s \in Syncs, Die(s)
  PROVE  ClaimInv'
<1>1. UNCHANGED <<claim, log, erased, public, processed, cursor, notices, landing>>
  BY DEF Die
<1>2. Idle \in [todo : Seq(Nat), anchored : SUBSET Works]
  BY DEF Idle
<1>3. \A u \in Syncs : sync'[u] = IF u = s THEN Idle ELSE sync[u]
  BY DEF Die, ClaimInv, Typed
<1>4. sync' \in [Syncs -> [todo : Seq(Nat), anchored : SUBSET Works]]
  BY <1>2 DEF Die, ClaimInv, Typed
<1>5. Typed'
  BY <1>1, <1>4 DEF ClaimInv, Typed
<1>6. Batches'
  BY <1>1, <1>3 DEF ClaimInv, Batches
<1>7. Ordered'
  <2>1. \A k \in Nat : OrderedFrom(k) => OrderedFrom(k)'
    BY <1>1, <1>3 DEF OrderedFrom, Past, Effect
  <2> QED BY <1>1, <1>3, <2>1 DEF ClaimInv, Ordered
<1>8. Told'
  BY <1>1 DEF ClaimInv, Told
<1>9. \A w \in Works : LatestState(w)' = LatestState(w) /\ (HasSubmitter(w)' <=> HasSubmitter(w))
  BY <1>1, LatestKept DEF ClaimInv
<1>10. Landed' /\ BannedStaysDown'
  BY <1>1, <1>9 DEF ClaimInv, Typed, Landed, Banned, BannedStaysDown
<1> QED BY <1>5, <1>6, <1>7, <1>8, <1>10 DEF ClaimInv

\* The watermark is seeded at the end of the log.
LEMMA SeedClaims ==
  ASSUME ClaimInv, Seed
  PROVE  ClaimInv'
<1>1. cursor = Unseeded /\ cursor' = Len(log) /\ UNCHANGED <<claim, log, erased, public, processed, sync, notices, landing>>
  BY DEF Seed
<1>2. Len(log) \in Nat /\ processed = {} /\ \A s \in Syncs : sync[s] = Idle
  BY <1>1 DEF ClaimInv, Typed, Ordered
<1>3. Typed'
  BY <1>1, <1>2 DEF ClaimInv, Typed, Unseeded
<1>4. Batches'
  BY <1>1 DEF ClaimInv, Batches
<1>5. OrderedFrom(Len(log))'
  BY <1>1, <1>2 DEF OrderedFrom
<1>6. Ordered'
  <2>1. \E k \in Nat : OrderedFrom(k)'
    <3>1. Len(log') = Len(log)
      BY <1>1
    <3> QED BY <1>2, <1>5, <3>1
  <2> QED BY <1>1, <1>2, <2>1 DEF Ordered, Unseeded
<1>7. \A w \in Works : LatestState(w)' = LatestState(w) /\ (HasSubmitter(w)' <=> HasSubmitter(w))
  BY <1>1, LatestKept DEF ClaimInv
<1>8. Told' /\ Landed' /\ BannedStaysDown'
  BY <1>1, <1>7 DEF ClaimInv, Typed, Told, Landed, Banned, BannedStaysDown
<1> QED BY <1>3, <1>4, <1>6, <1>8 DEF ClaimInv

\* A fetch takes what is behind the watermark.
LEMMA FetchClaims ==
  ASSUME ClaimInv, NEW s \in Syncs, Fetch(s)
  PROVE  ClaimInv'
<1> DEFINE n == Len(log) - cursor
           t == [i \in 1..n |-> cursor + i]
           taken == [todo |-> t, anchored |-> Works \ erased]
<1>1. /\ cursor # Unseeded /\ cursor < Len(log) /\ sync' = [sync EXCEPT ![s] = taken]
      /\ UNCHANGED <<claim, log, erased, public, processed, cursor, notices, landing>>
  BY DEF Fetch
<1>2. cursor \in Nat /\ Len(log) \in Nat /\ n \in Nat /\ n >= 1
  BY <1>1 DEF ClaimInv, Typed, Unseeded
<1> HIDE DEF n
<1>3. t \in Seq(Nat) /\ Len(t) = n /\ \A i \in 1..n : t[i] = cursor + i
  BY <1>2
<1>4. \A i \in 1..n : t[i] \in 1..Len(log) /\ t[i] = t[1] + i - 1
  <2> SUFFICES ASSUME NEW i \in 1..n PROVE t[i] \in 1..Len(log) /\ t[i] = t[1] + i - 1
    OBVIOUS
  <2>1. t[1] = cursor + 1 /\ t[i] = cursor + i
    BY <1>2, <1>3
  <2> HIDE DEF t
  <2> QED BY <1>2, <2>1 DEF n
<1> HIDE DEF t
<1>5. taken \in [todo : Seq(Nat), anchored : SUBSET Works] /\ taken.todo = t /\ taken.anchored = Works \ erased
  BY <1>3
<1> HIDE DEF taken
<1>6. \A u \in Syncs : sync'[u] = IF u = s THEN taken ELSE sync[u]
  BY <1>1 DEF ClaimInv, Typed
<1>7. sync' \in [Syncs -> [todo : Seq(Nat), anchored : SUBSET Works]]
  BY <1>1, <1>5 DEF ClaimInv, Typed
<1>8. Typed'
  BY <1>1, <1>7 DEF ClaimInv, Typed
<1>9. Batches'
  <2> SUFFICES ASSUME NEW u \in Syncs, sync'[u] # Idle
               PROVE  /\ Len(sync'[u].todo) >= 1 /\ Works \ erased \subseteq sync'[u].anchored
                      /\ \A i \in 1..Len(sync'[u].todo) :
                           sync'[u].todo[i] \in 1..Len(log) /\ sync'[u].todo[i] = sync'[u].todo[1] + i - 1
    BY <1>1 DEF Batches
  <2>1. CASE u = s
    <3>1. sync'[u].todo = t /\ sync'[u].anchored = Works \ erased
      BY <1>5, <1>6, <2>1
    <3> QED BY <1>2, <1>3, <1>4, <3>1
  <2>2. CASE u # s
    BY <1>6, <2>2 DEF ClaimInv, Batches
  <2> QED BY <2>1, <2>2
<1>10. Ordered'
  <2>1. PICK k \in Nat : OrderedFrom(k)
    BY <1>1 DEF ClaimInv, Ordered
  <2>2. t[1] = cursor + 1 /\ t[1] > k /\ t[1] - 1 = cursor
    BY <1>2, <1>3, <2>1 DEF OrderedFrom
  <2>3. \A j, a : Past(j, a) <=> j \in processed' \/ Effect(log'[j]) = "none" \/ log'[j].work \notin a
    BY <1>1 DEF Past
  <2>4. ASSUME NEW u \in Syncs, sync'[u] # Idle
        PROVE  sync'[u].todo[1] > k /\ \A j \in (k + 1)..(sync'[u].todo[1] - 1) : Past(j, sync'[u].anchored)
    <3>1. CASE u = s
      BY <1>5, <1>6, <2>1, <2>2, <3>1 DEF OrderedFrom
    <3>2. CASE u # s
      BY <1>6, <2>1, <2>4, <3>2 DEF OrderedFrom
    <3> QED BY <3>1, <3>2
  <2>5. OrderedFrom(k)'
    BY <1>1, <2>1, <2>3, <2>4 DEF OrderedFrom, Past, Effect
  <2>6. \E m \in Nat : OrderedFrom(m)'
    BY <2>5
  <2> QED BY <1>1, <2>6 DEF Ordered
<1>11. \A w \in Works : LatestState(w)' = LatestState(w) /\ (HasSubmitter(w)' <=> HasSubmitter(w))
  BY <1>1, LatestKept DEF ClaimInv
<1>12. Told' /\ Landed' /\ BannedStaysDown'
  BY <1>1, <1>11 DEF ClaimInv, Typed, Told, Landed, Banned, BannedStaysDown
<1> QED BY <1>8, <1>9, <1>10, <1>12 DEF ClaimInv

\* Catalog lists a transition: the events there are stay what they were.
LEMMA TransitionClaims ==
  ASSUME ClaimInv, NEW w \in Works, NEW to \in States, Transition(w, to)
  PROVE  ClaimInv'
<1> DEFINE e == [work |-> w, from |-> claim[w], to |-> to]
<1>1. /\ claim' = [claim EXCEPT ![w] = to] /\ log' = Append(log, e)
      /\ UNCHANGED <<erased, public, processed, cursor, sync, notices, landing, died>>
  BY DEF Transition
<1>2. e \in Event
  BY DEF Event, ClaimInv, Typed
<1> HIDE DEF e
<1>3. log' \in Seq(Event) /\ Len(log') = Len(log) + 1 /\ \A i \in 1..Len(log) : log'[i] = log[i]
  BY <1>1, <1>2, LogGrows DEF ClaimInv, Typed
<1>4. Len(log) \in Nat /\ \A i \in 1..Len(log) : i \in 1..Len(log')
  BY <1>3 DEF ClaimInv, Typed
<1>5. cursor \in Unseeded..Len(log') /\ processed \subseteq 1..Len(log')
  BY <1>3, <1>4 DEF ClaimInv, Typed, Unseeded
<1>6. Typed'
  BY <1>1, <1>3, <1>5 DEF ClaimInv, Typed
<1>7. Batches'
  BY <1>1, <1>4 DEF ClaimInv, Batches
<1>8. Ordered'
  <2> SUFFICES ASSUME cursor # Unseeded PROVE \E k \in Nat : OrderedFrom(k)'
    BY <1>1 DEF ClaimInv, Ordered
  <2>1. PICK k \in Nat : OrderedFrom(k)
    BY DEF ClaimInv, Ordered
  <2>2. \A a : \A j \in 1..Len(log) : Past(j, a) =>
          j \in processed' \/ Effect(log'[j]) = "none" \/ log'[j].work \notin a
    BY <1>1, <1>3 DEF Past
  <2>3. \A j \in (k + 1)..cursor : j \in 1..Len(log)
    BY <1>4 DEF ClaimInv, Typed, Unseeded
  <2>4. ASSUME NEW u \in Syncs, sync[u] # Idle
        PROVE  \A j \in (k + 1)..(sync[u].todo[1] - 1) : j \in 1..Len(log)
    <3>1. 1 \in 1..Len(sync[u].todo)
      BY <2>4 DEF ClaimInv, Typed, Batches
    <3>2. sync[u].todo[1] \in 1..Len(log)
      BY <2>4, <3>1 DEF ClaimInv, Batches
    <3> QED BY <1>4, <3>2
  <2>5. ASSUME NEW i \in processed
        PROVE  log'[i] = log[i] /\ \A j \in (k + 1)..(i - 1) : log'[j] = log[j]
    <3>1. i \in 1..Len(log) /\ \A j \in (k + 1)..(i - 1) : j \in 1..Len(log)
      BY <1>4 DEF ClaimInv, Typed
    <3> QED BY <1>3, <3>1
  <2>6. ASSUME NEW u \in Syncs, sync'[u] # Idle
        PROVE  sync'[u].todo[1] > k /\ \A j \in (k + 1)..(sync'[u].todo[1] - 1) :
                 j \in processed' \/ Effect(log'[j]) = "none" \/ log'[j].work \notin sync'[u].anchored
    BY <1>1, <2>1, <2>2, <2>4, <2>6 DEF OrderedFrom
  <2>7. \A j \in (k + 1)..cursor' :
          j \in processed' \/ Effect(log'[j]) = "none" \/ log'[j].work \notin Works \ erased'
    BY <1>1, <2>1, <2>2, <2>3 DEF OrderedFrom
  <2>8. \A i \in processed' : i > k /\ \A j \in (k + 1)..(i - 1) :
          log'[j].work = log'[i].work => j \in processed' \/ Effect(log'[j]) = "none"
    <3> SUFFICES ASSUME NEW i \in processed
                 PROVE  i > k /\ \A j \in (k + 1)..(i - 1) :
                          log'[j].work = log'[i].work => j \in processed \/ Effect(log'[j]) = "none"
      BY <1>1
    <3>1. i > k
      BY <2>1 DEF OrderedFrom
    <3>2. ASSUME NEW j \in (k + 1)..(i - 1), log'[j].work = log'[i].work
          PROVE  j \in processed \/ Effect(log'[j]) = "none"
      <4>1. log'[i] = log[i] /\ log'[j] = log[j]
        BY <2>5
      <4>2. log[j].work = log[i].work
        BY <3>2, <4>1
      <4>3. j \in processed \/ Effect(log[j]) = "none"
        BY <2>1, <4>2 DEF OrderedFrom
      <4> QED BY <4>1, <4>3
    <3> QED BY <3>1, <3>2
  <2>9. OrderedFrom(k)'
    BY <1>1, <2>1, <2>6, <2>7, <2>8 DEF OrderedFrom, Past, Effect
  <2> QED BY <2>9
<1>9. \A v \in Works : LatestState(v)' = LatestState(v) /\ (HasSubmitter(v)' <=> HasSubmitter(v))
  <2>1. \A h \in processed : log'[h] = log[h]
    BY <1>3 DEF ClaimInv, Typed
  <2> QED BY <1>1, <2>1, LatestKept DEF ClaimInv
<1>10. Told' /\ Landed' /\ BannedStaysDown'
  BY <1>1, <1>9 DEF ClaimInv, Typed, Told, Landed, Banned, BannedStaysDown
<1> QED BY <1>6, <1>7, <1>8, <1>10 DEF ClaimInv

\* A step that touches neither log, syncs nor what is recorded keeps the order.
LEMMA PagesAlone ==
  ASSUME ClaimInv, Typed', UNCHANGED <<log, processed, cursor, sync, notices>>, erased \subseteq erased',
         Landed', BannedStaysDown'
  PROVE  ClaimInv'
<1>1. Batches'
  BY DEF ClaimInv, Batches
<1>2. \A k \in Nat : OrderedFrom(k) => OrderedFrom(k)'
  BY DEF OrderedFrom, Past, Effect
<1>3. Ordered'
  BY <1>2 DEF ClaimInv, Ordered
<1>4. Told'
  BY DEF ClaimInv, Told
<1> QED BY <1>1, <1>3, <1>4 DEF ClaimInv

\* A merge erases a claim; a page is created; a resource lands and is written.
LEMMA PagesClaims ==
  ASSUME ClaimInv, NEW w \in Works, Erase(w) \/ CreatePage(w) \/ MarkIndexed(w) \/ Indexed(w)
  PROVE  ClaimInv'
<1>1. UNCHANGED <<log, processed, cursor, sync, notices>>
  BY DEF Erase, CreatePage, MarkIndexed, Indexed
<1>2. \A v \in Works : LatestState(v)' = LatestState(v) /\ (HasSubmitter(v)' <=> HasSubmitter(v))
  BY <1>1, LatestKept DEF ClaimInv
<1>3. CASE Erase(w)
  <2>1. UNCHANGED <<public, landing>> /\ erased \subseteq erased'
    BY <1>3 DEF Erase
  <2>2. Typed'
    BY <1>1, <1>3 DEF ClaimInv, Typed, Erase, States
  <2>3. Landed' /\ BannedStaysDown'
    BY <1>2, <2>1 DEF ClaimInv, Typed, Landed, Banned, BannedStaysDown
  <2> QED BY <1>1, <2>1, <2>2, <2>3, PagesAlone
<1>4. CASE CreatePage(w)
  <2>1. UNCHANGED <<claim, erased, landing>> /\ w \notin DOMAIN public
        /\ public' = [x \in DOMAIN public \cup {w} |-> x # w /\ public[x]]
    BY <1>4 DEF CreatePage
  <2>2. DOMAIN public' = DOMAIN public \cup {w} /\ public' \in [DOMAIN public' -> BOOLEAN]
    BY <2>1 DEF ClaimInv, Typed
  <2>3. ~public'[w] /\ \A v \in DOMAIN public : public'[v] <=> public[v]
    BY <2>1
  <2>4. Typed'
    BY <1>1, <2>1, <2>2 DEF ClaimInv, Typed
  <2>5. Landed' /\ BannedStaysDown'
    BY <1>2, <2>1, <2>2, <2>3 DEF ClaimInv, Typed, Landed, Banned, BannedStaysDown
  <2> QED BY <1>1, <2>1, <2>4, <2>5, PagesAlone
<1>5. CASE MarkIndexed(w)
  <2>1. /\ UNCHANGED <<claim, erased, public>> /\ w \in DOMAIN public /\ ~public[w]
        /\ LatestState(w) # "hidden" /\ landing' = [landing EXCEPT ![w] = "fit"]
    BY <1>5 DEF MarkIndexed
  <2>2. Typed'
    BY <1>1, <2>1 DEF ClaimInv, Typed, Landing
  <2>3. \A v \in Works : landing'[v] = IF v = w THEN "fit" ELSE landing[v]
    BY <2>1 DEF ClaimInv, Typed
  <2>4. Landed' /\ BannedStaysDown'
    BY <1>2, <2>1, <2>3 DEF ClaimInv, Typed, Landed, Banned, BannedStaysDown
  <2> QED BY <1>1, <2>1, <2>2, <2>4, PagesAlone
<1>6. CASE Indexed(w)
  <2>1. /\ UNCHANGED <<claim, erased>> /\ landing[w] \in {"fit", "late"}
        /\ public' = [public EXCEPT ![w] = TRUE]
        /\ landing' = [landing EXCEPT ![w] = IF landing[w] = "late" THEN "spoilt" ELSE "no"]
    BY <1>6 DEF Indexed
  <2>2. w \in DOMAIN public /\ (landing[w] = "fit" => ~Banned(w))
    BY <2>1 DEF ClaimInv, Landed
  <2>3. /\ DOMAIN public' = DOMAIN public /\ public' \in [DOMAIN public' -> BOOLEAN]
        /\ \A v \in DOMAIN public : public'[v] <=> v = w \/ public[v]
    BY <2>1, <2>2 DEF ClaimInv, Typed
  <2>4. \A v \in Works : landing'[v] = IF v # w THEN landing[v] ELSE IF landing[w] = "late" THEN "spoilt" ELSE "no"
    BY <2>1 DEF ClaimInv, Typed
  <2>5. landing' \in [Works -> Landing]
    BY <2>1 DEF ClaimInv, Typed, Landing
  <2>6. Typed'
    BY <1>1, <2>1, <2>3, <2>5 DEF ClaimInv, Typed
  <2>7. Landed' /\ BannedStaysDown'
    BY <1>2, <2>1, <2>2, <2>3, <2>4 DEF ClaimInv, Typed, Landed, Banned, BannedStaysDown
  <2> QED BY <1>1, <2>1, <2>6, <2>7, PagesAlone
<1> QED BY <1>3, <1>4, <1>5, <1>6

\* What an event says of a claim: hidden is a ban, pending a submission.
LEMMA EffectOf ==
  ASSUME NEW e
  PROVE  /\ Effect(e) = "banned" <=> e.to = "hidden"
         /\ Effect(e) = "remember" <=> e.to = "pending"
  BY DEF Effect

\* The typed parts, batches and order after any event that is dealt with.
LEMMA DealtClaims ==
  ASSUME ClaimInv, NEW s \in Syncs, sync[s] # Idle, Advance(s),
         NEW i, i = Head(sync[s].todo),
         \/ Ignored(s, i) /\ processed' = processed
         \/ ~Ignored(s, i) /\ processed' = processed \cup {i},
         public' \in [DOMAIN public -> BOOLEAN], landing' \in [Works -> Landing]
  PROVE  Typed' /\ Batches' /\ Ordered'
<1>1. /\ sync' \in [Syncs -> [todo : Seq(Nat), anchored : SUBSET Works]]
      /\ cursor' = i /\ i \in 1..Len(log) /\ UNCHANGED <<claim, log, erased, died>>
  BY AdvanceTo DEF ClaimInv
<1>2. processed' \subseteq 1..Len(log) /\ cursor' \in Unseeded..Len(log)
  BY <1>1 DEF ClaimInv, Typed, Unseeded
<1>3. Typed'
  BY <1>1, <1>2 DEF ClaimInv, Typed
<1>4. Batches'
  BY DealtBatches DEF ClaimInv
<1>5. Ordered'
  BY DealtOrdered DEF ClaimInv
<1> QED BY <1>3, <1>4, <1>5

\* An event that has no effect, no page anchor or was done before is passed by.
LEMMA SkipClaims ==
  ASSUME ClaimInv, NEW s \in Syncs, SkipEvent(s)
  PROVE  ClaimInv'
<1>1. Ignored(s, Head(sync[s].todo)) /\ sync[s] # Idle /\ Advance(s)
      /\ UNCHANGED <<public, processed, notices, landing>>
  BY DEF SkipEvent
<1>2. Typed' /\ Batches' /\ Ordered'
  BY <1>1, DealtClaims DEF ClaimInv, Typed
<1>3. log' = log
  BY <1>1 DEF Advance
<1>4. \A w \in Works : LatestState(w)' = LatestState(w) /\ (HasSubmitter(w)' <=> HasSubmitter(w))
  BY <1>1, <1>3, LatestKept DEF ClaimInv
<1>5. Told' /\ Landed' /\ BannedStaysDown'
  BY <1>1, <1>4 DEF ClaimInv, Typed, Told, Landed, Banned, BannedStaysDown
<1> QED BY <1>2, <1>5 DEF ClaimInv

\* What recording an event makes of the states: of its work the event's, of the
\* others what they were.
LEMMA RecordedStates ==
  ASSUME ClaimInv, NEW s \in Syncs, sync[s] # Idle, Advance(s),
         NEW i, i = Head(sync[s].todo), ~Ignored(s, i), processed' = processed \cup {i},
         NEW v, v = log[i].work
  PROVE  /\ v \in Works /\ LatestState(v)' = log[i].to
         /\ HasSubmitter(v)' <=> HasSubmitter(v) \/ log[i].to = "pending"
         /\ \A w \in Works \ {v} :
              LatestState(w)' = LatestState(w) /\ (HasSubmitter(w)' <=> HasSubmitter(w))
<1>1. i \in 1..Len(log) /\ log' = log
  BY AdvanceTo DEF ClaimInv
<1>2. \A h \in processed : log[h].work = log[i].work => h < i
  BY DealtOrdered DEF ClaimInv
<1>3. log[i] \in Event
  BY <1>1 DEF ClaimInv, Typed
<1>4. LatestState(v)' = LatestState(log[i].work)' /\ (HasSubmitter(v)' <=> HasSubmitter(log[i].work)')
  BY <1>1 DEF LatestState, HasSubmitter
<1> QED BY <1>1, <1>2, <1>3, <1>4, LatestRecorded DEF ClaimInv, Event

\* An event nobody is told about is a submission, or of a work without a known
\* submitter: no ban of a known one.
LEMMA RecordClaims ==
  ASSUME ClaimInv, NEW s \in Syncs, RecordEvent(s)
  PROVE  ClaimInv'
<1>0. PICK i, v : i = Head(sync[s].todo) /\ v = log[i].work
  OBVIOUS
<1>1. /\ sync[s] # Idle /\ ~Ignored(s, i) /\ Unattributed(i) /\ processed' = processed \cup {i}
      /\ Advance(s) /\ UNCHANGED <<public, notices, landing>>
  BY <1>0 DEF RecordEvent
<1>2. Typed' /\ Batches' /\ Ordered'
  BY <1>0, <1>1, DealtClaims DEF ClaimInv, Typed
<1>3. /\ LatestState(v)' = log[i].to
      /\ HasSubmitter(v)' <=> HasSubmitter(v) \/ log[i].to = "pending"
      /\ \A w \in Works \ {v} : LatestState(w)' = LatestState(w) /\ (HasSubmitter(w)' <=> HasSubmitter(w))
  BY <1>0, <1>1, RecordedStates
<1>4. ~(LatestState(v)' = "hidden" /\ HasSubmitter(v)')
  <2>1. log[i].to = "pending" \/ ~HasSubmitter(v)
    BY <1>0, <1>1, EffectOf DEF Unattributed
  <2> QED BY <1>3, <2>1
<1>5. Told'
  BY <1>1 DEF ClaimInv, Told
<1>6. Landed' /\ BannedStaysDown'
  BY <1>1, <1>3, <1>4 DEF ClaimInv, Typed, Landed, Banned, BannedStaysDown
<1> QED BY <1>2, <1>5, <1>6 DEF ClaimInv

\* An event is applied with its record: a ban takes the page down, and what was
\* judged before it is late.
LEMMA ApplyClaims ==
  ASSUME ClaimInv, NEW s \in Syncs, ApplyEvent(s)
  PROVE  ClaimInv'
<1>0. PICK i, v, ban : i = Head(sync[s].todo) /\ v = log[i].work /\ ban = (log[i].to = "hidden")
  OBVIOUS
<1>1. /\ sync[s] # Idle /\ ~Ignored(s, i) /\ ~Unattributed(i) /\ processed' = processed \cup {i}
      /\ Advance(s) /\ notices' = [notices EXCEPT ![i] = notices[i] + 1]
      /\ public' = IF Effect(log[i]) = "banned" /\ v \in DOMAIN public
                   THEN [public EXCEPT ![v] = FALSE] ELSE public
      /\ landing' = IF Effect(log[i]) = "banned"
                    THEN [landing EXCEPT ![v] = Overtaken(landing[v])] ELSE landing
  BY <1>0 DEF ApplyEvent
<1>2. ban <=> Effect(log[i]) = "banned"
  BY <1>0, EffectOf
<1>3. /\ v \in Works /\ LatestState(v)' = log[i].to
      /\ \A w \in Works \ {v} : LatestState(w)' = LatestState(w) /\ (HasSubmitter(w)' <=> HasSubmitter(w))
  BY <1>0, <1>1, RecordedStates
<1>4. /\ DOMAIN public' = DOMAIN public /\ public' \in [DOMAIN public -> BOOLEAN]
      /\ \A w \in DOMAIN public : public'[w] <=> public[w] /\ ~(ban /\ w = v)
  BY <1>1, <1>2 DEF ClaimInv, Typed
<1>5. Overtaken(landing[v]) \in Landing \ {"fit"}
      /\ (Overtaken(landing[v]) = "late" => landing[v] \in {"fit", "late"})
      /\ Overtaken(landing[v]) # "spoilt"
  BY <1>3 DEF ClaimInv, Typed, Landing, Overtaken
<1>6. /\ landing' \in [Works -> Landing]
      /\ \A w \in Works : landing'[w] = IF ban /\ w = v THEN Overtaken(landing[v]) ELSE landing[w]
  BY <1>1, <1>2, <1>3, <1>5 DEF ClaimInv, Typed
<1>7. Typed' /\ Batches' /\ Ordered'
  BY <1>0, <1>1, <1>4, <1>6, DealtClaims
<1>8. Told'
  <2>1. i \notin processed
    BY <1>1 DEF Ignored
  <2>2. DOMAIN notices' = Ids /\ \A j \in Ids : notices'[j] = IF j = i THEN notices[j] + 1 ELSE notices[j]
    BY <1>1 DEF ClaimInv, Told
  <2>3. \A j \in Ids : j = i => notices[j] = 0
    BY <2>1 DEF ClaimInv, Told
  <2>4. \A j \in Ids : notices'[j] = 0 \/ (notices'[j] = 1 /\ j \in processed')
    <3> SUFFICES ASSUME NEW j \in Ids PROVE notices'[j] = 0 \/ (notices'[j] = 1 /\ j \in processed')
      OBVIOUS
    <3>1. CASE j = i
      BY <1>1, <2>2, <2>3, <3>1
    <3>2. CASE j # i
      BY <1>1, <2>2, <3>2 DEF ClaimInv, Told
    <3> QED BY <3>1, <3>2
  <2> QED BY <2>2, <2>4 DEF Told
<1>9. LatestState(v)' = "hidden" <=> ban
  BY <1>0, <1>3
<1>10. Landed'
  <2> SUFFICES ASSUME NEW w \in Works
               PROVE  /\ landing'[w] \in {"fit", "late"} => w \in DOMAIN public' /\ ~public'[w]
                      /\ landing'[w] = "fit" => ~Banned(w)'
    BY DEF Landed
  <2>1. /\ landing[w] \in {"fit", "late"} => w \in DOMAIN public /\ ~public[w]
        /\ landing[w] = "fit" => ~Banned(w)
    BY DEF ClaimInv, Landed
  <2>2. CASE w = v
    BY <1>4, <1>5, <1>6, <1>9, <2>1, <2>2 DEF Banned
  <2>3. CASE w # v
    <3>1. Banned(w)' <=> Banned(w)
      BY <1>3, <2>3 DEF Banned
    <3> QED BY <1>4, <1>6, <2>1, <2>3, <3>1
  <2> QED BY <2>2, <2>3
<1>11. BannedStaysDown'
  <2> SUFFICES ASSUME NEW w \in DOMAIN public, LatestState(w)' = "hidden", HasSubmitter(w)', landing'[w] # "spoilt"
               PROVE  ~public'[w]
    BY <1>4 DEF BannedStaysDown
  <2>1. w \in Works
    BY DEF ClaimInv, Typed
  <2>2. CASE w = v
    BY <1>4, <1>9, <2>2
  <2>3. CASE w # v
    <3>1. LatestState(w) = "hidden" /\ HasSubmitter(w) /\ landing[w] # "spoilt"
      BY <1>3, <1>6, <2>1, <2>3
    <3> QED BY <1>4, <3>1 DEF ClaimInv, BannedStaysDown
  <2> QED BY <2>2, <2>3
<1> QED BY <1>7, <1>8, <1>10, <1>11 DEF ClaimInv

\* Every step keeps the invariant.
LEMMA NextClaims == ClaimInv /\ [Next]_vars => ClaimInv'
<1> SUFFICES ASSUME ClaimInv, [Next]_vars PROVE ClaimInv'
  OBVIOUS
<1>1. ASSUME NEW w \in Works, Erase(w) \/ CreatePage(w) \/ MarkIndexed(w) \/ Indexed(w) PROVE ClaimInv'
  BY <1>1, PagesClaims
<1>2. ASSUME NEW w \in Works, NEW to \in {"pending", "live", "declined", "hidden"}, Transition(w, to)
      PROVE  ClaimInv'
  BY <1>2, TransitionClaims DEF States
<1>3. CASE Seed
  BY <1>3, SeedClaims
<1>4. ASSUME NEW s \in Syncs, Step(s) \/ Die(s) PROVE ClaimInv'
  BY <1>4, FetchClaims, SkipClaims, RecordClaims, ApplyClaims, IdleAgain DEF Step
<1>5. CASE UNCHANGED vars
  <2>1. \A w \in Works : LatestState(w)' = LatestState(w) /\ (HasSubmitter(w)' <=> HasSubmitter(w))
    BY <1>5, LatestKept DEF ClaimInv, vars
  <2>2. Typed' /\ Landed' /\ BannedStaysDown'
    BY <1>5, <2>1 DEF ClaimInv, Typed, Landed, Banned, BannedStaysDown, vars
  <2> QED BY <1>5, <2>2, PagesAlone DEF vars
<1> QED BY <1>1, <1>2, <1>3, <1>4, <1>5 DEF Next

\* However syncs overlap, die and move the watermark back, a submitter is told of
\* a decision once: the notice and the record of the event are one transaction,
\* and who finds the record leaves the event alone.
THEOREM ToldOnce == Spec => []NoticedOnce
<1>1. ClaimInv => NoticedOnce
  BY DEF ClaimInv, Told, NoticedOnce
<1> QED BY InitClaims, NextClaims, <1>1, PTL DEF Spec

\* A ban this site has recorded for a known submitter keeps the page down until
\* the next event, against resources that land at any moment after it.
THEOREM BansHold == Spec => []BannedStaysDown
<1>1. ClaimInv => BannedStaysDown
  BY DEF ClaimInv
<1> QED BY InitClaims, NextClaims, <1>1, PTL DEF Spec

\* The events of a work are recorded in their order, whatever the watermark did:
\* behind a recorded event none with an effect is missing.
Gapless ==
  \A i \in processed : \A h \in processed : h < i =>
    \A j \in h..i : log[j].work = log[i].work => j \in processed \/ Effect(log[j]) = "none"

\* No overlap and no death leaves a hole: what a sync passed by it had no page for,
\* and a later sync that has one for it does not exist.
THEOREM RecordedInOrder == Spec => []Gapless
<1>1. ASSUME ClaimInv PROVE Gapless
  <2> SUFFICES ASSUME NEW i \in processed, NEW h \in processed, h < i, NEW j \in h..i,
                      log[j].work = log[i].work
               PROVE  j \in processed \/ Effect(log[j]) = "none"
    BY DEF Gapless
  <2>1. PICK k \in Nat : OrderedFrom(k)
    BY <1>1 DEF ClaimInv, Ordered
  <2>2. h \in Nat /\ i \in Nat /\ h > k
    BY <1>1, <2>1 DEF ClaimInv, Typed, OrderedFrom
  <2>3. j = i \/ j \in (k + 1)..(i - 1)
    BY <2>2
  <2> QED BY <2>1, <2>3 DEF OrderedFrom
<1> QED BY InitClaims, NextClaims, <1>1, PTL DEF Spec
==============================================================================
