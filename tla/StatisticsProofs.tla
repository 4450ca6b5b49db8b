-------------------------- MODULE StatisticsProofs --------------------------
(***************************************************************************)
(* Proofs about the counting of shares, for any number of mining threads   *)
(* and any size of the ring of statistics, and about the displayed hash    *)
(* rates, for any ring of samples that spans the longest window.           *)
(***************************************************************************)
EXTENDS ShareAccounts, RateWindow,
        FiniteSetTheorems, SequenceTheorems, NaturalsInduction, WellFoundedInduction, TLAPS

Stages == {"scan", "queued", "store"}

CountTypes == /\ stage \in [Finders -> Stages]
              /\ found \in Nat /\ submitted \in Nat /\ accepted \in Nat /\ rejected \in Nat
              /\ IsFiniteSet(queued) /\ IsFiniteSet(onWire)

CountInv == CountTypes /\ AnswersCovered

(* The cardinalities AnswersCovered adds up are natural numbers. *)
LEMMA CountsAreNumbers ==
  ASSUME CountTypes
  PROVE  /\ Cardinality(queued) \in Nat /\ Cardinality(onWire) \in Nat
         /\ IsFiniteSet(Uncounted) /\ Cardinality(Uncounted) \in Nat
<1>1. Uncounted \in SUBSET Finders
  BY DEF Uncounted
<1>2. IsFiniteSet(Uncounted)
  BY <1>1, AccountAssumption, FS_Subset
<1> QED
  BY <1>2, FS_CardinalityType DEF CountTypes

(* A step that leaves stages, queue and wire alone changes no cardinality. *)
LEMMA SameStages ==
  ASSUME stage' = stage
  PROVE  Uncounted' = Uncounted
BY DEF Uncounted

(* update_submit_stats runs after the share is queued, so that its answer  *)
(* may be counted first; still there are never more answers than shares    *)
(* counted or about to be.                                                 *)
THEOREM NoAnswerUncovered == AccountSpec => []AnswersCovered
<1>1. AInit => CountInv
  <2> SUFFICES ASSUME AInit PROVE CountInv
    OBVIOUS
  <2>1. CountTypes /\ queued = {} /\ onWire = {}
    BY FS_EmptySet DEF AInit, CountTypes, Stages
  <2>2. Cardinality(queued) = 0 /\ Cardinality(onWire) = 0 /\ Cardinality(Uncounted) \in Nat
    BY <2>1, FS_EmptySet, CountsAreNumbers
  <2> QED
    BY <2>1, <2>2 DEF AInit, CountInv, AnswersCovered
<1>2. CountInv /\ [ANext]_avars => CountInv'
  <2> SUFFICES ASSUME CountInv, [ANext]_avars PROVE CountInv'
    OBVIOUS
  <2>t. /\ CountTypes /\ AnswersCovered
        /\ Cardinality(queued) \in Nat /\ Cardinality(onWire) \in Nat
        /\ IsFiniteSet(Uncounted) /\ Cardinality(Uncounted) \in Nat
    BY CountsAreNumbers DEF CountInv
  <2>1. ASSUME NEW m \in Finders, QueueShare(m) PROVE CountInv'
    <3>1. Uncounted' = Uncounted \cup {m} /\ m \notin Uncounted
      BY <2>1, <2>t DEF QueueShare, Uncounted, CountTypes
    <3>2. Cardinality(Uncounted') = Cardinality(Uncounted) + 1
      BY <3>1, <2>t, FS_AddElement
    <3>3. /\ queued' = queued \cup {found + 1} /\ onWire' = onWire
          /\ IsFiniteSet(queued')
          /\ Cardinality(queued') \in {Cardinality(queued), Cardinality(queued) + 1}
      <4>1. queued' = queued \cup {found + 1} /\ IsFiniteSet(queued)
        BY <2>1, <2>t DEF QueueShare, CountTypes
      <4>2. /\ IsFiniteSet(queued \cup {found + 1})
            /\ Cardinality(queued \cup {found + 1}) =
                  IF found + 1 \in queued THEN Cardinality(queued) ELSE Cardinality(queued) + 1
        BY <4>1, FS_AddElement
      <4> QED
        BY <2>1, <4>1, <4>2 DEF QueueShare
    <3>4. CountTypes'
      BY <2>1, <2>t, <3>3 DEF QueueShare, CountTypes, Stages
    <3>5. submitted' = submitted /\ accepted' = accepted /\ rejected' = rejected
      BY <2>1 DEF QueueShare
    <3>6. AnswersCovered'
      BY <2>t, <3>2, <3>3, <3>5 DEF AnswersCovered, CountTypes
    <3> QED
      BY <3>4, <3>6 DEF CountInv
  <2>2. ASSUME NEW m \in Finders, RefuseShare(m) PROVE CountInv'
    BY <2>2, <2>t, SameStages DEF RefuseShare, CountInv, CountTypes, AnswersCovered
  <2>3. ASSUME NEW m \in Finders, CountShare(m) PROVE CountInv'
    <3>1. Uncounted' = Uncounted \ {m} /\ m \in Uncounted
      BY <2>3, <2>t DEF CountShare, Uncounted, CountTypes
    <3>2. Cardinality(Uncounted') = Cardinality(Uncounted) - 1
      BY <3>1, <2>t, FS_RemoveElement
    <3>3. CountTypes'
      BY <2>3, <2>t DEF CountShare, CountTypes, Stages
    <3>4. AnswersCovered'
      BY <2>3, <2>t, <3>2 DEF CountShare, AnswersCovered, CountTypes
    <3> QED
      BY <3>3, <3>4 DEF CountInv
  <2>4. ASSUME NEW m \in Finders, StoreShare(m) PROVE CountInv'
    <3>1. Uncounted' = Uncounted
      BY <2>4, <2>t DEF StoreShare, Uncounted, CountTypes
    <3>2. CountTypes'
      BY <2>4, <2>t DEF StoreShare, CountTypes, Stages
    <3> QED
      BY <2>4, <2>t, <3>1, <3>2 DEF StoreShare, CountInv, AnswersCovered
  <2>5. ASSUME NEW s \in 1..MaxShares, SendShare(s) PROVE CountInv'
    <3>1. /\ IsFiniteSet(queued') /\ Cardinality(queued') = Cardinality(queued) - 1
      BY <2>5, <2>t, FS_RemoveElement DEF SendShare, CountTypes
    <3>2. /\ IsFiniteSet(onWire')
          /\ Cardinality(onWire') \in {Cardinality(onWire), Cardinality(onWire) + 1}
      <4>1. onWire' = onWire \cup {s} /\ IsFiniteSet(onWire)
        BY <2>5, <2>t DEF SendShare, CountTypes
      <4>2. /\ IsFiniteSet(onWire \cup {s})
            /\ Cardinality(onWire \cup {s}) =
                  IF s \in onWire THEN Cardinality(onWire) ELSE Cardinality(onWire) + 1
        BY <4>1, FS_AddElement
      <4> QED
        BY <4>1, <4>2
    <3>3. Uncounted' = Uncounted /\ CountTypes'
      BY <2>5, <2>t, <3>1, <3>2, SameStages DEF SendShare, CountTypes
    <3>4. AnswersCovered'
      BY <2>5, <2>t, <3>1, <3>2, <3>3 DEF SendShare, AnswersCovered, CountTypes
    <3> QED
      BY <3>3, <3>4 DEF CountInv
  <2>6. ASSUME NEW s \in 1..MaxShares, DropShare(s) PROVE CountInv'
    <3>1. IsFiniteSet(queued') /\ Cardinality(queued') = Cardinality(queued) - 1
      BY <2>6, <2>t, FS_RemoveElement DEF DropShare, CountTypes
    <3>2. Uncounted' = Uncounted /\ CountTypes'
      BY <2>6, <2>t, <3>1, SameStages DEF DropShare, CountTypes
    <3>3. AnswersCovered'
      BY <2>6, <2>t, <3>1, <3>2 DEF DropShare, AnswersCovered, CountTypes
    <3> QED
      BY <3>2, <3>3 DEF CountInv
  <2>7. ASSUME NEW s \in 1..MaxShares, NEW result \in BOOLEAN, ShareResult(s, result)
        PROVE  CountInv'
    <3>1. IsFiniteSet(onWire') /\ Cardinality(onWire') = Cardinality(onWire) - 1
      BY <2>7, <2>t, FS_RemoveElement DEF ShareResult, CountTypes
    <3>2. /\ accepted' + rejected' = accepted + rejected + 1
          /\ accepted' \in Nat /\ rejected' \in Nat
      BY <2>7, <2>t DEF ShareResult, CountTypes
    <3>3. Uncounted' = Uncounted /\ CountTypes'
      BY <2>7, <2>t, <3>1, <3>2, SameStages DEF ShareResult, CountTypes
    <3>4. AnswersCovered'
      BY <2>7, <2>t, <3>1, <3>2, <3>3 DEF ShareResult, AnswersCovered, CountTypes
    <3> QED
      BY <3>3, <3>4 DEF CountInv
  <2>8. CASE ResetRing
    <3>1. IsFiniteSet(onWire') /\ Cardinality(onWire') = 0
      BY <2>8, FS_EmptySet DEF ResetRing
    <3>2. Uncounted' = Uncounted /\ CountTypes'
      BY <2>8, <2>t, <3>1, SameStages DEF ResetRing, CountTypes
    <3>3. AnswersCovered'
      BY <2>8, <2>t, <3>1, <3>2 DEF ResetRing, AnswersCovered, CountTypes
    <3> QED
      BY <3>2, <3>3 DEF CountInv
  <2>9. CASE UNCHANGED avars
    BY <2>9, <2>t, SameStages DEF avars, CountInv, CountTypes, AnswersCovered
  <2> QED
    BY <2>1, <2>2, <2>3, <2>4, <2>5, <2>6, <2>7, <2>8, <2>9 DEF ANext
<1>3. CountInv => AnswersCovered
  BY DEF CountInv
<1> QED
  BY <1>1, <1>2, <1>3, PTL DEF AccountSpec

-----------------------------------------------------------------------------
Places == 0..(RingSize - 1)

RingTypes == /\ stage \in [Finders -> Stages]
             /\ ring \in [Places -> Nat \X Nat] /\ s_put_ptr \in Places
             /\ share \in [Finders -> Nat] /\ found \in Nat

(* stats_lock: at most one miner is storing an entry, and what it stored   *)
(* first is its own share.                                                 *)
OneStorer == \A a, b \in Finders : stage[a] = "store" /\ stage[b] = "store" => a = b
HalfIsOwn == \A m \in Finders : stage[m] = "store" => ring[s_put_ptr][1] = share[m]
Whole == \A p \in Places : ring[p][1] = ring[p][2] \/ (p = s_put_ptr /\ ~StatsFree)

RingInv == RingTypes /\ OneStorer /\ (~overlap => HalfIsOwn /\ Whole)

(* What the three parts depend on: a step that changes none of it keeps    *)
(* them.                                                                   *)
LEMMA OtherSteps ==
  ASSUME RingInv, UNCHANGED <<stage, share, ring, s_put_ptr, overlap>>, found' \in Nat
  PROVE  RingInv'
BY DEF RingInv, RingTypes, OneStorer, HalfIsOwn, Whole, StatsFree

(* The statistics of two shares are mixed in one entry only after the      *)
(* stratum thread has emptied the ring, without stats_lock, under a miner  *)
(* that was storing.                                                       *)
THEOREM EntriesStayWhole == AccountSpec => []EntriesWhole
<1>1. AInit => RingInv
  BY AccountAssumption DEF AInit, RingInv, RingTypes, OneStorer, HalfIsOwn, Whole, Stages, Places
<1>2. RingInv /\ [ANext]_avars => RingInv'
  <2> SUFFICES ASSUME RingInv, [ANext]_avars PROVE RingInv'
    OBVIOUS
  <2>t. RingTypes /\ OneStorer /\ RingSize \in Nat \ {0}
    BY AccountAssumption DEF RingInv
  <2>1. ASSUME NEW m \in Finders, QueueShare(m) PROVE RingInv'
    <3>1. RingTypes' /\ ring' = ring /\ s_put_ptr' = s_put_ptr /\ overlap' = overlap
      BY <2>1, <2>t DEF QueueShare, RingTypes, Stages
    <3>2. \A a \in Finders : /\ stage'[a] = "store" <=> stage[a] = "store"
                             /\ stage[a] = "store" => share'[a] = share[a]
      BY <2>1, <2>t DEF QueueShare, RingTypes
    <3>3. OneStorer' /\ (StatsFree' <=> StatsFree)
      BY <2>t, <3>2 DEF OneStorer, StatsFree
    <3>4. HalfIsOwn => HalfIsOwn'
      BY <3>1, <3>2 DEF HalfIsOwn
    <3>5. Whole => Whole'
      BY <3>1, <3>3 DEF Whole
    <3> QED
      BY <3>1, <3>3, <3>4, <3>5 DEF RingInv
  <2>2. ASSUME NEW m \in Finders, RefuseShare(m) PROVE RingInv'
    BY <2>2, <2>t, OtherSteps DEF RefuseShare, RingTypes
  <2>3. ASSUME NEW m \in Finders, CountShare(m) PROVE RingInv'
    <3>1. RingTypes' /\ s_put_ptr' = s_put_ptr /\ overlap' = overlap /\ share' = share
      BY <2>3, <2>t DEF CountShare, RingTypes, Stages
    <3>2. \A a \in Finders : stage'[a] = "store" <=> a = m
      BY <2>3, <2>t DEF CountShare, RingTypes, StatsFree
    <3>3. OneStorer' /\ ~StatsFree'
      BY <3>2 DEF OneStorer, StatsFree
    <3>4. HalfIsOwn'
      BY <2>3, <2>t, <3>1, <3>2 DEF CountShare, HalfIsOwn, RingTypes
    <3>5. Whole => Whole'
      BY <2>3, <2>t, <3>1, <3>3 DEF CountShare, Whole, RingTypes
    <3> QED
      BY <3>1, <3>3, <3>4, <3>5 DEF RingInv
  <2>4. ASSUME NEW m \in Finders, StoreShare(m) PROVE RingInv'
    <3>1. RingTypes' /\ overlap' = overlap
      BY <2>4, <2>t DEF StoreShare, RingTypes, Stages, Places, Incr
    <3>2. \A a \in Finders : stage'[a] # "store"
      BY <2>4, <2>t DEF StoreShare, RingTypes, OneStorer
    <3>3. OneStorer' /\ HalfIsOwn'
      BY <3>2 DEF OneStorer, HalfIsOwn
    <3>4. HalfIsOwn /\ Whole => Whole'
      <4> SUFFICES ASSUME HalfIsOwn, Whole, NEW p \in Places PROVE ring'[p][1] = ring'[p][2]
        BY DEF Whole
      <4>1. CASE p = s_put_ptr
        BY <4>1, <2>4, <2>t DEF StoreShare, HalfIsOwn, RingTypes
      <4>2. CASE p # s_put_ptr
        BY <4>2, <2>4, <2>t DEF StoreShare, Whole, RingTypes
      <4> QED
        BY <4>1, <4>2
    <3> QED
      BY <3>1, <3>3, <3>4 DEF RingInv
  <2>5. ASSUME NEW s \in 1..MaxShares, SendShare(s) \/ DropShare(s) PROVE RingInv'
    BY <2>5, <2>t, OtherSteps DEF SendShare, DropShare, RingTypes
  <2>6. ASSUME NEW s \in 1..MaxShares, NEW result \in BOOLEAN, ShareResult(s, result)
        PROVE  RingInv'
    BY <2>6, <2>t, OtherSteps DEF ShareResult, RingTypes
  <2>7. CASE ResetRing
    <3>1. /\ RingTypes' /\ stage' = stage /\ share' = share /\ ring' = ring
          /\ OneStorer' /\ (StatsFree' <=> StatsFree)
      BY <2>7, <2>t DEF ResetRing, RingTypes, OneStorer, StatsFree, Places
    <3>2. CASE s_get_ptr # s_put_ptr
      <4>1. overlap' <=> overlap \/ ~StatsFree
        BY <2>7, <3>2 DEF ResetRing
      <4>2. ASSUME StatsFree, Whole PROVE HalfIsOwn' /\ Whole'
        BY <3>1, <4>2 DEF HalfIsOwn, Whole, StatsFree
      <4> QED
        BY <3>1, <4>1, <4>2 DEF RingInv
    <3>3. CASE s_get_ptr = s_put_ptr
      <4>1. UNCHANGED <<stage, share, ring, s_put_ptr, overlap>> /\ found' \in Nat
        BY <2>7, <2>t, <3>3 DEF ResetRing, RingTypes
      <4> QED
        BY <4>1, OtherSteps
    <3> QED
      BY <3>2, <3>3
  <2>8. CASE UNCHANGED avars
    BY <2>8, <2>t, OtherSteps DEF avars, RingTypes
  <2> QED
    BY <2>1, <2>2, <2>3, <2>4, <2>5, <2>6, <2>7, <2>8 DEF ANext
<1>3. RingInv => EntriesWhole
  BY DEF RingInv, Whole, EntriesWhole, Places
<1> QED
  BY <1>1, <1>2, <1>3, PTL DEF AccountSpec
-----------------------------------------------------------------------------
(* The samples that the ring of the statistics thread has to hold. *)
Samplings == [at : Nat, hashes : Nat]

RateTypes == /\ taken \in Seq(Samplings) /\ Len(taken) >= 1 /\ hashes \in Nat
             /\ clock = taken[Len(taken)].at
             /\ samples \in [0..(Samples - 1) -> Samplings]
             /\ rate_sample_next \in 0..(Samples - 1)
             /\ rate_sample_count = IF Len(taken) < Samples THEN Len(taken) ELSE Samples

\* The ring ends with the latest samples, from the youngest to the oldest.
RingHolds == \A a \in 1..rate_sample_count : Aged(a) = taken[Len(taken) + 1 - a]

\* Two samples are at least the interval apart for each look between them.
Spaced == \A i, j \in 1..Len(taken) :
            i <= j => taken[j].at >= taken[i].at + (j - i) * Interval

RateInv == RateTypes /\ RingHolds /\ Spaced

(* The slot of a sample, without the remainder. *)
LEMMA SlotOfAge ==
  ASSUME NEW n \in 0..(Samples - 1), NEW a \in 1..Samples
  PROVE  (n + Samples - a) % Samples = IF a <= n THEN n - a ELSE n + Samples - a
<1>1. Samples \in Nat /\ Samples > 0
  BY RateAssumption
<1>2. CASE a <= n
  <2>1. n - a \in 0..(Samples - 1) /\ n + Samples - a = Samples * 1 + (n - a)
    BY <1>1, <1>2
  <2> QED
    BY <1>1, <1>2, <2>1
<1>3. CASE ~(a <= n)
  BY <1>1, <1>3
<1> QED
  BY <1>2, <1>3

(* The slot after the last one is the first. *)
LEMMA SlotAfter ==
  ASSUME NEW n \in 0..(Samples - 1)
  PROVE  (n + 1) % Samples = IF n + 1 = Samples THEN 0 ELSE n + 1
BY RateAssumption

(* The times of the samples, of which the last is the clock's. *)
LEMMA SampleTimes ==
  ASSUME RateInv
  PROVE  /\ Len(taken) \in Nat /\ Len(taken) >= 1 /\ Len(taken) \in 1..Len(taken)
         /\ \A i \in 1..Len(taken) : taken[i].at \in Nat
         /\ clock = taken[Len(taken)].at /\ clock \in Nat
<1>1. \A i \in 1..Len(taken) : taken[i] \in Samplings
  BY DEF RateInv, RateTypes
<1>2. \A i \in 1..Len(taken) : taken[i].at \in Nat
  BY <1>1 DEF Samplings
<1>3. Len(taken) \in Nat /\ Len(taken) >= 1 /\ Len(taken) \in 1..Len(taken)
  BY DEF RateInv, RateTypes
<1> QED
  BY <1>2, <1>3 DEF RateInv, RateTypes

(* Samples that are d looks apart are at least d intervals apart. *)
LEMMA Apart ==
  ASSUME RateInv, NEW i \in 1..Len(taken), NEW j \in 1..Len(taken), NEW d \in Nat, j = i + d
  PROVE  taken[j].at >= taken[i].at + d * Interval
<1>1. i <= j /\ j - i = d
  OBVIOUS
<1>2. taken[j].at >= taken[i].at + (j - i) * Interval
  BY <1>1 DEF RateInv, Spaced
<1> QED
  BY <1>1, <1>2

(* The scan of window_rate stops somewhere: at a sample that is too old,   *)
(* or with the ring.                                                       *)
LEMMA ReachEnds ==
  ASSUME RateInv, NEW now \in Nat, NEW w \in Windows
  PROVE  /\ Reach(now, w) \in 0..rate_sample_count
         /\ \A b \in 1..Reach(now, w) : Aged(b).at >= now - w
         /\ Reach(now, w) < rate_sample_count => Aged(Reach(now, w) + 1).at < now - w
<1> DEFINE T == {a \in 0..rate_sample_count : a < rate_sample_count => Aged(a + 1).at < now - w}
<1>1. rate_sample_count \in Nat /\ Len(taken) \in Nat
  BY RateAssumption DEF RateInv, RateTypes
<1>2. T \subseteq Nat /\ rate_sample_count \in T
  BY <1>1
<1>3. PICK a \in T : \A b \in T : ~(<<b, a>> \in OpToRel(<, Nat))
  BY <1>2, WFMin, NatLessThanWellFounded
<1>4. \A b \in T : ~(b < a)
  BY <1>2, <1>3 DEF OpToRel
<1> HIDE DEF T
<1>5. a \in 0..rate_sample_count
  BY DEF T
<1>6. \A b \in 1..a : Aged(b).at >= now - w
  <2> SUFFICES ASSUME NEW b \in 1..a PROVE Aged(b).at >= now - w
    OBVIOUS
  <2>1. b - 1 \in 0..rate_sample_count /\ b - 1 < a /\ b - 1 < rate_sample_count /\ (b - 1) + 1 = b
    BY <1>1, <1>5
  <2>2. ~(Aged(b).at < now - w)
    BY <1>4, <2>1 DEF T
  <2>3. Aged(b) = taken[Len(taken) + 1 - b] /\ Len(taken) + 1 - b \in 1..Len(taken)
    BY <1>1, <2>1, RateAssumption DEF RateInv, RateTypes, RingHolds
  <2>4. taken[Len(taken) + 1 - b] \in Samplings
    BY <2>3 DEF RateInv, RateTypes
  <2>5. Aged(b).at \in Nat /\ w \in Nat
    BY <2>3, <2>4, RateAssumption DEF Samplings
  <2> QED
    BY <2>2, <2>5
<1> QED
  BY <1>3, <1>5, <1>6 DEF T, Reach

(* What window_rate finds in the ring is what it would find in the whole   *)
(* history: the samples inside the window are the youngest ones, and those *)
(* the ring has dropped are older than every window.                       *)
LEMMA ScanIsExact ==
  ASSUME RateInv, NEW s \in Sleeps, NEW w \in Windows
  PROVE  LET now == clock + s
             a   == Reach(now, w)
         IN  /\ a \in 0..Len(taken)
             /\ a > 0 => Aged(a) = taken[Len(taken) + 1 - a]
             /\ \A i \in 1..Len(taken) : taken[i].at >= now - w <=> i >= Len(taken) + 1 - a
<1> DEFINE now == clock + s
           a == Reach(now, w)
           L == Len(taken)
<1>1. /\ L \in Nat /\ L >= 1 /\ Samples \in Nat /\ Samples > 0 /\ Interval \in Nat
      /\ rate_sample_count = IF L < Samples THEN L ELSE Samples
      /\ s \in Nat /\ s >= Interval /\ w \in Nat /\ w < (Samples + 1) * Interval
  BY RateAssumption DEF RateInv, RateTypes
<1>2. /\ \A i \in 1..L : taken[i].at \in Nat
      /\ clock = taken[L].at
  BY SampleTimes
<1>3. now \in Nat
  BY <1>1, <1>2
<1>4. /\ a \in 0..rate_sample_count
      /\ \A b \in 1..a : Aged(b).at >= now - w
      /\ a < rate_sample_count => Aged(a + 1).at < now - w
  BY <1>3, ReachEnds
<1>5. \A b \in 1..rate_sample_count : Aged(b) = taken[L + 1 - b]
  BY DEF RateInv, RingHolds
<1>6. \A i, j \in 1..L : i <= j => taken[i].at <= taken[j].at
  <2> SUFFICES ASSUME NEW i \in 1..L, NEW j \in 1..L, i <= j PROVE taken[i].at <= taken[j].at
    OBVIOUS
  <2>1. j - i \in Nat /\ j = i + (j - i) /\ (j - i) * Interval \in Nat
    BY <1>1
  <2>2. taken[j].at >= taken[i].at + (j - i) * Interval
    BY <2>1, Apart
  <2> QED
    BY <1>2, <2>1, <2>2
<1> HIDE DEF a, now
<1>7. a \in 0..L
  BY <1>1, <1>4
<1>8. ASSUME NEW i \in 1..L, i >= L + 1 - a PROVE taken[i].at >= now - w
  <2>1. L + 1 - i \in 1..a /\ L + 1 - i \in 1..rate_sample_count /\ L + 1 - (L + 1 - i) = i
    BY <1>1, <1>4, <1>7, <1>8
  <2> QED
    BY <1>4, <1>5, <2>1
<1>9. ASSUME NEW i \in 1..L, ~(i >= L + 1 - a) PROVE taken[i].at < now - w
  <2>1. i <= L - a /\ L - a \in 1..L
    BY <1>1, <1>7, <1>9
  <2>2. CASE a < rate_sample_count
    <3>1. a + 1 \in 1..rate_sample_count /\ L + 1 - (a + 1) = L - a
      BY <1>1, <1>4, <2>2
    <3>2. taken[L - a].at < now - w
      BY <1>4, <1>5, <2>2, <3>1
    <3> QED
      BY <1>1, <1>2, <1>3, <1>6, <2>1, <3>2
  <2>3. CASE a = rate_sample_count
    <3>1. a = Samples
      BY <1>1, <2>1, <2>3
    <3>2. taken[L].at >= taken[L - a].at + Samples * Interval
      BY <1>1, <2>1, <3>1, L = (L - a) + Samples, L \in 1..L, Apart
    <3>3. (Samples + 1) * Interval = Samples * Interval + Interval /\ Samples * Interval \in Nat
      BY <1>1
    <3>4. taken[L - a].at < now - w
      BY <1>1, <1>2, <2>1, <3>2, <3>3 DEF now
    <3> QED
      BY <1>1, <1>2, <1>3, <1>6, <2>1, <3>4
  <2> QED
    BY <1>1, <1>4, <2>2, <2>3
<1>10. \A i \in 1..L : taken[i].at >= now - w <=> i >= L + 1 - a
  <2> SUFFICES ASSUME NEW i \in 1..L PROVE taken[i].at >= now - w <=> i >= L + 1 - a
    OBVIOUS
  <2>1. taken[i].at \in Nat /\ now - w \in Int
    BY <1>1, <1>2, <1>3
  <2> QED
    BY <1>8, <1>9, <2>1
<1>11. a > 0 => Aged(a) = taken[L + 1 - a]
  BY <1>1, <1>4, <1>5
<1> QED
  BY <1>7, <1>10, <1>11 DEF a, now

(* A look keeps the ring: the new sample takes the place of the oldest. *)
LEMMA LookKeepsRing ==
  ASSUME RateInv, NEW s \in Sleeps, Look(s)
  PROVE  RateInv'
<1> DEFINE L == Len(taken)
           new == Sample(clock + s, hashes)
<1>1. /\ L \in Nat /\ L >= 1 /\ Samples \in Nat /\ Samples > 0 /\ Interval \in Nat
      /\ rate_sample_count = IF L < Samples THEN L ELSE Samples
      /\ rate_sample_next \in 0..(Samples - 1)
      /\ s \in Nat /\ s >= Interval
  BY RateAssumption DEF RateInv, RateTypes
<1>2. /\ \A i \in 1..L : taken[i].at \in Nat
      /\ clock = taken[L].at /\ clock \in Nat
  BY SampleTimes
<1>3. new \in Samplings /\ new.at = clock + s
  <2>1. clock + s \in Nat /\ hashes \in Nat
    BY <1>1, <1>2 DEF RateInv, RateTypes
  <2> QED
    BY <2>1 DEF Sample, Samplings
<1> HIDE DEF new
<1>4. /\ clock' = clock + s /\ hashes' = hashes
      /\ samples' = [samples EXCEPT ![rate_sample_next] = new]
      /\ rate_sample_next' = (rate_sample_next + 1) % Samples
      /\ rate_sample_count' = IF rate_sample_count < Samples
                              THEN rate_sample_count + 1 ELSE rate_sample_count
      /\ taken' = Append(taken, new)
  BY DEF Look, new
<1>5. /\ taken' \in Seq(Samplings) /\ Len(taken') = L + 1
      /\ taken'[L + 1] = new
      /\ \A i \in 1..L : taken'[i] = taken[i]
  BY <1>3, <1>4 DEF RateInv, RateTypes
<1>6. rate_sample_next' = IF rate_sample_next + 1 = Samples THEN 0 ELSE rate_sample_next + 1
  BY <1>1, <1>4, SlotAfter
<1>7. RateTypes'
  <2>1. samples' \in [0..(Samples - 1) -> Samplings]
    BY <1>3, <1>4 DEF RateInv, RateTypes
  <2>2. rate_sample_count' = IF L + 1 < Samples THEN L + 1 ELSE Samples
    BY <1>1, <1>4
  <2> QED
    BY <1>1, <1>3, <1>4, <1>5, <1>6, <2>1, <2>2 DEF RateInv, RateTypes
<1>8. Spaced'
  <2> SUFFICES ASSUME NEW i \in 1..(L + 1), NEW j \in 1..(L + 1), i <= j
               PROVE  taken'[j].at >= taken'[i].at + (j - i) * Interval
    BY <1>5 DEF Spaced
  <2>1. CASE j <= L
    <3>1. i \in 1..L /\ j \in 1..L
      BY <1>1, <2>1
    <3>2. taken[j].at >= taken[i].at + (j - i) * Interval
      BY <3>1 DEF RateInv, Spaced
    <3> QED
      BY <1>5, <3>1, <3>2
  <2>2. CASE j = L + 1 /\ i = L + 1
    BY <1>1, <1>2, <1>3, <1>5, <2>2
  <2>3. CASE j = L + 1 /\ i <= L
    <3>1. taken[L].at >= taken[i].at + (L - i) * Interval
      BY <1>1, <2>3, L - i \in Nat, L = i + (L - i), L \in 1..L, i \in 1..L, Apart
    <3>2. (j - i) * Interval = (L - i) * Interval + Interval /\ (L - i) * Interval \in Int
      BY <1>1, <2>3
    <3> QED
      BY <1>1, <1>2, <1>3, <1>5, <2>3, <3>1, <3>2
  <2> QED
    BY <1>1, <2>1, <2>2, <2>3
<1>9. RingHolds'
  <2> SUFFICES ASSUME NEW a \in 1..rate_sample_count'
               PROVE  samples'[(rate_sample_next' + Samples - a) % Samples] = taken'[L + 2 - a]
    BY <1>5 DEF RingHolds, Aged
  <2>1. a \in 1..Samples /\ rate_sample_next' \in 0..(Samples - 1)
    BY <1>1, <1>4, <1>6
  <2>2. (rate_sample_next' + Samples - a) % Samples
          = IF a <= rate_sample_next' THEN rate_sample_next' - a ELSE rate_sample_next' + Samples - a
    BY <2>1, SlotOfAge
  <2>3. CASE a = 1
    <3>1. (rate_sample_next' + Samples - a) % Samples = rate_sample_next
      BY <1>1, <1>6, <2>2, <2>3
    <3> QED
      BY <1>1, <1>4, <1>5, <2>3, <3>1 DEF RateInv, RateTypes
  <2>4. CASE a > 1
    <3>1. a - 1 \in 1..rate_sample_count /\ a - 1 \in 1..Samples
      BY <1>1, <1>4, <2>4
    <3>2. (rate_sample_next + Samples - (a - 1)) % Samples
            = IF a - 1 <= rate_sample_next THEN rate_sample_next - (a - 1)
              ELSE rate_sample_next + Samples - (a - 1)
      BY <1>1, <3>1, SlotOfAge
    <3> DEFINE old == (rate_sample_next + Samples - (a - 1)) % Samples
    <3>3. (rate_sample_next' + Samples - a) % Samples = old
      BY <1>1, <1>6, <2>1, <2>2, <3>1, <3>2
    <3>4. old \in 0..(Samples - 1) /\ old # rate_sample_next
      BY <1>1, <2>1, <3>1, <3>2
    <3>5. samples[old] = taken[L + 1 - (a - 1)]
      BY <3>1 DEF RateInv, RingHolds, Aged
    <3> HIDE DEF old
    <3>6. samples'[old] = samples[old]
      BY <1>4, <3>4 DEF RateInv, RateTypes
    <3>7. L + 1 - (a - 1) = L + 2 - a /\ L + 2 - a \in 1..L
      BY <1>1, <2>4, <3>1
    <3> QED
      BY <1>5, <3>3, <3>5, <3>6, <3>7
  <2> QED
    BY <2>1, <2>3, <2>4
<1> QED
  BY <1>7, <1>8, <1>9 DEF RateInv

(* A look shows, for every window, the average since the oldest of all     *)
(* samples ever taken that lies inside it.                                 *)
LEMMA LookIsExact ==
  ASSUME RateInv, NEW s \in Sleeps, Look(s)
  PROVE  RateExact'
<1> DEFINE L == Len(taken)
           now == clock + s
           new == Sample(now, hashes)
<1>1. L \in Nat /\ L >= 1 /\ s \in Nat /\ s > 0
  BY RateAssumption DEF RateInv, RateTypes
<1>2. /\ \A i \in 1..L : taken[i].at \in Nat /\ taken[i].at <= clock
      /\ clock \in Nat
  <2>1. ASSUME NEW i \in 1..L PROVE taken[i].at <= clock
    <3>1. L - i \in Nat /\ L = i + (L - i) /\ (L - i) * Interval \in Nat
      BY <1>1, RateAssumption
    <3>2. taken[L].at >= taken[i].at + (L - i) * Interval
      BY <3>1, Apart, SampleTimes
    <3> QED
      BY <3>1, <3>2, SampleTimes
  <2> QED
    BY <2>1, SampleTimes
<1>3. /\ taken' = Append(taken, new) /\ new.at = now /\ new.hashes = hashes
      /\ rates' = [w \in Windows |-> WindowRate(now, w)]
  BY DEF Look, Sample
<1>4. /\ Len(taken') = L + 1 /\ taken'[L + 1] = new
      /\ \A i \in 1..L : taken'[i] = taken[i]
  BY <1>3 DEF RateInv, RateTypes
<1> HIDE DEF new
<1> SUFFICES ASSUME NEW w \in Windows PROVE rates'[w] = Average(taken', w)
  BY DEF RateExact
<1> DEFINE a == Reach(now, w)
<1>5. /\ a \in 0..L
      /\ a > 0 => Aged(a) = taken[L + 1 - a]
      /\ \A i \in 1..L : taken[i].at >= now - w <=> i >= L + 1 - a
  BY ScanIsExact
<1> HIDE DEF a
<1>6. Inside(taken', w) = {i \in 1..L : i >= L + 1 - a}
  BY <1>1, <1>3, <1>4, <1>5 DEF Inside
<1>7. rates'[w] = IF a = 0 THEN <<0, 0>>
                  ELSE IF now > Aged(a).at THEN <<hashes - Aged(a).hashes, now - Aged(a).at>>
                  ELSE <<0, 0>>
  BY <1>3 DEF WindowRate, a
<1>8. CASE a = 0
  <2>1. Inside(taken', w) = {}
    BY <1>1, <1>6, <1>8
  <2> QED
    BY <1>7, <1>8, <2>1 DEF Average
<1>9. CASE a > 0
  <2>1. L + 1 - a \in 1..L
    BY <1>1, <1>5, <1>9
  <2>2. L + 1 - a \in Inside(taken', w) /\ \A k \in Inside(taken', w) : L + 1 - a <= k /\ k \in Int
    BY <1>6, <2>1
  <2>3. (CHOOSE i \in Inside(taken', w) : \A k \in Inside(taken', w) : i <= k) = L + 1 - a
    <3>1. PICK c : c = CHOOSE i \in Inside(taken', w) : \A k \in Inside(taken', w) : i <= k
      OBVIOUS
    <3>2. c \in Inside(taken', w) /\ \A k \in Inside(taken', w) : c <= k
      BY <2>2, <3>1
    <3>3. c <= L + 1 - a /\ L + 1 - a <= c /\ c \in Int
      BY <2>2, <3>2
    <3> QED
      BY <1>1, <2>1, <3>1, <3>3
  <2>4. now > Aged(a).at
    BY <1>1, <1>2, <1>5, <1>9, <2>1
  <2>5. taken'[L + 1 - a] = Aged(a)
    BY <1>4, <1>5, <1>9, <2>1
  <2>6. Inside(taken', w) # {} /\ a # 0
    BY <1>9, <2>2
  <2>7. rates'[w] = <<hashes - Aged(a).hashes, now - Aged(a).at>>
    BY <1>7, <2>4, <2>6
  <2> QED
    BY <1>3, <1>4, <2>3, <2>5, <2>6, <2>7 DEF Average
<1> QED
  BY <1>1, <1>5, <1>8, <1>9

(* Every displayed rate is the average over its window, for every length   *)
(* of the ring that spans the longest window, before and after it wraps.   *)
THEOREM RatesExact == RateSpec => []RateExact
<1>1. HInit => RateInv /\ RateExact
  <2> SUFFICES ASSUME HInit PROVE RateInv /\ RateExact
    OBVIOUS
  <2>1. Sample(0, 0) \in Samplings
    BY DEF Sample, Samplings
  <2>2. taken \in Seq(Samplings) /\ Len(taken) = 1 /\ taken[1] = Sample(0, 0)
    BY <2>1 DEF HInit
  <2>3. rate_sample_next \in 0..(Samples - 1)
    BY RateAssumption DEF HInit
  <2>4. RateTypes
    BY <2>1, <2>2, <2>3, RateAssumption DEF HInit, RateTypes, Sample
  <2>5. RingHolds
    <3>1. \A k \in 0..(Samples - 1) : samples[k] = Sample(0, 0)
      BY DEF HInit
    <3>2. ASSUME NEW b \in 1..1 PROVE (rate_sample_next + Samples - b) % Samples \in 0..(Samples - 1)
      BY <2>3, RateAssumption
    <3> QED
      BY <2>2, <3>1, <3>2 DEF HInit, RingHolds, Aged
  <2>6. Spaced
    BY <2>1, <2>2, RateAssumption DEF Spaced, Samplings
  <2>7. RateExact
    BY <2>2 DEF RateExact
  <2> QED
    BY <2>4, <2>5, <2>6, <2>7 DEF RateInv
<1>2. (RateInv /\ RateExact) /\ [HNext]_hvars => (RateInv /\ RateExact)'
  <2> SUFFICES ASSUME RateInv, RateExact, [HNext]_hvars PROVE (RateInv /\ RateExact)'
    OBVIOUS
  <2>1. ASSUME NEW s \in Sleeps, Look(s) PROVE (RateInv /\ RateExact)'
    BY <2>1, LookKeepsRing, LookIsExact
  <2>2. ASSUME NEW n \in Batches, AddHashes(n) PROVE (RateInv /\ RateExact)'
    <3>1. hashes' \in Nat /\ UNCHANGED <<clock, samples, rate_sample_next, rate_sample_count, taken>>
      BY <2>2, RateAssumption DEF AddHashes, RateInv, RateTypes
    <3>2. rates' = rates /\ taken' = taken
      BY <2>2 DEF AddHashes
    <3>3. RateInv'
      BY <3>1 DEF RateInv, RateTypes, RingHolds, Aged, Spaced
    <3>4. RateExact'
      BY <3>2 DEF RateExact
    <3> QED
      BY <3>3, <3>4
  <2>3. CASE UNCHANGED hvars
    <3>1. RateInv'
      BY <2>3 DEF hvars, RateInv, RateTypes, RingHolds, Aged, Spaced
    <3>2. rates' = rates /\ taken' = taken
      BY <2>3 DEF hvars
    <3>3. RateExact'
      BY <3>2 DEF RateExact
    <3> QED
      BY <3>1, <3>3
  <2> QED
    BY <2>1, <2>2, <2>3 DEF HNext
<1> QED
  BY <1>1, <1>2, PTL DEF RateSpec
=============================================================================
