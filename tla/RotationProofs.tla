---------------------------- MODULE RotationProofs ----------------------------
(***************************************************************************)
(* Proofs about the rotation tracker, for every set of identities, every   *)
(* set of observations and every choice of the bounds.                     *)
(***************************************************************************)
EXTENDS RotationClient, SumProofs

USE DEF NoReset

(* Appending under the cap: the result is a sequence of observations, no   *)
(* longer than the cap, that ends in the new one and continues the old     *)
(* history from some place on.                                             *)
LEMMA AppendCappedFacts ==
    ASSUME NEW hist \in Seq(CertObservations), NEW obs \in CertObservations,
           Len(hist) <= certHistoryMax
    PROVE  /\ AppendCapped(hist, obs) \in Seq(CertObservations)
           /\ Len(AppendCapped(hist, obs)) \in 1 .. certHistoryMax
           /\ AppendCapped(hist, obs)[Len(AppendCapped(hist, obs))] = obs
           /\ \E shift \in 0 .. 1 :
                /\ Len(AppendCapped(hist, obs)) = Len(hist) + 1 - shift
                /\ \A i \in 1 .. Len(AppendCapped(hist, obs)) - 1 :
                      AppendCapped(hist, obs)[i] = hist[i + shift]
<1> DEFINE longer == Append(hist, obs)
<1>1. /\ longer \in Seq(CertObservations)
      /\ Len(longer) = Len(hist) + 1
      /\ longer[Len(longer)] = obs
      /\ \A i \in 1 .. Len(hist) : longer[i] = hist[i]
  OBVIOUS
<1>2. certHistoryMax \in Nat \ {0}
  BY RotationBoundsAssumption
<1>3. CASE Len(longer) > certHistoryMax
  <2> DEFINE cut == SubSeq(longer, Len(longer) - certHistoryMax + 1, Len(longer))
  <2>1. Len(longer) = certHistoryMax + 1 /\ Len(hist) = certHistoryMax
    BY <1>1, <1>2, <1>3
  <2>2. AppendCapped(hist, obs) = cut
    BY <1>3 DEF AppendCapped
  <2>3. /\ cut \in Seq(CertObservations)
        /\ Len(cut) = certHistoryMax
        /\ \A i \in 1 .. certHistoryMax : cut[i] = longer[i + 1]
    BY <1>1, <1>2, <2>1
  <2> HIDE DEF longer, cut
  <2>4. cut[Len(cut)] = obs
    BY <1>1, <1>2, <2>1, <2>3
  <2>5. \A i \in 1 .. Len(cut) - 1 : cut[i] = hist[i + 1]
    BY <1>1, <1>2, <2>1, <2>3
  <2> QED
    BY <1>2, <2>1, <2>2, <2>3, <2>4, <2>5
<1>4. CASE ~(Len(longer) > certHistoryMax)
  <2>1. AppendCapped(hist, obs) = longer
    BY <1>4 DEF AppendCapped
  <2> HIDE DEF longer
  <2>2. \A i \in 1 .. Len(longer) - 1 : longer[i] = hist[i + 0]
    BY <1>1
  <2> QED
    BY <1>1, <1>2, <1>4, <2>1, <2>2
<1> QED
  BY <1>3, <1>4

-----------------------------------------------------------------------------
(* Times of the rate limiter: an identity has no history before its first  *)
(* window, and no recorded observation is later than the window's end.     *)
WindowBoundsHistory ==
    \A id \in SpiffeIds :
        /\ rateReset[id] = NoReset => history[id] = <<>>
        /\ \A i \in 1 .. Len(history[id]) : history[id][i].at <= rateReset[id]

LEMMA CountType ==
    ASSUME RotationTypeOK, NEW id \in SpiffeIds, NEW now \in Nat
    PROVE  /\ CountAt(id, now) \in 0 .. rotationRateMax + 1
           /\ ResetAt(id, now) \in Nat
           /\ ~RateLimited(id, now) => CountAt(id, now) =
                 (IF WindowOver(id, now) THEN 0 ELSE rateCount[id]) + 1
BY RotationBoundsAssumption
   DEF RotationTypeOK, CountAt, ResetAt, WindowOver, RateLimited

(* Track keeps the types and the chain, whoever calls it *)
LEMMA TrackKeepsChain ==
    ASSUME RotationTypeOK, HistoryIsChain,
           NEW id \in SpiffeIds, NEW obs \in CertObservations, Track(id, obs)
    PROVE  RotationTypeOK' /\ HistoryIsChain'
<1>1. obs.at \in Nat
  BY ObservationAssumption
<1>2. /\ rateCount' \in [SpiffeIds -> 0 .. rotationRateMax + 1]
      /\ rateReset' \in [SpiffeIds -> Nat \cup {NoReset}]
  BY <1>1, CountType DEF Track, RotationTypeOK
<1>3. history[id] \in Seq(CertObservations) /\ Len(history[id]) <= certHistoryMax
  BY DEF RotationTypeOK, HistoryIsChain
<1>4. \A o \in SpiffeIds \ {id} : history'[o] = history[o]
  BY DEF Track, RotationTypeOK
<1>5. CASE RateLimited(id, obs.at) \/ SameCert(id, obs)
  <2>1. history' = history
    BY <1>5 DEF Track, RotationTypeOK
  <2> QED
    BY <1>2, <2>1 DEF RotationTypeOK, HistoryIsChain
<1>6. CASE ~(RateLimited(id, obs.at) \/ SameCert(id, obs))
  <2> DEFINE old == history[id]
             new == AppendCapped(old, obs)
  <2>1. history' = [history EXCEPT ![id] = new]
    BY <1>6 DEF Track
  <2>2. /\ new \in Seq(CertObservations)
        /\ Len(new) \in 1 .. certHistoryMax
        /\ new[Len(new)] = obs
    BY <1>3, AppendCappedFacts
  <2>3. PICK shift \in 0 .. 1 :
          /\ Len(new) = Len(old) + 1 - shift
          /\ \A i \in 1 .. Len(new) - 1 : new[i] = old[i + shift]
    BY <1>3, AppendCappedFacts
  <2>4. old = <<>> \/ obs.serial # old[Len(old)].serial
    BY <1>6 DEF SameCert, LastOf
  <2>5. \A i \in 2 .. Len(old) : old[i].serial # old[i - 1].serial
    BY DEF HistoryIsChain
  <2>6. history'[id] = new
    BY <2>1 DEF RotationTypeOK
  <2>7. history' \in [SpiffeIds -> Seq(CertObservations)]
    BY <2>1, <2>2 DEF RotationTypeOK
  <2> HIDE DEF new
  <2>8. \A i \in 2 .. Len(new) : new[i].serial # new[i - 1].serial
    <3> SUFFICES ASSUME NEW i \in 2 .. Len(new)
                 PROVE  new[i].serial # new[i - 1].serial
      OBVIOUS
    <3>1. new[i - 1] = old[i - 1 + shift] /\ i - 1 + shift \in 1 .. Len(old)
      BY <1>3, <2>2, <2>3
    <3>2. CASE i = Len(new)
      <4>1. i - 1 + shift = Len(old)
        BY <1>3, <2>3, <3>2
      <4>2. new[i - 1] = old[Len(old)] /\ old # <<>>
        BY <3>1, <4>1, <1>3
      <4> QED
        BY <2>2, <2>4, <3>2, <4>2
    <3>3. CASE i # Len(new)
      <4>1. new[i] = old[i + shift] /\ i + shift \in 2 .. Len(old)
        BY <1>3, <2>2, <2>3, <3>3
      <4>2. (i + shift) - 1 = i - 1 + shift
        BY <2>3
      <4> QED
        BY <2>5, <3>1, <4>1, <4>2
    <3> QED
      BY <3>2, <3>3
  <2>9. HistoryIsChain'
    BY <1>4, <2>2, <2>6, <2>8 DEF HistoryIsChain
  <2> QED
    BY <1>2, <2>7, <2>9 DEF RotationTypeOK
<1> QED
  BY <1>5, <1>6
-----------------------------------------------------------------------------
(* Sets of places in a sequence, shifted by the cap *)
LEMMA ShiftedPlaces ==
    ASSUME NEW R, IsFiniteSet(R), R \subseteq Nat, NEW shift \in Nat,
           NEW last, NEW Q, Q \subseteq Nat,
           \A i \in Q : i = last \/ i + shift \in R
    PROVE  IsFiniteSet(Q) /\ Cardinality(Q) <= Cardinality(R) + 1
<1> DEFINE S == Q \ {last}
           f == [i \in S |-> i + shift]
<1>1. f \in Injection(S, R)
  <2>1. \A i \in S : i \in Nat /\ i + shift \in R
    OBVIOUS
  <2>2. f \in [S -> R]
    BY <2>1
  <2>3. \A a, b \in S : f[a] = f[b] => a = b
    BY <2>1
  <2>4. DOMAIN f = S
    OBVIOUS
  <2> HIDE DEF f, S
  <2> QED
    BY <2>2, <2>3, <2>4 DEF Injection, IsInjective
<1>2. IsFiniteSet(S) /\ Cardinality(S) <= Cardinality(R)
  BY <1>1, FS_Injection
<1>3. /\ IsFiniteSet(S \cup {last})
      /\ Cardinality(S \cup {last}) <= Cardinality(S) + 1
  <2> HIDE DEF S
  <2>1. Cardinality(S) \in Nat
    BY <1>2, FS_CardinalityType
  <2>2. /\ IsFiniteSet(S \cup {last})
        /\ Cardinality(S \cup {last}) = IF last \in S THEN Cardinality(S) ELSE Cardinality(S) + 1
    BY <1>2, FS_AddElement
  <2> QED
    BY <2>1, <2>2
<1>4. Q \in SUBSET (S \cup {last})
  OBVIOUS
<1>5. IsFiniteSet(Q) /\ Cardinality(Q) <= Cardinality(S \cup {last})
  BY <1>3, <1>4, FS_Subset
<1>6. /\ Cardinality(Q) \in Nat /\ Cardinality(S) \in Nat /\ Cardinality(R) \in Nat
      /\ Cardinality(S \cup {last}) \in Nat
  BY <1>2, <1>3, <1>5, FS_CardinalityType
<1> QED
  BY <1>2, <1>3, <1>5, <1>6

LEMMA RecordedFinite ==
    ASSUME RotationTypeOK, NEW id \in SpiffeIds
    PROVE  /\ IsFiniteSet(RecordedInWindow(id))
           /\ Cardinality(RecordedInWindow(id)) \in Nat
           /\ RecordedInWindow(id) \subseteq Nat
<1>1. Len(history[id]) \in Nat
  BY DEF RotationTypeOK
<1>2. IsFiniteSet(1 .. Len(history[id]))
  BY <1>1, FS_Interval
<1>3. RecordedInWindow(id) \in SUBSET (1 .. Len(history[id]))
  BY DEF RecordedInWindow
<1> QED
  BY <1>1, <1>2, <1>3, FS_Subset, FS_CardinalityType

(* Track keeps the budget of the rate window.  A new window starts after   *)
(* every time on record, so it starts with nothing recorded in it; within  *)
(* a window the count grows with every call and the record at most so.     *)
LEMMA TrackKeepsBudget ==
    ASSUME RotationTypeOK, HistoryIsChain, WindowBoundsHistory, RateWindowBudget,
           NEW id \in SpiffeIds, NEW obs \in CertObservations, Track(id, obs)
    PROVE  WindowBoundsHistory' /\ RateWindowBudget'
<1> DEFINE old == history[id]
           over == WindowOver(id, obs.at)
<1>1. /\ obs.at \in Nat
      /\ \A i \in 1 .. Len(old) : old[i].at \in Nat
  BY ObservationAssumption DEF RotationTypeOK
<1>2. RotationTypeOK' /\ HistoryIsChain'
  BY TrackKeepsChain
<1>3. /\ old \in Seq(CertObservations) /\ Len(old) \in Nat /\ Len(old) <= certHistoryMax
      /\ rateReset[id] \in Nat \cup {NoReset}
      /\ rateCount[id] \in 0 .. rotationRateMax + 1
      /\ rotationRateWindow \in Nat /\ rotationRateMax \in Nat
  BY RotationBoundsAssumption DEF RotationTypeOK, HistoryIsChain
<1>4. /\ \A o \in SpiffeIds \ {id} : /\ history'[o] = history[o]
                                     /\ rateReset'[o] = rateReset[o]
                                     /\ rateCount'[o] = rateCount[o]
      /\ rateReset'[id] = ResetAt(id, obs.at)
      /\ rateCount'[id] = CountAt(id, obs.at)
  BY DEF Track, RotationTypeOK
<1>5. /\ rateReset'[id] \in Nat
      /\ rateCount'[id] \in Nat
      /\ over => rateReset'[id] = obs.at + rotationRateWindow
      /\ ~over => rateReset'[id] = rateReset[id]
      /\ ~over => rateCount'[id] >= rateCount[id]
      /\ ~RateLimited(id, obs.at) =>
            /\ rateCount'[id] = (IF over THEN 0 ELSE rateCount[id]) + 1
            /\ rateCount'[id] <= rotationRateMax
  BY <1>1, <1>3, <1>4, CountType DEF ResetAt, RateLimited, CountAt
<1>6. \A i \in 1 .. Len(old) : old[i].at <= rateReset[id]
  BY DEF WindowBoundsHistory
<1>7. over => \A i \in 1 .. Len(old) : old[i].at < obs.at
  BY <1>1, <1>3, <1>6 DEF WindowOver, WindowBoundsHistory
<1>8. ~over => obs.at <= rateReset[id]
  BY <1>1, <1>3 DEF WindowOver
<1>9. /\ Cardinality(RecordedInWindow(id)) <= rateCount[id]
      /\ Cardinality(RecordedInWindow(id)) <= rotationRateMax
      /\ IsFiniteSet(RecordedInWindow(id))
      /\ Cardinality(RecordedInWindow(id)) \in Nat
      /\ RecordedInWindow(id) \subseteq Nat
  BY RecordedFinite DEF RateWindowBudget
<1> DEFINE threshold == rateReset'[id] - rotationRateWindow
           Recorded(h) == {i \in 1 .. Len(h) : h[i].at >= threshold}
<1>10. RecordedInWindow(id)' = Recorded(history'[id])
  BY DEF RecordedInWindow
<1>11. over => threshold = obs.at
  BY <1>1, <1>3, <1>5
<1>12. ~over => Recorded(old) = RecordedInWindow(id)
  BY <1>5 DEF RecordedInWindow
<1>13. over => Recorded(old) = {}
  <2> SUFFICES ASSUME over, NEW i \in 1 .. Len(old), old[i].at >= threshold PROVE FALSE
    OBVIOUS
  <2>1. old[i].at < obs.at /\ old[i].at \in Nat
    BY <1>1, <1>7
  <2> QED
    BY <1>1, <1>11, <2>1
<1>14. CASE RateLimited(id, obs.at) \/ SameCert(id, obs)
  <2>1. history'[id] = old
    BY <1>14 DEF Track, RotationTypeOK
  <2>2. \A i \in 1 .. Len(old) : old[i].at <= rateReset'[id]
    <3> SUFFICES ASSUME NEW i \in 1 .. Len(old) PROVE old[i].at <= rateReset'[id]
      OBVIOUS
    <3>1. old[i].at \in Nat
      BY <1>1
    <3>2. CASE over
      <4>1. old[i].at < obs.at
        BY <3>2, <1>7
      <4>2. rateReset'[id] = obs.at + rotationRateWindow
        BY <3>2, <1>5
      <4> QED
        BY <3>1, <4>1, <4>2, <1>1, <1>3
    <3>3. CASE ~over
      BY <3>3, <1>5, <1>6
    <3> QED
      BY <3>2, <3>3
  <2>3. /\ Cardinality(RecordedInWindow(id)') <= rateCount'[id]
        /\ Cardinality(RecordedInWindow(id)') <= rotationRateMax
    <3> HIDE DEF threshold, Recorded
    <3>1. CASE over
      <4>1. Cardinality(RecordedInWindow(id)') = 0
        BY <3>1, <1>10, <1>13, <2>1, FS_EmptySet
      <4> QED
        BY <4>1, <1>3, <1>5
    <3>2. CASE ~over
      <4>1. RecordedInWindow(id)' = RecordedInWindow(id)
        BY <3>2, <1>10, <1>12, <2>1
      <4> QED
        BY <3>2, <4>1, <1>3, <1>5, <1>9
    <3> QED
      BY <3>1, <3>2
  <2>4. WindowBoundsHistory'
    BY <1>4, <1>5, <2>1, <2>2 DEF WindowBoundsHistory
  <2>5. RateWindowBudget'
    BY <1>4, <2>3 DEF RateWindowBudget, RecordedInWindow
  <2> QED
    BY <2>4, <2>5
<1>15. CASE ~(RateLimited(id, obs.at) \/ SameCert(id, obs))
  <2> DEFINE new == AppendCapped(old, obs)
  <2>1. history'[id] = new
    BY <1>15 DEF Track, RotationTypeOK
  <2>2. new \in Seq(CertObservations) /\ Len(new) \in Nat \ {0} /\ new[Len(new)] = obs
    <3>1. /\ new \in Seq(CertObservations)
          /\ Len(new) \in 1 .. certHistoryMax
          /\ new[Len(new)] = obs
      BY <1>3, AppendCappedFacts
    <3> HIDE DEF new
    <3> QED
      BY <3>1, RotationBoundsAssumption
  <2>3. PICK shift \in 0 .. 1 :
          /\ Len(new) = Len(old) + 1 - shift
          /\ \A i \in 1 .. Len(new) - 1 : new[i] = old[i + shift]
    BY <1>3, AppendCappedFacts
  <2> HIDE DEF new
  <2>4. \A i \in 1 .. Len(new) : i # Len(new) => /\ i + shift \in 1 .. Len(old)
                                               /\ new[i] = old[i + shift]
    BY <1>3, <2>2, <2>3
  <2>5. \A i \in 1 .. Len(new) : new[i].at <= rateReset'[id]
    <3> SUFFICES ASSUME NEW i \in 1 .. Len(new) PROVE new[i].at <= rateReset'[id]
      OBVIOUS
    <3>1. CASE i = Len(new)
      BY <3>1, <1>1, <1>3, <1>5, <1>8, <2>2
    <3>2. CASE i # Len(new)
      <4>1. i + shift \in 1 .. Len(old) /\ new[i] = old[i + shift]
        BY <2>4, <3>2
      <4>2. CASE over
        BY <4>1, <4>2, <1>1, <1>3, <1>5, <1>7
      <4>3. CASE ~over
        BY <4>1, <4>3, <1>5, <1>6
      <4> QED
        BY <4>2, <4>3
    <3> QED
      BY <3>1, <3>2
  <2>6. \A i \in Recorded(new) : i = Len(new) \/ i + shift \in Recorded(old)
    BY <2>4
  <2>7. Recorded(new) \subseteq Nat /\ shift \in Nat
    BY <2>2, <2>3
  <2>8. /\ IsFiniteSet(Recorded(old)) /\ Recorded(old) \subseteq Nat
        /\ Cardinality(Recorded(old)) \in Nat
        /\ Cardinality(Recorded(old)) + 1 <= rateCount'[id]
    <3> HIDE DEF Recorded, threshold
    <3>1. CASE over
      BY <3>1, <1>5, <1>13, <1>15, FS_EmptySet
    <3>2. CASE ~over
      BY <3>2, <1>3, <1>5, <1>9, <1>12, <1>15
    <3> QED
      BY <3>1, <3>2
  <2> HIDE DEF Recorded, threshold
  <2>9. /\ IsFiniteSet(Recorded(new))
        /\ Cardinality(Recorded(new)) <= Cardinality(Recorded(old)) + 1
    BY <2>6, <2>7, <2>8, ShiftedPlaces
  <2>10. Cardinality(Recorded(new)) \in Nat
    BY <2>9, FS_CardinalityType
  <2>11. /\ Cardinality(RecordedInWindow(id)') <= rateCount'[id]
         /\ Cardinality(RecordedInWindow(id)') <= rotationRateMax
    BY <1>3, <1>5, <1>10, <1>15, <2>1, <2>8, <2>9, <2>10
  <2>12. WindowBoundsHistory'
    BY <1>4, <1>5, <2>1, <2>5 DEF WindowBoundsHistory
  <2>13. RateWindowBudget'
    BY <1>4, <2>11 DEF RateWindowBudget, RecordedInWindow
  <2> QED
    BY <2>12, <2>13
<1> QED
  BY <1>14, <1>15

-----------------------------------------------------------------------------
(* The specification *)

LEMMA ClassType ==
    ASSUME NEW id, NEW obs
    PROVE  TrackClass(id, obs) \in RotationClasses
BY DEF TrackClass, Classify, RotationClasses

(* What a caller that was told of a rotation can rely on: the certificate  *)
(* it reported is the newest on record, until somebody else reports.       *)
ReportIsNewest ==
    (returned # NoCall /\ returned.class # "first_seen") =>
        /\ history[returned.id] # <<>>
        /\ LastOf(history[returned.id]).serial = returned.serial

(* The inductive invariant *)
TrackerInv ==
    /\ TypeOK
    /\ HistoryIsChain
    /\ WindowBoundsHistory
    /\ RateWindowBudget
    /\ ReportIsNewest

LEMMA TrackerInit == Init => TrackerInv
<1> SUFFICES ASSUME Init PROVE TrackerInv
  OBVIOUS
<1> USE DEF Init, RotationInit
<1>1. TypeOK
  BY RotationBoundsAssumption DEF TypeOK, RotationTypeOK
<1>2. HistoryIsChain /\ WindowBoundsHistory
  BY RotationBoundsAssumption DEF HistoryIsChain, WindowBoundsHistory
<1>3. \A id \in SpiffeIds : RecordedInWindow(id) = {}
  BY DEF RecordedInWindow
<1>4. RateWindowBudget
  <2>1. \A id \in SpiffeIds : Cardinality(RecordedInWindow(id)) = 0 /\ rateCount[id] = 0
    BY <1>3, FS_EmptySet
  <2>2. rotationRateMax \in Nat
    BY RotationBoundsAssumption
  <2> QED
    BY <2>1, <2>2 DEF RateWindowBudget
<1>5. ReportIsNewest
  BY DEF ReportIsNewest
<1> QED
  BY <1>1, <1>2, <1>4, <1>5 DEF TrackerInv

(* A call that reports a rotation appends the certificate to a history     *)
(* that ends in another one.                                               *)
LEMMA ReportAppends ==
    ASSUME RotationTypeOK, HistoryIsChain,
           NEW id \in SpiffeIds, NEW obs \in CertObservations, Track(id, obs),
           history'[id] # history[id] \/ TrackClass(id, obs) # "first_seen"
    PROVE  /\ ~RateLimited(id, obs.at) /\ ~SameCert(id, obs)
           /\ history'[id] # <<>>
           /\ LastOf(history'[id]) = obs
<1>1. ~RateLimited(id, obs.at) /\ ~SameCert(id, obs)
  BY DEF Track, TrackClass, RotationTypeOK
<1>2. history'[id] = AppendCapped(history[id], obs)
  BY <1>1 DEF Track, RotationTypeOK
<1>3. history[id] \in Seq(CertObservations) /\ Len(history[id]) <= certHistoryMax
  BY DEF RotationTypeOK, HistoryIsChain
<1>4. /\ AppendCapped(history[id], obs) \in Seq(CertObservations)
      /\ Len(AppendCapped(history[id], obs)) \in 1 .. certHistoryMax
      /\ AppendCapped(history[id], obs)[Len(AppendCapped(history[id], obs))] = obs
  BY <1>3, AppendCappedFacts
<1>5. history'[id] \in Seq(CertObservations) /\ Len(history'[id]) >= 1
  BY <1>2, <1>4, RotationBoundsAssumption
<1> QED
  BY <1>1, <1>2, <1>4, <1>5 DEF LastOf

LEMMA TrackerStep == TrackerInv /\ [Next]_clientVars => TrackerInv'
<1> SUFFICES ASSUME TrackerInv, [Next]_clientVars PROVE TrackerInv'
  OBVIOUS
<1>1. CASE Next
  <2>1. PICK id \in SpiffeIds, obs \in CertObservations : Call(id, obs)
    BY <1>1 DEF Next
  <2>2. /\ Track(id, obs)
        /\ returned' = [id |-> id, serial |-> obs.serial, class |-> TrackClass(id, obs)]
    BY <2>1 DEF Call
  <2>3. RotationTypeOK /\ HistoryIsChain /\ WindowBoundsHistory /\ RateWindowBudget
    BY DEF TrackerInv, TypeOK
  <2>4. RotationTypeOK' /\ HistoryIsChain'
    BY <2>2, <2>3, TrackKeepsChain
  <2>5. WindowBoundsHistory' /\ RateWindowBudget'
    BY <2>2, <2>3, TrackKeepsBudget
  <2>6. TypeOK'
    <3>1. TrackClass(id, obs) \in RotationClasses
      BY ClassType
    <3>2. returned' \in [id : SpiffeIds, serial : {o.serial : o \in CertObservations},
                         class : RotationClasses]
      BY <2>2, <3>1
    <3> QED
      BY <2>4, <3>2 DEF TypeOK
  <2>7. ReportIsNewest'
    BY <2>2, <2>3, ReportAppends DEF ReportIsNewest
  <2> QED
    BY <2>4, <2>5, <2>6, <2>7 DEF TrackerInv
<1>2. CASE UNCHANGED clientVars
  BY <1>2 DEF clientVars, TrackerInv, TypeOK, RotationTypeOK, HistoryIsChain,
              WindowBoundsHistory, RateWindowBudget, RecordedInWindow, ReportIsNewest
<1> QED
  BY <1>1, <1>2

(* The inductive invariant holds of every behaviour of the tracker. *)
THEOREM TrackerInvariant == Spec => []TrackerInv
<1>1. Init => TrackerInv
  BY TrackerInit
<1>2. TrackerInv /\ [Next]_clientVars => TrackerInv'
  BY TrackerStep
<1> QED
  BY <1>1, <1>2, PTL DEF Spec

(* Type correctness of the tracker under any callers (rotation.go:46-124). *)
THEOREM TypeCorrect == Spec => []TypeOK
<1>1. TrackerInv => TypeOK
  BY DEF TrackerInv
<1> QED
  BY <1>1, TrackerInvariant, PTL

(* A history never exceeds certHistoryMax and never lists one certificate  *)
(* twice in a row, for every cap and every order of calls                  *)
(* (rotation.go:82-121).                                                   *)
THEOREM ChainCorrect == Spec => []HistoryIsChain
<1>1. TrackerInv => HistoryIsChain
  BY DEF TrackerInv
<1> QED
  BY <1>1, TrackerInvariant, PTL

(* RT-006 for every rate and window length: however the timestamps are     *)
(* ordered, no more than rotationRateMax observations are recorded in a    *)
(* rate window (rotation.go:68-80).                                        *)
THEOREM BudgetCorrect == Spec => []RateWindowBudget
<1>1. TrackerInv => RateWindowBudget
  BY DEF TrackerInv
<1> QED
  BY <1>1, TrackerInvariant, PTL

(* No certificate is reported as a rotation by two calls in a row          *)
(* (rotation.go:86-89): the report made it the newest on record.           *)
THEOREM ReportedOnceCorrect == Spec => ReportedOnce
<1> DEFINE same == /\ returned # NoCall
                   /\ returned.class # "first_seen"
                   /\ returned'.id = returned.id
                   /\ returned'.serial = returned.serial
<1>1. TrackerInv /\ [Next]_clientVars => [same => returned'.class = "first_seen"]_clientVars
  <2> SUFFICES ASSUME TrackerInv, Next, same PROVE returned'.class = "first_seen"
    OBVIOUS
  <2>1. PICK id \in SpiffeIds, obs \in CertObservations : Call(id, obs)
    BY DEF Next
  <2>2. returned' = [id |-> id, serial |-> obs.serial, class |-> TrackClass(id, obs)]
    BY <2>1 DEF Call
  <2>3. history[id] # <<>> /\ LastOf(history[id]).serial = obs.serial
    BY <2>2 DEF TrackerInv, ReportIsNewest
  <2>4. TrackClass(id, obs) = "first_seen"
    BY <2>3 DEF TrackClass, SameCert
  <2> QED
    BY <2>2, <2>4
<1> QED
  BY <1>1, TrackerInvariant, PTL DEF Spec, ReportedOnce

(* A change of issuer or trust domain is never recorded without being      *)
(* reported as such (rotation.go:95-109).                                  *)
THEOREM IssuerChangeCorrect == Spec => IssuerChangeIsReported
<1> DEFINE reported(id) ==
        (history[id] # <<>> /\ history'[id] # history[id]) =>
            LET old == LastOf(history[id])
                new == LastOf(history'[id])
            IN  /\ old.domain # new.domain => returned'.class = "domain"
                /\ (old.domain = new.domain /\ old.issuer # new.issuer)
                      => returned'.class = "issuer"
<1>1. TrackerInv /\ [Next]_clientVars => [\A id \in SpiffeIds : reported(id)]_clientVars
  <2> SUFFICES ASSUME TrackerInv, Next, NEW id \in SpiffeIds,
                      history[id] # <<>>, history'[id] # history[id]
               PROVE  reported(id)
    OBVIOUS
  <2>1. PICK o \in SpiffeIds, obs \in CertObservations : Call(o, obs)
    BY DEF Next
  <2>2. RotationTypeOK /\ HistoryIsChain /\ Track(o, obs)
    BY <2>1 DEF TrackerInv, TypeOK, Call
  <2>3. o = id
    BY <2>2 DEF Track, RotationTypeOK
  <2>4. ~RateLimited(id, obs.at) /\ ~SameCert(id, obs) /\ LastOf(history'[id]) = obs
    BY <2>2, <2>3, ReportAppends
  <2>5. returned'.class = Classify(obs, LastOf(history[id]), history[id])
    BY <2>1, <2>3, <2>4 DEF Call, TrackClass
  <2> QED
    BY <2>4, <2>5 DEF Classify
<1> QED
  BY <1>1, TrackerInvariant, PTL DEF Spec, IssuerChangeIsReported

-----------------------------------------------------------------------------
(* The learned interval                                                    *)

(* GapSum adds up the positive gaps of a history one after the other       *)
LEMMA GapSumFacts ==
    ASSUME NEW hist \in Seq(CertObservations), NEW g,
           g = [i \in PositiveGaps(hist) |-> Gap(hist, i)]
    PROVE  /\ IsFiniteSet(PositiveGaps(hist))
           /\ g \in [PositiveGaps(hist) -> Nat]
           /\ \E it : Sums(it, g, PositiveGaps(hist)) /\ GapSum(hist) = it[PositiveGaps(hist)]
<1>1. PICK S : S = PositiveGaps(hist)
  OBVIOUS
<1>2. Len(hist) \in Nat /\ S \subseteq 2 .. Len(hist)
  BY <1>1 DEF PositiveGaps
<1>3. IsFiniteSet(S)
  <2>1. IsFiniteSet(2 .. Len(hist))
    BY <1>2, FS_Interval
  <2> QED
    BY <1>2, <2>1, FS_Subset
<1>4. g \in [S -> Nat]
  <2>1. \A i \in 1 .. Len(hist) : hist[i].at \in Nat
    BY ObservationAssumption
  <2>2. ASSUME NEW i \in S PROVE Gap(hist, i) \in Nat
    <3>1. i \in 2 .. Len(hist) /\ Gap(hist, i) > 0
      BY <1>1 DEF PositiveGaps
    <3>2. i \in 1 .. Len(hist) /\ i - 1 \in 1 .. Len(hist)
      BY <1>2, <3>1
    <3>3. hist[i].at \in Nat /\ hist[i - 1].at \in Nat
      BY <2>1, <3>2
    <3> QED
      BY <3>1, <3>3 DEF Gap
  <2> QED
    BY <1>1, <2>2
<1> DEFINE sums(it) ==
        it = [s \in SUBSET S |-> IF s = {} THEN 0 ELSE Gap(hist, Pick(s)) + it[s \ {Pick(s)}]]
<1>5. ASSUME NEW it PROVE sums(it) <=> Sums(it, g, S)
  <2>1. ASSUME NEW s \in SUBSET S, s # {} PROVE g[Pick(s)] = Gap(hist, Pick(s))
    <3>1. Pick(s) \in S
      BY <2>1 DEF Pick
    <3> QED
      BY <1>1, <3>1
  <2>2. [s \in SUBSET S |-> IF s = {} THEN 0 ELSE Gap(hist, Pick(s)) + it[s \ {Pick(s)}]]
          = [s \in SUBSET S |-> IF s = {} THEN 0 ELSE g[Pick(s)] + it[s \ {Pick(s)}]]
    BY <2>1
  <2> QED
    BY <2>2 DEF Sums
<1>6. \E it : sums(it)
  BY <1>3, <1>5, SumExists
<1>7. sums(CHOOSE it : sums(it))
  <2> HIDE DEF sums
  <2> QED
    BY <1>6
<1>8. GapSum(hist) = (CHOOSE it : sums(it))[S]
  BY <1>1 DEF GapSum, MapThenSumSet, MapThenFoldSet, Pick
<1> HIDE DEF sums
<1> QED
  BY <1>1, <1>3, <1>4, <1>5, <1>7, <1>8

(* The learned interval is a rotation interval that was observed, or lies  *)
(* between two of them, for every history and although it averages without *)
(* the gaps a clock that stepped back has left (rotation.go:164-185).      *)
THEOREM LearnedIntervalCorrect == Spec => []LearnedIntervalIsObserved
<1>1. TypeOK => LearnedIntervalIsObserved
  <2> SUFFICES ASSUME TypeOK PROVE LearnedIntervalIsObserved
    OBVIOUS
  <2>1. ASSUME NEW hist \in Seq(CertObservations), NEW gaps,
               gaps = {Gap(hist, i) : i \in 2 .. Len(hist)} \cap (Nat \ {0}), gaps # {}
        PROVE  /\ \E d \in gaps : d <= learnedInterval(hist)
               /\ \E d \in gaps : learnedInterval(hist) <= d
    <3>1. PICK S : S = PositiveGaps(hist)
      OBVIOUS
    <3>2. S # {} /\ \A i \in S : Gap(hist, i) \in Nat => Gap(hist, i) \in gaps
      BY <2>1, <3>1 DEF PositiveGaps
    <3>3. PICK g : g = [i \in S |-> Gap(hist, i)]
      OBVIOUS
    <3>4. PICK it : /\ Sums(it, g, S) /\ GapSum(hist) = it[S]
                    /\ g \in [S -> Nat] /\ IsFiniteSet(S)
      BY <2>1, <3>1, <3>3, GapSumFacts
    <3>5. Between(it, g, S)
      BY <3>4, SumIsBetween
    <3>6. PICK n \in Nat \ {0} : n = Cardinality(S)
      BY <3>2, <3>4, FS_CardinalityType, FS_EmptySet
    <3>7. PICK x \in S, y \in S : g[x] * n <= it[S] /\ it[S] <= g[y] * n
      BY <3>2, <3>5, <3>6 DEF Between
    <3>8. PICK lo \in Nat : lo = g[x] /\ lo \in gaps
      BY <3>2, <3>3, <3>4
    <3>9. PICK hi \in Nat : hi = g[y] /\ hi \in gaps
      BY <3>2, <3>3, <3>4
    <3>10. PICK a \in Nat : a = it[S]
      <4>1. lo * n >= 0 /\ it[S] \in Int
        BY <3>5 DEF Between
      <4> QED
        BY <3>7, <3>8, <4>1
    <3>11. lo <= a \div n /\ a \div n <= hi
      BY <3>7, <3>8, <3>9, <3>10, Average
    <3>12. learnedInterval(hist) = a \div n
      BY <3>1, <3>2, <3>4, <3>6, <3>10 DEF learnedInterval
    <3> QED
      BY <3>8, <3>9, <3>11, <3>12
  <2>2. \A id \in SpiffeIds : history[id] \in Seq(CertObservations)
    BY DEF TypeOK, RotationTypeOK
  <2> QED
    BY <2>1, <2>2 DEF LearnedIntervalIsObserved
<1> QED
  BY <1>1, TypeCorrect, PTL

=============================================================================
