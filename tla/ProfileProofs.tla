---------------------------- MODULE ProfileProofs ----------------------------
(***************************************************************************)
(* Proofs about the profile tracker, for every set of identities and       *)
(* destinations and every choice of the bounds.                            *)
(***************************************************************************)
EXTENDS ProfileClient, SumProofs

(* What holds of every window: its destination set is finite and fits, and *)
(* an overflow was counted only when the set was full.                     *)
WindowOK(w) ==
    /\ w \in Windows
    /\ IsFiniteSet(w.dests)
    /\ Cardinality(w.dests) <= profileDestSetMax
    /\ w.overflow > 0 => Cardinality(w.dests) = profileDestSetMax

LEMMA Remainder ==
    ASSUME NEW t \in Nat, NEW m \in Nat \ {0}
    PROVE  t % m \in 0 .. m - 1
OBVIOUS

LEMMA TruncateFacts ==
    ASSUME NEW t \in Nat
    PROVE  /\ Truncate(t) \in Int
           /\ Truncate(t) <= t
           /\ t < Truncate(t) + profileWindowSize
<1>1. profileWindowSize \in Nat \ {0}
  BY ProfileAssumption
<1>2. t % profileWindowSize \in 0 .. profileWindowSize - 1
  BY <1>1, Remainder
<1> QED
  BY <1>1, <1>2 DEF Truncate

LEMMA CountedOK ==
    ASSUME NEW w, WindowOK(w), NEW dest \in Dests \cup {NoDest}, NEW tx \in Nat
    PROVE  WindowOK(Counted(w, dest, tx)) /\ Counted(w, dest, tx).start = w.start
<1> DEFINE c == Counted(w, dest, tx)
           fits == dest \in w.dests \/ Cardinality(w.dests) < profileDestSetMax
<1>1. /\ profileDestSetMax \in Nat \ {0} /\ ByteModulus \in Nat \ {0}
      /\ NoDest \notin Dests
  BY ProfileAssumption
<1>2. /\ w \in Windows /\ IsFiniteSet(w.dests) /\ Cardinality(w.dests) \in Nat
      /\ w.connections \in Nat /\ w.overflow \in Nat /\ w.bytesTx \in Nat
      /\ w.dests \subseteq Dests
  BY FS_CardinalityType DEF WindowOK, Windows
<1>3. (w.bytesTx + tx) % ByteModulus \in Nat
  BY <1>1, <1>2, Remainder
<1>4. /\ c.start = w.start
      /\ c.dests = IF dest # NoDest /\ fits THEN w.dests \cup {dest} ELSE w.dests
      /\ c.overflow = IF dest # NoDest /\ ~fits THEN w.overflow + 1 ELSE w.overflow
  BY <1>2 DEF Counted, Windows
<1>5. c \in Windows
  <2> DEFINE ds == IF dest # NoDest /\ fits THEN w.dests \cup {dest} ELSE w.dests
             ov == IF dest # NoDest /\ ~fits THEN w.overflow + 1 ELSE w.overflow
             tb == (w.bytesTx + tx) % ByteModulus
  <2>1. c = [w EXCEPT !.connections = w.connections + 1, !.dests = ds,
                       !.overflow = ov, !.bytesTx = tb]
    BY DEF Counted
  <2>2. ds \in SUBSET Dests
    BY <1>2
  <2>3. ov \in Nat /\ w.connections + 1 \in Nat /\ w.start \in Nat /\ tb \in Nat
    BY <1>2, <1>3 DEF Windows
  <2> HIDE DEF ds, ov, tb, c
  <2> QED
    BY <1>2, <2>1, <2>2, <2>3 DEF Windows
<1>6. CASE dest = NoDest
  BY <1>2, <1>4, <1>5, <1>6 DEF WindowOK
<1>7. CASE dest # NoDest /\ fits
  <2>1. /\ IsFiniteSet(w.dests \cup {dest})
        /\ Cardinality(w.dests \cup {dest}) =
              IF dest \in w.dests THEN Cardinality(w.dests) ELSE Cardinality(w.dests) + 1
    BY <1>2, FS_AddElement
  <2>2. c.dests = w.dests \cup {dest} /\ c.overflow = w.overflow
    BY <1>4, <1>7
  <2> HIDE DEF c
  <2>3. WindowOK(c) /\ c.start = w.start
    BY <1>1, <1>2, <1>4, <1>5, <1>7, <2>1, <2>2 DEF WindowOK
  <2> QED
    BY <2>3 DEF c
<1>8. CASE dest # NoDest /\ ~fits
  <2>1. c.dests = w.dests /\ c.overflow = w.overflow + 1
    BY <1>4, <1>8
  <2>2. Cardinality(w.dests) = profileDestSetMax
    BY <1>1, <1>2, <1>8 DEF WindowOK
  <2> HIDE DEF c
  <2>3. WindowOK(c) /\ c.start = w.start
    BY <1>1, <1>2, <1>4, <1>5, <2>1, <2>2 DEF WindowOK
  <2> QED
    BY <2>3 DEF c
<1> QED
  BY <1>6, <1>7, <1>8

LEMMA NewWindowOK ==
    ASSUME NEW t \in Nat
    PROVE  WindowOK(NewWindow(t)) /\ NewWindow(t).start = Truncate(t)
<1>1. Truncate(t) \in Nat
  <2>1. profileWindowSize \in Nat \ {0}
    BY ProfileAssumption
  <2>2. t % profileWindowSize <= t /\ t % profileWindowSize \in Nat
    BY <2>1
  <2> QED
    BY <2>2 DEF Truncate
<1>2. IsFiniteSet({}) /\ Cardinality({}) = 0
  BY FS_EmptySet
<1> QED
  BY <1>1, <1>2, ProfileAssumption DEF WindowOK, NewWindow, Windows

-----------------------------------------------------------------------------
(* What one event does to the windows of an identity: nothing, or it is    *)
(* counted in the newest window, or a window is appended for it and the    *)
(* oldest one leaves when there is no place.                               *)
SameWindows(ws, new) == new = ws

CountedInNewest(ws, new) ==
    /\ ws # <<>>
    /\ Len(new) = Len(ws)
    /\ \A i \in 1 .. Len(ws) - 1 : new[i] = ws[i]
    /\ new[Len(new)].start = ws[Len(ws)].start

AppendedFor(ws, new, at) ==
    LET shift == IF Len(ws) = profileWindowMax THEN 1 ELSE 0
    IN  /\ Len(new) = Len(ws) + 1 - shift
        /\ \A i \in 1 .. Len(new) - 1 : new[i] = ws[i + shift]
        /\ new[Len(new)].start = Truncate(at)
        /\ Len(ws) >= profileLearnMin => ws[Len(ws)].start < Truncate(at)

GoodWindows(ws) ==
    /\ ws \in Seq(Windows)
    /\ Len(ws) <= profileWindowMax
    /\ \A i \in 1 .. Len(ws) : WindowOK(ws[i])

LEMMA ObservedFacts ==
    ASSUME NEW ws, GoodWindows(ws), NEW dest \in Dests \cup {NoDest},
           NEW tx \in Nat, NEW at \in Nat
    PROVE  /\ GoodWindows(Observed(ws, dest, tx, at))
           /\ \/ SameWindows(ws, Observed(ws, dest, tx, at))
              \/ CountedInNewest(ws, Observed(ws, dest, tx, at))
              \/ AppendedFor(ws, Observed(ws, dest, tx, at), at)
<1> DEFINE new == Observed(ws, dest, tx, at)
           last == ws[Len(ws)]
<1>1. /\ ws \in Seq(Windows) /\ Len(ws) \in Nat /\ Len(ws) <= profileWindowMax
      /\ \A i \in 1 .. Len(ws) : WindowOK(ws[i]) /\ ws[i].start \in Nat
  BY DEF GoodWindows, WindowOK, Windows
<1>2. /\ profileWindowMax \in Nat \ {0} /\ profileLearnMin \in Nat \ {0}
      /\ profileWindowSize \in Nat \ {0}
  BY ProfileAssumption
<1>3. CASE Backdated(ws, at)
  BY <1>3 DEF Observed, SameWindows
<1>4. CASE ~Backdated(ws, at) /\ ws # <<>> /\ Covers(Newest(ws), at)
  <2>1. new = [ws EXCEPT ![Len(ws)] = Counted(last, dest, tx)]
    BY <1>4 DEF Observed, currentWindow
  <2>2. Len(ws) \in 1 .. Len(ws) /\ WindowOK(last)
    BY <1>1, <1>4
  <2>3. WindowOK(Counted(last, dest, tx)) /\ Counted(last, dest, tx).start = last.start
    BY <2>2, CountedOK
  <2>4. Counted(last, dest, tx) \in Windows
    BY <2>3 DEF WindowOK
  <2>5. /\ new \in Seq(Windows) /\ Len(new) = Len(ws)
        /\ new[Len(ws)] = Counted(last, dest, tx)
        /\ \A i \in 1 .. Len(ws) - 1 : new[i] = ws[i]
    BY <1>1, <2>1, <2>2, <2>4
  <2> HIDE DEF new, last
  <2>6. \A i \in 1 .. Len(new) : WindowOK(new[i])
    <3> SUFFICES ASSUME NEW i \in 1 .. Len(new) PROVE WindowOK(new[i])
      OBVIOUS
    <3>1. CASE i = Len(ws)
      BY <3>1, <2>3, <2>5
    <3>2. CASE i # Len(ws)
      <4>1. i \in 1 .. Len(ws) - 1
        BY <3>2, <2>5, <1>1
      <4>2. i \in 1 .. Len(ws)
        BY <2>5
      <4>3. WindowOK(ws[i])
        BY <4>2, <1>1
      <4> QED
        BY <4>1, <4>3, <2>5
    <3> QED
      BY <3>1, <3>2
  <2>7. GoodWindows(new)
    BY <1>1, <2>5, <2>6 DEF GoodWindows
  <2>8. CountedInNewest(ws, new)
    BY <1>4, <2>3, <2>5 DEF CountedInNewest, last
  <2> QED
    BY <2>7, <2>8 DEF new
<1>5. CASE ~Backdated(ws, at) /\ ~(ws # <<>> /\ Covers(Newest(ws), at))
  <2> DEFINE fresh == NewWindow(at)
             longer == Append(ws, fresh)
             shift == IF Len(ws) = profileWindowMax THEN 1 ELSE 0
             cur == CapWindows(longer)
  <2>1. WindowOK(fresh) /\ fresh \in Windows /\ fresh.start = Truncate(at)
    BY NewWindowOK DEF WindowOK
  <2> HIDE DEF fresh
  <2>2. /\ longer \in Seq(Windows) /\ Len(longer) = Len(ws) + 1
        /\ longer[Len(longer)] = fresh
        /\ \A i \in 1 .. Len(ws) : longer[i] = ws[i]
    BY <1>1, <2>1
  <2> HIDE DEF longer
  <2>3. /\ cur \in Seq(Windows) /\ Len(cur) = Len(ws) + 1 - shift
        /\ Len(cur) \in 1 .. profileWindowMax
        /\ cur[Len(cur)] = fresh
        /\ \A i \in 1 .. Len(cur) - 1 : cur[i] = ws[i + shift]
    <3>1. CASE Len(ws) = profileWindowMax
      <4>1. cur = SubSeq(longer, 2, Len(longer))
        BY <1>1, <1>2, <2>2, <3>1 DEF CapWindows
      <4>2. /\ cur \in Seq(Windows) /\ Len(cur) = Len(ws)
            /\ \A i \in 1 .. Len(ws) : cur[i] = longer[i + 1]
        BY <1>1, <1>2, <2>2, <3>1, <4>1
      <4> HIDE DEF cur
      <4> QED
        BY <1>1, <1>2, <2>2, <3>1, <4>2
    <3>2. CASE Len(ws) # profileWindowMax
      <4>1. cur = longer
        BY <1>1, <1>2, <2>2, <3>2 DEF CapWindows
      <4> HIDE DEF cur
      <4>2. \A i \in 1 .. Len(ws) : cur[i] = ws[i + 0]
        BY <1>1, <2>2, <4>1
      <4> QED
        BY <1>1, <1>2, <2>2, <3>2, <4>1, <4>2
    <3> QED
      BY <3>1, <3>2
  <2>4. currentWindow(ws, at) = cur
    BY <1>5 DEF currentWindow, longer, fresh
  <2> HIDE DEF cur
  <2>5. new = [cur EXCEPT ![Len(cur)] = Counted(fresh, dest, tx)]
    BY <1>5, <2>3, <2>4 DEF Observed
  <2>6. /\ WindowOK(Counted(fresh, dest, tx)) /\ Counted(fresh, dest, tx).start = fresh.start
        /\ Counted(fresh, dest, tx) \in Windows
    BY <2>1, CountedOK DEF WindowOK
  <2>7. /\ new \in Seq(Windows) /\ Len(new) = Len(cur)
        /\ new[Len(cur)] = Counted(fresh, dest, tx)
        /\ \A i \in 1 .. Len(cur) - 1 : new[i] = cur[i]
    BY <1>2, <2>3, <2>5, <2>6
  <2> HIDE DEF new
  <2>8. \A i \in 1 .. Len(cur) - 1 : i + shift \in 1 .. Len(ws) /\ new[i] = ws[i + shift]
    BY <1>1, <2>3, <2>7
  <2>9. \A i \in 1 .. Len(new) : WindowOK(new[i])
    <3> SUFFICES ASSUME NEW i \in 1 .. Len(new) PROVE WindowOK(new[i])
      OBVIOUS
    <3>1. CASE i = Len(cur)
      BY <3>1, <2>6, <2>7
    <3>2. CASE i # Len(cur)
      <4>1. i \in 1 .. Len(cur) - 1
        BY <3>2, <2>3, <2>7
      <4> QED
        BY <4>1, <2>8, <1>1
    <3> QED
      BY <3>1, <3>2
  <2>10. GoodWindows(new)
    BY <1>2, <2>3, <2>7, <2>9 DEF GoodWindows
  <2>11. ASSUME Len(ws) >= profileLearnMin PROVE ws[Len(ws)].start < Truncate(at)
    <3>1. Len(ws) \in 1 .. Len(ws) /\ ws # <<>>
      BY <1>1, <1>2, <2>11
    <3>2. ws[Len(ws)].start \in Nat
      BY <1>1, <3>1
    <3>3. ws[Len(ws)].start + profileWindowSize <= at
      BY <1>2, <1>5, <2>11, <3>1, <3>2 DEF Backdated, Newest, Covers
    <3>4. Truncate(at) \in Int /\ at < Truncate(at) + profileWindowSize
      BY TruncateFacts
    <3> QED
      BY <1>2, <3>2, <3>3, <3>4
  <2>12. AppendedFor(ws, new, at)
    BY <2>1, <2>3, <2>6, <2>7, <2>8, <2>11 DEF AppendedFor
  <2> QED
    BY <2>10, <2>12 DEF new
<1> QED
  BY <1>3, <1>4, <1>5
-----------------------------------------------------------------------------
(* The inductive invariant: good windows, in order once learned *)
OrderedFrom(ws) ==
    \A i, j \in profileLearnMin .. Len(ws) : i < j => ws[i].start < ws[j].start

ProfileInv ==
    /\ windows \in [Identities -> Seq(Windows)]
    /\ \A id \in Identities : GoodWindows(windows[id]) /\ OrderedFrom(windows[id])

LEMMA GoodStarts ==
    ASSUME NEW ws, GoodWindows(ws)
    PROVE  Len(ws) \in Nat /\ \A i \in 1 .. Len(ws) : ws[i].start \in Nat
<1>1. ws \in Seq(Windows)
  BY DEF GoodWindows
<1>2. \A i \in 1 .. Len(ws) : ws[i] \in Windows
  BY <1>1
<1> QED
  BY <1>1, <1>2 DEF Windows

(* One event keeps the order: what it appends is later than the newest,    *)
(* and a window that leaves moves the others towards the front, where      *)
(* nothing is claimed.                                                     *)
LEMMA ObservedOrdered ==
    ASSUME NEW ws, GoodWindows(ws), OrderedFrom(ws), NEW at \in Nat,
           NEW new, GoodWindows(new),
           \/ SameWindows(ws, new)
           \/ CountedInNewest(ws, new)
           \/ AppendedFor(ws, new, at)
    PROVE  OrderedFrom(new)
<1>1. /\ Len(ws) \in Nat /\ Len(new) \in Nat
      /\ \A i \in 1 .. Len(ws) : ws[i].start \in Nat
      /\ \A i \in 1 .. Len(new) : new[i].start \in Nat
  BY GoodStarts
<1>2. profileLearnMin \in Nat \ {0}
  BY ProfileAssumption
<1>3. CASE SameWindows(ws, new)
  BY <1>3 DEF SameWindows
<1>4. CASE CountedInNewest(ws, new)
  <2>1. \A i \in 1 .. Len(new) : new[i].start = ws[i].start
    BY <1>1, <1>4 DEF CountedInNewest
  <2>2. Len(new) = Len(ws)
    BY <1>4 DEF CountedInNewest
  <2> QED
    BY <1>1, <1>2, <2>1, <2>2 DEF OrderedFrom
<1>5. CASE AppendedFor(ws, new, at)
  <2> DEFINE shift == IF Len(ws) = profileWindowMax THEN 1 ELSE 0
  <2>1. /\ shift \in {0, 1}
        /\ Len(new) = Len(ws) + 1 - shift
        /\ \A i \in 1 .. Len(new) - 1 : new[i] = ws[i + shift]
        /\ new[Len(new)].start = Truncate(at)
        /\ Len(ws) >= profileLearnMin => ws[Len(ws)].start < Truncate(at)
    BY <1>5 DEF AppendedFor
  <2> HIDE DEF shift
  <2> SUFFICES ASSUME NEW i \in profileLearnMin .. Len(new),
                      NEW j \in profileLearnMin .. Len(new), i < j
               PROVE  new[i].start < new[j].start
    BY DEF OrderedFrom
  <2>2. /\ new[i] = ws[i + shift]
        /\ i + shift \in profileLearnMin .. Len(ws)
        /\ Len(ws) \in profileLearnMin .. Len(ws)
        /\ Len(ws) \in 1 .. Len(ws) /\ i + shift \in 1 .. Len(ws)
    BY <1>1, <1>2, <2>1
  <2>3. CASE j = Len(new)
    <3>1. ws[i + shift].start <= ws[Len(ws)].start
      BY <1>1, <2>2 DEF OrderedFrom
    <3>2. ws[Len(ws)].start < Truncate(at) /\ Truncate(at) \in Int
      BY <2>1, <2>2, TruncateFacts
    <3>3. ws[i + shift].start \in Nat /\ ws[Len(ws)].start \in Nat
      BY <1>1, <2>2
    <3>4. ws[i + shift].start < Truncate(at)
      BY <3>1, <3>2, <3>3
    <3> QED
      BY <2>1, <2>2, <2>3, <3>4
  <2>4. CASE j # Len(new)
    <3>1. /\ new[j] = ws[j + shift]
          /\ j + shift \in profileLearnMin .. Len(ws)
          /\ i + shift < j + shift
      <4>1. j \in 1 .. Len(new) - 1
        BY <1>1, <1>2, <2>4
      <4>2. new[j] = ws[j + shift]
        BY <2>1, <4>1
      <4>3. j + shift \in profileLearnMin .. Len(ws)
        BY <1>1, <1>2, <2>1, <4>1
      <4>4. i + shift < j + shift
        BY <1>2, <2>1
      <4> QED
        BY <4>2, <4>3, <4>4
    <3> QED
      BY <2>2, <3>1 DEF OrderedFrom
  <2> QED
    BY <2>3, <2>4
<1> QED
  BY <1>3, <1>4, <1>5

(* A step changes the windows of one identity by one event *)
LEMMA StepObserves ==
    ASSUME ProfileInv, Next
    PROVE  \E id \in Identities, dest \in Dests \cup {NoDest}, tx \in Nat, at \in Nat :
              windows' = [windows EXCEPT ![id] = Observed(windows[id], dest, tx, at)]
<1>1. PICK id \in Identities, dest \in Dests \cup {NoDest}, tx \in ByteCounts, at \in EventTimes :
         Call(id, dest, tx, at)
  BY DEF Next
<1>2. tx \in Nat /\ at \in Nat
  BY ProfileClientAssumption
<1>3. windows' = [windows EXCEPT ![id] = Observed(windows[id], dest, tx, at)]
  BY <1>1 DEF Call, Observe
<1> QED
  BY <1>2, <1>3

LEMMA ProfileStep == ProfileInv /\ [Next]_windows => ProfileInv'
<1> SUFFICES ASSUME ProfileInv, [Next]_windows PROVE ProfileInv'
  OBVIOUS
<1>1. CASE Next
  <2>1. PICK id \in Identities, dest \in Dests \cup {NoDest}, tx \in Nat, at \in Nat :
           windows' = [windows EXCEPT ![id] = Observed(windows[id], dest, tx, at)]
    BY <1>1, StepObserves
  <2> DEFINE ws == windows[id]
             new == Observed(ws, dest, tx, at)
  <2>2. GoodWindows(ws) /\ OrderedFrom(ws)
    BY DEF ProfileInv
  <2>3. /\ GoodWindows(new)
        /\ SameWindows(ws, new) \/ CountedInNewest(ws, new) \/ AppendedFor(ws, new, at)
    BY <2>2, ObservedFacts
  <2> HIDE DEF new, ws
  <2>4. OrderedFrom(new)
    BY <2>2, <2>3, ObservedOrdered
  <2>5. new \in Seq(Windows)
    BY <2>3 DEF GoodWindows
  <2>6. /\ windows' \in [Identities -> Seq(Windows)]
        /\ windows'[id] = new
        /\ \A o \in Identities \ {id} : windows'[o] = windows[o]
    BY <2>1, <2>5 DEF ProfileInv, new, ws
  <2> QED
    BY <2>3, <2>4, <2>6 DEF ProfileInv
<1>2. CASE UNCHANGED windows
  BY <1>2 DEF ProfileInv
<1> QED
  BY <1>1, <1>2

LEMMA ProfileStart == Init => ProfileInv
<1> SUFFICES ASSUME Init PROVE ProfileInv
  OBVIOUS
<1>1. windows = [id \in Identities |-> <<>>]
  BY DEF Init, ProfileInit
<1>2. profileLearnMin \in Nat \ {0} /\ profileWindowMax \in Nat \ {0}
  BY ProfileAssumption
<1>3. GoodWindows(<<>>) /\ OrderedFrom(<<>>)
  BY <1>2 DEF GoodWindows, OrderedFrom
<1> QED
  BY <1>1, <1>3 DEF ProfileInv

(* The inductive invariant holds of every behaviour of the tracker. *)
THEOREM ProfileInvariant == Spec => []ProfileInv
<1>1. Init => ProfileInv
  BY ProfileStart
<1>2. ProfileInv /\ [Next]_windows => ProfileInv'
  BY ProfileStep
<1> QED
  BY <1>1, <1>2, PTL DEF Spec

(* Type correctness of the profile tracker under any callers               *)
(* (profile.go:68-183).                                                    *)
THEOREM ProfileTypeCorrect == Spec => []TypeOK
<1>1. ProfileInv => TypeOK
  BY DEF ProfileInv, TypeOK
<1> QED
  BY <1>1, ProfileInvariant, PTL

(* RT-009 for every bound: windows and destination sets stay within their  *)
(* caps and an overflow is only counted in a full window                   *)
(* (profile.go:108-121, 178-180).                                          *)
THEOREM ProfileBoundedCorrect == Spec => []ProfileBounded
<1>1. ProfileInv => ProfileBounded
  BY DEF ProfileInv, ProfileBounded, GoodWindows, WindowOK
<1> QED
  BY <1>1, ProfileInvariant, PTL

(* Once profileLearnMin windows exist, windows are in order of time from   *)
(* there on, whatever order the events came in (profile.go:99-104).        *)
THEOREM OrderedCorrect == Spec => []OrderedOnceLearned
<1>1. ProfileInv => OrderedOnceLearned
  BY DEF ProfileInv, OrderedOnceLearned, OrderedFrom
<1> QED
  BY <1>1, ProfileInvariant, PTL

(* RT-008 for every bound: no event rewrites the baseline                  *)
(* (profile.go:89-106).                                                    *)
THEOREM BaselineImmutableCorrect == Spec => BaselineImmutable
<1> DEFINE kept(id) ==
        Len(windows[id]) >= profileLearnMin =>
            LET old   == windows[id]
                new   == windows'[id]
                shift == IF Len(old) = profileWindowMax THEN 1 ELSE 0
            IN  \/ /\ Len(new) = Len(old)
                   /\ Newest(new).start = Newest(old).start
                   /\ \A i \in 1 .. Len(old) - 1 : new[i] = old[i]
                \/ /\ Len(new) = Len(old) - shift + 1
                   /\ Newest(new).start > Newest(old).start
                   /\ \A i \in 1 .. Len(new) - 1 : new[i] = old[i + shift]
<1>1. ProfileInv /\ [Next]_windows => [\A id \in Identities : kept(id)]_windows
  <2> SUFFICES ASSUME ProfileInv, Next, NEW id \in Identities,
                      Len(windows[id]) >= profileLearnMin
               PROVE  kept(id)
    OBVIOUS
  <2>1. PICK o \in Identities, dest \in Dests \cup {NoDest}, tx \in Nat, at \in Nat :
           windows' = [windows EXCEPT ![o] = Observed(windows[o], dest, tx, at)]
    BY StepObserves
  <2>2. GoodWindows(windows[id])
    BY DEF ProfileInv
  <2>3. \/ SameWindows(windows[id], windows'[id])
        \/ CountedInNewest(windows[id], windows'[id])
        \/ AppendedFor(windows[id], windows'[id], at)
    <3>1. CASE o = id
      <4>1. windows'[id] = Observed(windows[id], dest, tx, at)
        BY <2>1, <3>1 DEF ProfileInv
      <4> QED
        BY <2>2, <4>1, ObservedFacts
    <3>2. CASE o # id
      BY <2>1, <3>2 DEF ProfileInv, SameWindows
    <3> QED
      BY <3>1, <3>2
  <2>4. Len(windows[id]) \in Nat
    BY <2>2 DEF GoodWindows
  <2>5. Truncate(at) \in Int
    BY TruncateFacts
  <2>6. CASE SameWindows(windows[id], windows'[id])
    BY <2>6 DEF SameWindows
  <2>7. CASE CountedInNewest(windows[id], windows'[id])
    BY <2>7 DEF CountedInNewest, Newest
  <2>8. CASE AppendedFor(windows[id], windows'[id], at)
    <3> DEFINE shift == IF Len(windows[id]) = profileWindowMax THEN 1 ELSE 0
    <3>1. /\ Len(windows'[id]) = Len(windows[id]) + 1 - shift
          /\ Len(windows[id]) + 1 - shift = Len(windows[id]) - shift + 1
          /\ \A i \in 1 .. Len(windows'[id]) - 1 : windows'[id][i] = windows[id][i + shift]
      BY <2>4, <2>8 DEF AppendedFor
    <3>2. Newest(windows[id]).start < Newest(windows'[id]).start
      BY <2>8 DEF AppendedFor, Newest
    <3>3. Newest(windows'[id]).start > Newest(windows[id]).start
      BY <3>2
    <3> QED
      BY <3>1, <3>3
  <2> QED
    BY <2>3, <2>6, <2>7, <2>8
<1> QED
  BY <1>1, ProfileInvariant, PTL DEF Spec, BaselineImmutable

-----------------------------------------------------------------------------
(* Steady traffic                                                          *)

(* A sum over n windows that all have the value v                          *)
LEMMA SteadySum ==
    ASSUME NEW n \in Nat \ {0}, NEW v \in Nat, NEW it, NEW g,
           g = [i \in 1 .. n |-> v], Sums(it, g, 1 .. n)
    PROVE  it[1 .. n] = n * v
<1>1. IsFiniteSet(1 .. n) /\ Cardinality(1 .. n) = n
  BY FS_Interval
<1>2. g \in [1 .. n -> Int] /\ \A i \in 1 .. n : g[i] = v
  OBVIOUS
<1>3. Between(it, g, 1 .. n)
  BY <1>1, <1>2, SumIsBetween
<1>4. 1 .. n # {}
  OBVIOUS
<1>5. /\ \E x \in 1 .. n : g[x] * n <= it[1 .. n]
      /\ \E x \in 1 .. n : it[1 .. n] <= g[x] * n
      /\ it[1 .. n] \in Int
  BY <1>1, <1>3, <1>4 DEF Between
<1>6. v * n <= it[1 .. n] /\ it[1 .. n] <= v * n /\ v * n \in Int /\ v * n = n * v
  BY <1>2, <1>5
<1> QED
  BY <1>5, <1>6

(* The values a count has in each of n windows                             *)
Steady(hist, field, v) == \A i \in 1 .. Len(hist) : hist[i][field] = v

LEMMA SteadySums ==
    ASSUME NEW hist, NEW field, NEW v \in Nat, Len(hist) \in Nat \ {0}, Steady(hist, field, v)
    PROVE  /\ SumOf(hist, field) = Len(hist) * v
           /\ SquareSumOf(hist, field) = Len(hist) * (v * v)
<1>1. PICK n \in Nat \ {0} : n = Len(hist)
  OBVIOUS
<1>2. PICK S : S = 1 .. n
  OBVIOUS
<1>3. IsFiniteSet(S) /\ \A s \in SUBSET S : s # {} => Pick(s) \in S
  <2>1. IsFiniteSet(1 .. n)
    BY FS_Interval
  <2> QED
    BY <1>2, <2>1 DEF Pick
<1>4. SumOf(hist, field) = n * v
  <2> DEFINE sums(it) ==
          it = [s \in SUBSET S |-> IF s = {} THEN 0
                                   ELSE hist[Pick(s)][field] + it[s \ {Pick(s)}]]
  <2>1. PICK g : g = [i \in S |-> v]
    OBVIOUS
  <2>2. ASSUME NEW it PROVE sums(it) <=> Sums(it, g, S)
    <3>1. \A s \in SUBSET S : s # {} => g[Pick(s)] = hist[Pick(s)][field]
      BY <1>1, <1>2, <1>3, <2>1 DEF Steady
    <3>2. [s \in SUBSET S |-> IF s = {} THEN 0 ELSE hist[Pick(s)][field] + it[s \ {Pick(s)}]]
            = [s \in SUBSET S |-> IF s = {} THEN 0 ELSE g[Pick(s)] + it[s \ {Pick(s)}]]
      BY <3>1
    <3> QED
      BY <3>2 DEF Sums
  <2>3. \E it : sums(it)
    BY <1>3, <2>2, SumExists
  <2>4. sums(CHOOSE it : sums(it))
    <3> HIDE DEF sums
    <3> QED
      BY <2>3
  <2>5. SumOf(hist, field) = (CHOOSE it : sums(it))[S]
    BY <1>1, <1>2 DEF SumOf, MapThenSumSet, MapThenFoldSet, Pick
  <2> HIDE DEF sums
  <2>6. PICK it : Sums(it, g, S) /\ SumOf(hist, field) = it[S]
    BY <2>2, <2>4, <2>5
  <2> QED
    BY <1>2, <2>1, <2>6, SteadySum
<1>5. SquareSumOf(hist, field) = n * (v * v)
  <2> DEFINE sums(it) ==
          it = [s \in SUBSET S |-> IF s = {} THEN 0
                                   ELSE hist[Pick(s)][field] * hist[Pick(s)][field]
                                          + it[s \ {Pick(s)}]]
  <2>0. PICK w \in Nat : w = v * v
    OBVIOUS
  <2>1. PICK g : g = [i \in S |-> w]
    OBVIOUS
  <2>2. ASSUME NEW it PROVE sums(it) <=> Sums(it, g, S)
    <3>1. \A s \in SUBSET S : s # {} => hist[Pick(s)][field] = v /\ g[Pick(s)] = w
      BY <1>1, <1>2, <1>3, <2>1 DEF Steady
    <3>2. \A s \in SUBSET S :
             s # {} => g[Pick(s)] = hist[Pick(s)][field] * hist[Pick(s)][field]
      BY <2>0, <3>1
    <3>3. [s \in SUBSET S |-> IF s = {} THEN 0
                              ELSE hist[Pick(s)][field] * hist[Pick(s)][field]
                                     + it[s \ {Pick(s)}]]
            = [s \in SUBSET S |-> IF s = {} THEN 0 ELSE g[Pick(s)] + it[s \ {Pick(s)}]]
      BY <3>2
    <3> QED
      BY <3>3 DEF Sums
  <2>3. \E it : sums(it)
    BY <1>3, <2>2, SumExists
  <2>4. sums(CHOOSE it : sums(it))
    <3> HIDE DEF sums
    <3> QED
      BY <2>3
  <2>5. SquareSumOf(hist, field) = (CHOOSE it : sums(it))[S]
    BY <1>1, <1>2 DEF SquareSumOf, MapThenSumSet, MapThenFoldSet, Pick
  <2> HIDE DEF sums
  <2>6. PICK it : Sums(it, g, S) /\ SquareSumOf(hist, field) = it[S]
    BY <2>2, <2>4, <2>5
  <2> QED
    BY <1>2, <2>0, <2>1, <2>6, SteadySum
<1> QED
  BY <1>1, <1>4, <1>5

(* What every window counted has no variance and does not score            *)
LEMMA SteadyScore ==
    ASSUME NEW hist, NEW field, NEW v \in Nat, Len(hist) \in Nat \ {0}, Steady(hist, field, v)
    PROVE  ~ScoreIsHigh(v, hist, field)
<1>1. PICK n \in Nat \ {0} : n = Len(hist)
  OBVIOUS
<1>2. SumOf(hist, field) = n * v /\ SquareSumOf(hist, field) = n * (v * v)
  BY <1>1, SteadySums
<1>3. ScaledVariance(hist, field) = 0
  <2>1. n * (n * (v * v)) = (n * v) * (n * v) /\ (n * v) * (n * v) \in Int
    OBVIOUS
  <2>2. n * ((n * v) * (n * v) - (n * v) * (n * v)) = 0
    BY <2>1
  <2> QED
    BY <1>1, <1>2, <2>1, <2>2 DEF ScaledVariance
<1>4. n * v - SumOf(hist, field) = 0
  <2>1. n * v \in Int
    OBVIOUS
  <2> QED
    BY <1>2, <2>1
<1> QED
  BY <1>1, <1>3, <1>4 DEF ScoreIsHigh

(* A destination of every window is typical                                *)
LEMMA SteadyDests ==
    ASSUME NEW hist, NEW D \in SUBSET Dests, Len(hist) \in Nat \ {0}, Steady(hist, "dests", D)
    PROVE  D \subseteq TypicalDests(hist)
<1>1. PICK n \in Nat \ {0} : n = Len(hist)
  OBVIOUS
<1>2. ASSUME NEW d \in D PROVE Frequency(hist, d) > n \div 2
  <2>1. {i \in 1 .. Len(hist) : d \in hist[i].dests} = 1 .. n
    BY <1>1 DEF Steady
  <2>2. Frequency(hist, d) = n
    <3>1. Cardinality(1 .. n) = n
      BY FS_Interval
    <3> QED
      BY <2>1, <3>1 DEF Frequency
  <2> QED
    BY <2>2
<1> QED
  BY <1>1, <1>2 DEF TypicalDests

(* Traffic that repeats exactly what every window of the baseline counted  *)
(* raises no anomaly, for any number of windows and any counts             *)
(* (profile.go:211-310).                                                   *)
THEOREM SteadyTrafficCorrect == Spec => []SteadyTrafficIsQuiet
<1>1. TypeOK => SteadyTrafficIsQuiet
  <2> SUFFICES ASSUME TypeOK PROVE SteadyTrafficIsQuiet
    OBVIOUS
  <2>1. ASSUME NEW ws \in Seq(Windows), ws # <<>>, Newest(ws).overflow = 0,
               \A i \in 1 .. Len(ws) : /\ ws[i].connections = Newest(ws).connections
                                       /\ ws[i].bytesTx = Newest(ws).bytesTx
                                       /\ ws[i].dests = Newest(ws).dests
        PROVE  Anomalies(ws) = {}
    <3>1. PICK hist : hist = Historical(ws)
      OBVIOUS
    <3>2. Len(ws) \in Nat \ {0}
      BY <2>1
    <3>3. Len(hist) = Len(ws) - 1 /\ \A i \in 1 .. Len(hist) : hist[i] = ws[i]
      <4>1. PICK n \in Nat : n = Len(ws) - 1
        BY <3>2
      <4>2. hist = SubSeq(ws, 1, n)
        BY <3>1, <4>1 DEF Historical
      <4>3. hist = [i \in 1 .. n |-> ws[i]]
        BY <2>1, <3>2, <4>1, <4>2
      <4>4. Len(hist) = n
        BY <2>1, <3>2, <4>1, <4>2
      <4> QED
        BY <4>1, <4>3, <4>4
    <3>4. CASE Len(hist) < profileLearnMin
      BY <3>1, <3>4 DEF Anomalies
    <3>5. CASE ~(Len(hist) < profileLearnMin)
      <4>1. PICK cur \in Windows : cur = Newest(ws)
        BY <2>1, <3>2 DEF Newest
      <4>2. cur.connections \in Nat /\ cur.bytesTx \in Nat /\ cur.dests \in SUBSET Dests
        BY DEF Windows
      <4>3. Len(hist) \in Nat \ {0}
        BY <3>2, <3>3, <3>5, ProfileAssumption
      <4>4. /\ Steady(hist, "connections", cur.connections)
            /\ Steady(hist, "bytesTx", cur.bytesTx)
            /\ Steady(hist, "dests", cur.dests)
        BY <2>1, <3>2, <3>3, <4>1 DEF Steady
      <4>5. /\ ~ScoreIsHigh(cur.connections, hist, "connections")
            /\ ~ScoreIsHigh(cur.bytesTx, hist, "bytesTx")
        BY <4>2, <4>3, <4>4, SteadyScore
      <4>6. NovelDests(ws) = {}
        BY <3>1, <4>1, <4>2, <4>3, <4>4, SteadyDests DEF NovelDests
      <4>7. ~(cur.overflow > 0)
        BY <2>1, <4>1
      <4> QED
        BY <2>1, <3>1, <3>5, <4>1, <4>5, <4>6, <4>7 DEF Anomalies
    <3> QED
      BY <3>4, <3>5
  <2>2. \A id \in Identities : windows[id] \in Seq(Windows)
    BY DEF TypeOK
  <2> QED
    BY <2>1, <2>2 DEF SteadyTrafficIsQuiet
<1> QED
  BY <1>1, ProfileTypeCorrect, PTL

=============================================================================
