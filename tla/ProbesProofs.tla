---------------------------- MODULE ProbesProofs ----------------------------
(***************************************************************************)
(* Proofs about the hooks on OpenSSL, for any threads, buffers, sizes and  *)
(* capacities.                                                             *)
(***************************************************************************)
EXTENDS ProbesSafety, FiniteSetTheorems, TLAPS

(* A saved certificate has a length the entry probe accepted.              *)
SavedCert ==
    \A t \in Threads :
        scratch["d2i_X509"][t] # None => scratch["d2i_X509"][t].len > 0

(* Arguments are saved by attached probes only.                            *)
SavedByProbe ==
    \A h \in Hooks, t \in Threads : scratch[h][t] # None => attached[h] > 0

(* During a call the scratch map holds its arguments, or those of an older *)
(* call if this one's were turned away.                                    *)
Paired ==
    \A h \in Hooks, t \in Threads :
        scratch[h][t] # None /\ call[h][t] # None =>
            /\ call[h][t].stored => scratch[h][t].buf = call[h][t].buf
            /\ ~call[h][t].stored /\ call[h][t].traced => h = "d2i_X509"

SavedInv == SavedCert /\ SavedByProbe /\ Paired /\ ScratchOfOpenCalls

ProbesInv == ProbesTypeOK /\ SavedInv /\ CaptureOfOneCall

-----------------------------------------------------------------------------
(* A step of the loaders                                                   *)
LoaderStep ==
    \/ \E h \in Hooks : Attach(h)
    \/ \E l \in Loaders : Loaded(l) \/ LoadFails(l) \/ Unload(l) \/ Take(l)

LEMMA LoaderOfIsLoader == \A h \in Hooks : LoaderOf(h) \in Loaders
  BY DEF LoaderOf, Loaders

LEMMA LengthsAreInts ==
    ASSUME NEW h \in Hooks
    PROVE  Lengths(h) \subseteq Int /\ Results(h) \subseteq Int
  BY ProbesAssumption DEF Lengths, Results

(* What an event carries fits the event.                                   *)
LEMMA CaptureInRange ==
    ASSUME NEW h \in Hooks, NEW n \in Int, n > 0, h # "d2i_X509" => Capture(h, n) > 0
    PROVE  Capture(h, n) \in 1 .. MaxBytes(LoaderOf(h))
  <1>1. MaxDER \in Nat /\ MaxDER > 0 /\ MaxCapture \in Nat /\ MaxCapture > 0
        /\ CaptureMod \in Nat /\ CaptureMod > 0
    BY ProbesAssumption
  <1>2. CASE h = "d2i_X509"
    BY <1>1, <1>2 DEF Capture, Least, MaxBytes, LoaderOf
  <1>3. CASE h # "d2i_X509"
    <2>1. n % CaptureMod \in Int
      BY <1>1
    <2> QED BY <2>1, <1>1, <1>3 DEF Capture, Least, MaxBytes, LoaderOf
  <1> QED BY <1>2, <1>3

LEMMA ProbesInitInv == ProbesInit => ProbesInv
  <1> SUFFICES ASSUME ProbesInit PROVE ProbesInv
    OBVIOUS
  <1> USE DEF ProbesInit
  <1>1. \A h \in Hooks : InUse(h) = {}
    BY DEF InUse
  <1>2. \A h \in Hooks : Cardinality(InUse(h)) = 0
    BY <1>1, FS_EmptySet
  <1>3. ProbesTypeOK
    BY <1>2, ProbesAssumption DEF ProbesTypeOK, Loaders
  <1>4. SavedInv
    BY DEF SavedInv, SavedCert, SavedByProbe, Paired, ScratchOfOpenCalls, InUse, Hooks
  <1>5. CaptureOfOneCall
    BY DEF CaptureOfOneCall
  <1> QED BY <1>3, <1>4, <1>5 DEF ProbesInv

-----------------------------------------------------------------------------
(* Steps of the loaders leave calls alone and may empty maps and rings.    *)
LEMMA LoaderStepInv == ProbesInv /\ LoaderStep => ProbesInv'
  <1> SUFFICES ASSUME ProbesInv, LoaderStep PROVE ProbesInv'
    OBVIOUS
  <1> USE DEF ProbesInv
  <1>1. ASSUME NEW h \in Hooks, Attach(h) PROVE ProbesInv'
    <2> USE <1>1 DEF Attach
    <2>1. attached' \in [Hooks -> 0 .. 2]
      BY DEF ProbesTypeOK
    <2>2. \A g \in Hooks : attached[g] > 0 => attached'[g] > 0
      BY DEF ProbesTypeOK
    <2>3. ProbesTypeOK'
      BY <2>1 DEF ProbesTypeOK, InUse
    <2>4. SavedInv'
      BY <2>2 DEF SavedInv, SavedCert, SavedByProbe, Paired, ScratchOfOpenCalls, InUse
    <2> QED BY <2>3, <2>4 DEF CaptureOfOneCall
  <1>2. ASSUME NEW l \in Loaders, Loaded(l) PROVE ProbesInv'
    <2> USE <1>2 DEF Loaded
    <2>1. ProbesTypeOK'
      BY DEF ProbesTypeOK, InUse
    <2>2. SavedInv'
      BY DEF SavedInv, SavedCert, SavedByProbe, Paired, ScratchOfOpenCalls, InUse
    <2> QED BY <2>1, <2>2 DEF CaptureOfOneCall
  <1>3. ASSUME NEW l \in Loaders, Detached(l),
               loader' \in [Loaders -> {"loading", "loaded", "failed", "closed"}]
        PROVE  ProbesInv'
    <2> USE <1>3 DEF Detached
    <2>1. ASSUME NEW h \in Hooks PROVE Cardinality(InUse(h)') <= ScratchCap
      <3>1. CASE LoaderOf(h) = l
        <4>1. InUse(h)' = {}
          BY <2>1, <3>1 DEF InUse
        <4> QED BY <4>1, FS_EmptySet, ProbesAssumption
      <3>2. CASE LoaderOf(h) # l
        <4>1. InUse(h)' = InUse(h)
          BY <2>1, <3>2 DEF InUse
        <4> QED BY <4>1, <2>1 DEF ProbesTypeOK
      <3> QED BY <3>1, <3>2
    <2>2. ring' \in [Loaders -> Seq(EventRecords)]
          /\ ring'[l] = <<>> /\ \A k \in Loaders \ {l} : ring'[k] = ring[k]
      BY DEF ProbesTypeOK
    <2>3. \A k \in Loaders :
            /\ Len(ring'[k]) <= RingCap
            /\ \A i \in 1 .. Len(ring'[k]) :
                 LoaderOf(ring'[k][i].hook) = k /\ ring'[k][i].len \in 1 .. MaxBytes(k)
      BY <2>2, ProbesAssumption DEF ProbesTypeOK
    <2>4. /\ attached' \in [Hooks -> 0 .. 2]
          /\ scratch' \in [Hooks -> [Threads -> {None} \cup Args]]
          /\ half' \subseteq Hooks \X Threads
      BY DEF ProbesTypeOK
    <2>5. ProbesTypeOK'
      BY <2>1, <2>2, <2>3, <2>4 DEF ProbesTypeOK
    <2>6. \A h \in Hooks, t \in Threads :
            scratch'[h][t] # None =>
                LoaderOf(h) # l /\ scratch'[h] = scratch[h] /\ attached'[h] = attached[h]
      OBVIOUS
    <2>7. \A h \in Hooks, t \in Threads :
            LoaderOf(h) # l /\ <<h, t>> \in half => <<h, t>> \in half'
      OBVIOUS
    <2>8. SavedCert' /\ SavedByProbe' /\ Paired'
      BY <2>6 DEF SavedInv, SavedCert, SavedByProbe, Paired, Hooks
    <2>9. ScratchOfOpenCalls'
      BY <2>6, <2>7 DEF SavedInv, ScratchOfOpenCalls, InUse
    <2>10. CaptureOfOneCall'
      <3> SUFFICES ASSUME NEW k \in Loaders, NEW i \in 1 .. Len(ring'[k])
                   PROVE  \/ ring'[k][i].buf = ring'[k][i].of.buf
                          \/ /\ ring'[k][i].hook = "d2i_X509" /\ ~ring'[k][i].of.stored
                             /\ <<ring'[k][i].hook, ring'[k][i].thread>> \in half'
        BY DEF CaptureOfOneCall
      <3>1. CASE k = l
        BY <3>1, <2>2
      <3>2. CASE k # l
        <4>1. ring'[k] = ring[k]
          BY <3>2, <2>2
        <4>2. ring[k][i] \in EventRecords /\ LoaderOf(ring[k][i].hook) = k
          BY <4>1 DEF ProbesTypeOK
        <4>3. ring[k][i].hook \in Hooks /\ ring[k][i].thread \in Threads
          BY <4>2 DEF EventRecords
        <4> QED BY <4>1, <4>2, <4>3, <2>7, <3>2 DEF CaptureOfOneCall
      <3> QED BY <3>1, <3>2
    <2> QED BY <2>5, <2>8, <2>9, <2>10 DEF SavedInv
  <1>4. ASSUME NEW l \in Loaders, LoadFails(l) \/ Unload(l) PROVE ProbesInv'
    <2>1. loader' \in [Loaders -> {"loading", "loaded", "failed", "closed"}]
      BY <1>4 DEF LoadFails, Unload, ProbesTypeOK
    <2> QED BY <2>1, <1>3, <1>4 DEF LoadFails, Unload
  <1>5. ASSUME NEW l \in Loaders, Take(l) PROVE ProbesInv'
    <2> USE <1>5 DEF Take
    <2>1. /\ ring' \in [Loaders -> Seq(EventRecords)]
          /\ Len(ring'[l]) = Len(ring[l]) - 1
          /\ \A i \in 1 .. Len(ring'[l]) : ring'[l][i] = ring[l][i + 1]
          /\ \A k \in Loaders \ {l} : ring'[k] = ring[k]
      <3>1. ring[l] \in Seq(EventRecords)
        BY DEF ProbesTypeOK
      <3>2. /\ Tail(ring[l]) \in Seq(EventRecords) /\ Len(Tail(ring[l])) = Len(ring[l]) - 1
            /\ \A i \in 1 .. Len(Tail(ring[l])) : Tail(ring[l])[i] = ring[l][i + 1]
        BY <3>1
      <3> QED BY <3>2 DEF ProbesTypeOK
    <2>2. \A k \in Loaders : Len(ring[k]) \in Nat
      BY DEF ProbesTypeOK
    <2>3. ProbesTypeOK'
      BY <2>1, <2>2, ProbesAssumption DEF ProbesTypeOK, InUse
    <2>4. SavedInv'
      BY DEF SavedInv, SavedCert, SavedByProbe, Paired, ScratchOfOpenCalls, InUse
    <2>5. CaptureOfOneCall'
      BY <2>1, <2>2 DEF CaptureOfOneCall
    <2> QED BY <2>3, <2>4, <2>5
  <1> QED BY <1>1, <1>2, <1>4, <1>5 DEF LoaderStep

-----------------------------------------------------------------------------
(* The entry of a call.  The cell of another hook or thread stays as it is *)
(* and so does every ring.                                                 *)
LEMMA EnterInv ==
    ASSUME ProbesInv, NEW t \in Threads, NEW h \in Hooks, NEW b \in Buffers,
           NEW n \in Lengths(h), NEW readable \in BOOLEAN, Enter(t, h, b, n, readable)
    PROVE  ProbesInv'
  <1> DEFINE stored == /\ attached[h] > 0
                       /\ EntryAccepts(h, n)
                       /\ h = "d2i_X509" => readable
                       /\ Fits(h, t)
             new == [buf |-> b, len |-> n, traced |-> attached[h] = 2, stored |-> stored]
             saved == [buf |-> b, len |-> n]
  <1> USE DEF ProbesInv
  <1>1. n \in Int
    BY LengthsAreInts
  <1>2. /\ call[h][t] = None /\ calls < MaxCalls /\ calls' = calls + 1
        /\ call' = [call EXCEPT ![h][t] = new]
        /\ scratch' = IF stored THEN [scratch EXCEPT ![h][t] = saved] ELSE scratch
        /\ loader' = loader /\ attached' = attached /\ ring' = ring /\ half' = half
    BY DEF Enter, ScratchKey
  <1>3. stored \in BOOLEAN /\ (attached[h] = 2) \in BOOLEAN
    BY DEF EntryAccepts, Fits
  <1>4. new \in CallRecords /\ saved \in Args
    BY <1>1, <1>3 DEF CallRecords, Args
  <1>5. new # None /\ saved # None
    BY <1>4, NoneAssumption
  <1> HIDE DEF stored
  <1>6. /\ call' \in [Hooks -> [Threads -> {None} \cup CallRecords]]
        /\ scratch' \in [Hooks -> [Threads -> {None} \cup Args]]
    BY <1>2, <1>4 DEF ProbesTypeOK
  <1>7. call'[h][t] = new /\ scratch'[h][t] = (IF stored THEN saved ELSE scratch[h][t])
    BY <1>2 DEF ProbesTypeOK
  <1>8. \A g \in Hooks, u \in Threads :
          g # h \/ u # t => call'[g][u] = call[g][u] /\ scratch'[g][u] = scratch[g][u]
    BY <1>2 DEF ProbesTypeOK
  <1>9. ASSUME NEW g \in Hooks PROVE Cardinality(InUse(g)') <= ScratchCap
    <2>1. InUse(g) \subseteq Threads /\ IsFiniteSet(InUse(g)) /\ Cardinality(InUse(g)) \in Nat
      BY FS_Subset, FS_CardinalityType, ProbesAssumption DEF InUse
    <2>2. CASE g = h /\ stored /\ scratch[h][t] = None
      <3>1. InUse(g)' = InUse(g) \cup {t} /\ t \notin InUse(g)
        BY <2>2, <1>5, <1>7, <1>8 DEF InUse
      <3>2. Cardinality(InUse(g)') = Cardinality(InUse(g)) + 1
        BY <3>1, <2>1, FS_AddElement
      <3>3. Cardinality(InUse(g)) < ScratchCap
        BY <2>2 DEF stored, Fits
      <3> QED BY <3>2, <3>3, <2>1, ProbesAssumption
    <2>3. CASE ~(g = h /\ stored /\ scratch[h][t] = None)
      <3>1. InUse(g)' = InUse(g)
        BY <2>3, <1>5, <1>7, <1>8 DEF InUse
      <3> QED BY <3>1 DEF ProbesTypeOK
    <2> QED BY <2>2, <2>3
  <1>10. ProbesTypeOK'
    BY <1>2, <1>6, <1>9, ProbesAssumption DEF ProbesTypeOK
  <1>11. SavedCert'
    <2>1. stored /\ h = "d2i_X509" => n > 0
      BY DEF stored, EntryAccepts
    <2>2. "d2i_X509" \in Hooks
      BY DEF Hooks
    <2> QED BY <2>1, <2>2, <1>7, <1>8 DEF SavedInv, SavedCert
  <1>12. SavedByProbe'
    BY <1>2, <1>7, <1>8 DEF SavedInv, SavedByProbe, stored
  <1>13. Paired'
    <2>1. stored => scratch'[h][t].buf = call'[h][t].buf
      BY <1>7
    <2>2. ~stored /\ attached[h] = 2 /\ scratch[h][t] # None => h = "d2i_X509"
      BY DEF stored, EntryAccepts, Fits
    <2>3. call'[h][t].stored = stored /\ call'[h][t].traced = (attached[h] = 2)
      BY <1>7
    <2> SUFFICES ASSUME NEW g \in Hooks, NEW u \in Threads,
                        scratch'[g][u] # None, call'[g][u] # None
                 PROVE  /\ call'[g][u].stored => scratch'[g][u].buf = call'[g][u].buf
                        /\ ~call'[g][u].stored /\ call'[g][u].traced => g = "d2i_X509"
      BY DEF Paired
    <2>4. CASE g = h /\ u = t
      BY <2>1, <2>2, <2>3, <2>4, <1>7
    <2>5. CASE g # h \/ u # t
      BY <2>5, <1>8 DEF SavedInv, Paired
    <2> QED BY <2>4, <2>5
  <1>14. ScratchOfOpenCalls'
    <2>1. call'[h][t].stored = stored
      BY <1>7
    <2> QED BY <2>1, <1>2, <1>5, <1>7, <1>8 DEF SavedInv, ScratchOfOpenCalls, InUse
  <1>15. CaptureOfOneCall'
    BY <1>2 DEF CaptureOfOneCall
  <1> QED BY <1>10, <1>11, <1>12, <1>13, <1>14, <1>15 DEF SavedInv

-----------------------------------------------------------------------------
(* The return of a call.  The event, if there is one, has the buffer of    *)
(* the call unless the entry probe turned the call away.                   *)
LEMMA ReturnInv ==
    ASSUME ProbesInv, NEW t \in Threads, NEW h \in Hooks,
           NEW ret \in Results(h), NEW readable \in BOOLEAN, Return(t, h, ret, readable)
    PROVE  ProbesInv'
  <1> DEFINE runs == call[h][t].traced /\ attached[h] = 2
             l == LoaderOf(h)
             out == IF runs THEN Submitted(t, h, ret, readable) ELSE <<>>
             args == scratch[h][t]
             size == OriginalLen(h, args, ret)
             ev == [hook |-> h, thread |-> t, buf |-> args.buf, len |-> Capture(h, size),
                    orig |-> size, of |-> call[h][t]]
  <1> USE DEF ProbesInv
  <1>1. l \in Loaders
    BY LoaderOfIsLoader
  <1>2. call[h][t] # None /\ call[h][t] \in CallRecords
    BY DEF Return, ProbesTypeOK
  <1>3. call' = [call EXCEPT ![h][t] = None] /\ attached' = attached
        /\ loader' = loader /\ calls' = calls
    BY DEF Return
  <1>4. scratch' = IF runs /\ args # None THEN [scratch EXCEPT ![h][t] = None] ELSE scratch
    BY DEF Return, ScratchKey, Cleaned
  <1>5. half' = IF ~runs /\ call[h][t].stored /\ attached[h] > 0
                THEN half \cup {<<h, t>>} ELSE half
    BY DEF Return
  <1>6. ring' = IF runs THEN [ring EXCEPT ![l] = @ \o Submitted(t, h, ret, readable)] ELSE ring
    BY DEF Return
  <1>7. out = <<>> \/ (/\ out = <<ev>> /\ runs /\ args # None /\ Succeeded(ret)
                      /\ Len(ring[l]) < RingCap
                      /\ (h # "d2i_X509" => Capture(h, size) > 0))
    BY DEF Submitted, ScratchKey
  <1> HIDE DEF out, ev
  <1>8. /\ ring'[l] = ring[l] \o out
        /\ \A k \in Loaders \ {l} : ring'[k] = ring[k]
        /\ DOMAIN ring' = Loaders
    BY <1>1, <1>6 DEF ProbesTypeOK, out
  <1>9. out # <<>> => /\ ev \in EventRecords /\ ev.len \in 1 .. MaxBytes(l) /\ ev.hook = h
                      /\ ev.thread = t /\ ev.of = call[h][t] /\ ev.buf = args.buf
    <2> SUFFICES ASSUME out # <<>>
                 PROVE  /\ ev \in EventRecords /\ ev.len \in 1 .. MaxBytes(l) /\ ev.hook = h
                        /\ ev.thread = t /\ ev.of = call[h][t] /\ ev.buf = args.buf
      OBVIOUS
    <2>1. args \in Args
      BY <1>7 DEF ProbesTypeOK
    <2>2. size \in Int /\ size > 0
      <3>1. CASE h = "d2i_X509"
        BY <3>1, <2>1, <1>7 DEF OriginalLen, Args, SavedInv, SavedCert
      <3>2. CASE h # "d2i_X509"
        BY <3>2, <1>7, LengthsAreInts DEF OriginalLen, Succeeded
      <3> QED BY <3>1, <3>2
    <2>3. Capture(h, size) \in 1 .. MaxBytes(l)
      BY <2>2, <1>7, CaptureInRange
    <2>4. MaxBytes(l) \in Nat
      BY ProbesAssumption DEF MaxBytes
    <2> HIDE DEF args, size
    <2>5. args.buf \in Buffers
      BY <2>1 DEF Args
    <2>6. Capture(h, size) \in Nat
      BY <2>3, <2>4
    <2>7. /\ ev.len = Capture(h, size) /\ ev.hook = h
          /\ ev.thread = t /\ ev.of = call[h][t] /\ ev.buf = args.buf
      BY DEF ev
    <2>8. ev \in EventRecords
      BY <2>2, <2>5, <2>6, <1>2 DEF ev, EventRecords
    <2> QED BY <2>3, <2>7, <2>8
  <1>10. /\ ring' \in [Loaders -> Seq(EventRecords)]
         /\ Len(ring'[l]) <= RingCap
         /\ \A i \in 1 .. Len(ring'[l]) :
              \/ i \in 1 .. Len(ring[l]) /\ ring'[l][i] = ring[l][i]
              \/ out # <<>> /\ ring'[l][i] = ev
    <2>1. ring[l] \in Seq(EventRecords) /\ Len(ring[l]) <= RingCap /\ RingCap \in Nat
      BY <1>1, ProbesAssumption DEF ProbesTypeOK
    <2>2. ring' = [k \in Loaders |-> ring'[k]]
      BY <1>6, <1>8 DEF ProbesTypeOK
    <2>3. CASE out = <<>>
      <3>1. ring'[l] = ring[l]
        BY <2>1, <2>3, <1>8
      <3>2. \A k \in Loaders : ring'[k] = ring[k]
        BY <3>1, <1>8
      <3>3. ring' \in [Loaders -> Seq(EventRecords)]
        BY <3>2, <2>2 DEF ProbesTypeOK
      <3> QED BY <3>1, <3>3, <2>1
    <2>4. CASE out # <<>>
      <3>1. out = <<ev>> /\ ev \in EventRecords /\ Len(ring[l]) < RingCap
        BY <2>4, <1>7, <1>9
      <3>2. /\ ring'[l] \in Seq(EventRecords) /\ Len(ring'[l]) = Len(ring[l]) + 1
            /\ \A i \in 1 .. Len(ring[l]) : ring'[l][i] = ring[l][i]
            /\ ring'[l][Len(ring[l]) + 1] = ev
        BY <3>1, <2>1, <1>8
      <3>3. \A k \in Loaders : ring'[k] \in Seq(EventRecords)
        BY <3>2, <1>8 DEF ProbesTypeOK
      <3>4. ring' \in [Loaders -> Seq(EventRecords)]
        BY <3>3, <2>2
      <3>5. Len(ring[l]) \in Nat
        BY <2>1
      <3> QED BY <3>1, <3>2, <3>4, <3>5, <2>1, <2>4
    <2> QED BY <2>3, <2>4
  <1>11. /\ call' \in [Hooks -> [Threads -> {None} \cup CallRecords]]
         /\ scratch' \in [Hooks -> [Threads -> {None} \cup Args]]
         /\ half \subseteq half' /\ half' \subseteq Hooks \X Threads
    BY <1>3, <1>4, <1>5 DEF ProbesTypeOK
  <1>12. /\ call'[h][t] = None
         /\ scratch'[h][t] = (IF runs THEN None ELSE scratch[h][t])
         /\ \A g \in Hooks, u \in Threads :
              g # h \/ u # t => call'[g][u] = call[g][u] /\ scratch'[g][u] = scratch[g][u]
    BY <1>3, <1>4 DEF ProbesTypeOK
  <1> HIDE DEF runs
  <1>13. ASSUME NEW g \in Hooks PROVE Cardinality(InUse(g)') <= ScratchCap
    <2>1. IsFiniteSet(InUse(g)) /\ InUse(g)' \subseteq InUse(g)
      BY <1>12, FS_Subset, ProbesAssumption DEF InUse
    <2>2. /\ Cardinality(InUse(g)') <= Cardinality(InUse(g))
          /\ Cardinality(InUse(g)') \in Nat /\ Cardinality(InUse(g)) \in Nat
      BY <2>1, FS_Subset, FS_CardinalityType
    <2> QED BY <2>2, ProbesAssumption DEF ProbesTypeOK
  <1>14. ProbesTypeOK'
    <2>1. \A k \in Loaders :
            /\ Len(ring'[k]) <= RingCap
            /\ \A i \in 1 .. Len(ring'[k]) :
                 LoaderOf(ring'[k][i].hook) = k /\ ring'[k][i].len \in 1 .. MaxBytes(k)
      <3>1. ASSUME NEW k \in Loaders, k # l
            PROVE  /\ Len(ring'[k]) <= RingCap
                   /\ \A i \in 1 .. Len(ring'[k]) :
                        LoaderOf(ring'[k][i].hook) = k /\ ring'[k][i].len \in 1 .. MaxBytes(k)
        BY <3>1, <1>8 DEF ProbesTypeOK
      <3>2. ASSUME NEW i \in 1 .. Len(ring'[l])
            PROVE  LoaderOf(ring'[l][i].hook) = l /\ ring'[l][i].len \in 1 .. MaxBytes(l)
        <4>1. CASE i \in 1 .. Len(ring[l]) /\ ring'[l][i] = ring[l][i]
          BY <4>1, <1>1 DEF ProbesTypeOK
        <4>2. CASE out # <<>> /\ ring'[l][i] = ev
          BY <4>2, <1>9
        <4> QED BY <3>2, <4>1, <4>2, <1>10
      <3> QED BY <3>1, <3>2, <1>10
    <2> QED BY <2>1, <1>3, <1>10, <1>11, <1>13 DEF ProbesTypeOK
  <1>15. SavedCert' /\ SavedByProbe' /\ Paired'
    BY <1>3, <1>12 DEF SavedInv, SavedCert, SavedByProbe, Paired, Hooks
  <1>16. ScratchOfOpenCalls'
    <2> SUFFICES ASSUME NEW g \in Hooks, NEW u \in Threads, scratch'[g][u] # None
                 PROVE  (call'[g][u] # None /\ call'[g][u].stored) \/ <<g, u>> \in half'
      BY DEF ScratchOfOpenCalls, InUse
    <2>1. CASE g = h /\ u = t
      <3>1. ~runs /\ scratch[h][t] # None
        BY <2>1, <1>12
      <3>2. attached[h] > 0
        BY <3>1 DEF SavedInv, SavedByProbe
      <3>3. call[h][t].stored \/ <<h, t>> \in half
        BY <3>1 DEF SavedInv, ScratchOfOpenCalls, InUse
      <3> QED BY <2>1, <3>1, <3>2, <3>3, <1>5, <1>11
    <2>2. CASE g # h \/ u # t
      BY <2>2, <1>11, <1>12 DEF SavedInv, ScratchOfOpenCalls, InUse
    <2> QED BY <2>1, <2>2
  <1>17. CaptureOfOneCall'
    <2>1. ASSUME out # <<>>
          PROVE  \/ ev.buf = ev.of.buf
                 \/ ev.hook = "d2i_X509" /\ ~ev.of.stored /\ <<ev.hook, ev.thread>> \in half
      <3>1. args # None /\ call[h][t].traced
        BY <2>1, <1>7 DEF runs
      <3>2. CASE call[h][t].stored
        BY <3>1, <3>2, <2>1, <1>2, <1>9 DEF SavedInv, Paired
      <3>3. CASE ~call[h][t].stored
        <4>1. h = "d2i_X509"
          BY <3>1, <3>3, <1>2 DEF SavedInv, Paired
        <4>2. <<h, t>> \in half
          BY <3>1, <3>3 DEF SavedInv, ScratchOfOpenCalls, InUse
        <4> QED BY <4>1, <4>2, <3>3, <2>1, <1>9
      <3> QED BY <3>2, <3>3
    <2> SUFFICES ASSUME NEW k \in Loaders, NEW i \in 1 .. Len(ring'[k])
                 PROVE  \/ ring'[k][i].buf = ring'[k][i].of.buf
                        \/ /\ ring'[k][i].hook = "d2i_X509" /\ ~ring'[k][i].of.stored
                           /\ <<ring'[k][i].hook, ring'[k][i].thread>> \in half'
      BY DEF CaptureOfOneCall
    <2>2. CASE k # l
      BY <2>2, <1>8, <1>11 DEF CaptureOfOneCall
    <2>3. CASE k = l
      BY <2>1, <2>3, <1>1, <1>10, <1>11 DEF CaptureOfOneCall
    <2> QED BY <2>2, <2>3
  <1> QED BY <1>14, <1>15, <1>16, <1>17 DEF SavedInv

-----------------------------------------------------------------------------
(* The invariant the theorems below rest on: the types, and that what the  *)
(* scratch map holds for a thread stems from its open call or from a call  *)
(* only one probe saw.                                                     *)
THEOREM ProbesInvariant == ProbesSpec => []ProbesInv
  <1>1. ProbesInit => ProbesInv
    BY ProbesInitInv
  <1>2. ProbesInv /\ [ProbesNext]_probeVars => ProbesInv'
    <2> SUFFICES ASSUME ProbesInv, [ProbesNext]_probeVars PROVE ProbesInv'
      OBVIOUS
    <2>1. CASE LoaderStep
      BY <2>1, LoaderStepInv
    <2>2. ASSUME NEW t \in Threads, NEW h \in Hooks, Traced(t, h) PROVE ProbesInv'
      BY <2>2, EnterInv, ReturnInv DEF Traced
    <2>3. CASE UNCHANGED probeVars
      BY <2>3 DEF probeVars, ProbesInv, ProbesTypeOK, SavedInv, SavedCert, SavedByProbe,
                  Paired, ScratchOfOpenCalls, CaptureOfOneCall, InUse
    <2> QED BY <2>1, <2>2, <2>3 DEF ProbesNext, LoaderStep
  <1> QED BY <1>1, <1>2, PTL DEF ProbesSpec

(* Scratch maps, rings and events keep their types and capacities whatever *)
(* calls the threads make and whenever probes come and go.                 *)
THEOREM ProbesTypeCorrect == ProbesSpec => []ProbesTypeOK
  BY ProbesInvariant, PTL DEF ProbesInv

(* The hooks never leak an entry of a scratch map, except for calls that   *)
(* were under way while probes were attached.                              *)
THEOREM ScratchCorrect == ProbesSpec => []ScratchOfOpenCalls
  BY ProbesInvariant, PTL DEF ProbesInv, SavedInv

(* An event shows the buffer of the call that returned, with the one       *)
(* exception the property names.                                           *)
THEOREM CaptureCorrect == ProbesSpec => []CaptureOfOneCall
  BY ProbesInvariant, PTL DEF ProbesInv

=============================================================================
