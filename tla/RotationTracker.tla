--------------------------- MODULE RotationTracker ---------------------------
(***************************************************************************)
(* The certificate rotation tracker of the session map sidecar             *)
(* (internal/session/rotation.go): per SPIFFE ID it keeps the most recent  *)
(* certificate observations and a fixed-window rate limiter, and it        *)
(* classifies each new observation against that history.                   *)
(*                                                                         *)
(* Track holds the tracker's mutex from its first to its last line, so one *)
(* call is one step.  Times and durations are whole nanoseconds in the     *)
(* code and naturals here: the divisions truncate exactly as Go's do.      *)
(***************************************************************************)
EXTENDS Integers, Sequences, FiniteSets, FiniteSetsExt

CONSTANTS
    SpiffeIds,          \* identities that present certificates
    CertObservations,   \* the observations callers may report
    certHistoryMax,     \* observations kept per identity
    rotationLearnMin,   \* observations needed before the interval is used
    rotationRateWindow, \* length of a rate window
    rotationRateMax     \* observations let through per rate window

(* The fields of a CertObservation that classification reads.  pid 0 means *)
(* that the process is not known.                                          *)
ASSUME ObservationAssumption ==
    \A o \in CertObservations :
        /\ DOMAIN o = {"serial", "expiry", "issuer", "domain", "at", "pid"}
        /\ o.expiry \in Nat
        /\ o.at \in Nat
        /\ o.pid \in Nat

ASSUME RotationBoundsAssumption ==
    /\ certHistoryMax \in Nat \ {0}
    /\ rotationLearnMin \in Nat
    /\ rotationRateWindow \in Nat
    /\ rotationRateMax \in Nat

VARIABLES
    history,    \* per identity, the recorded observations, oldest first
    rateCount,  \* observations counted in the current rate window
    rateReset   \* when the rate window ends; NoReset before the first one

rotationVars == <<history, rateCount, rateReset>>

NoReset == -1

RotationClasses == {"first_seen", "normal", "early", "issuer", "domain"}

(* NewRotationTracker *)
RotationInit ==
    /\ history = [id \in SpiffeIds |-> <<>>]
    /\ rateCount = [id \in SpiffeIds |-> 0]
    /\ rateReset = [id \in SpiffeIds |-> NoReset]

-----------------------------------------------------------------------------
(* The learned interval: the average of the gaps between neighbouring      *)
(* observations, gaps that are not positive being left out.                *)

Gap(hist, i) == hist[i].at - hist[i - 1].at

(* Variant with a defect: gaps that are not positive are kept *)
UnfilteredGaps(hist) == 2..Len(hist)

PositiveGaps(hist) == {i \in 2..Len(hist) : Gap(hist, i) > 0}

GapSum(hist) == MapThenSumSet(LAMBDA i : Gap(hist, i), PositiveGaps(hist))

learnedInterval(hist) ==
    IF PositiveGaps(hist) = {} THEN 0
    ELSE GapSum(hist) \div Cardinality(PositiveGaps(hist))

(* A rotation is early when the old certificate has not expired and either *)
(* the new one came a quarter of the learned interval before it was due    *)
(* or, with no learned interval, more than a quarter of the old lifetime   *)
(* is left (earlyFraction = 0.75).                                         *)
isEarlyRotation(obs, last, hist) ==
    LET interval  == learnedInterval(hist)
        lifetime  == last.expiry - last.at
        remaining == last.expiry - obs.at
    IN  /\ obs.at <= last.expiry
        /\ IF Len(hist) >= rotationLearnMin /\ interval > 0
           THEN obs.at < last.at + interval - interval \div 4
           ELSE lifetime > 0 /\ 4 * remaining > lifetime

pidChanged(obs, last) == obs.pid # 0 /\ last.pid # 0 /\ obs.pid # last.pid

(* Variant with a defect: the early test is tried before the issuer test *)
ClassifyEarlyFirst(obs, last, hist) ==
    CASE obs.domain # last.domain -> "domain"
      [] /\ obs.domain = last.domain
         /\ isEarlyRotation(obs, last, hist)
         /\ ~pidChanged(obs, last) -> "early"
      [] OTHER -> IF obs.issuer # last.issuer THEN "issuer" ELSE "normal"

(* The class of a certificate whose serial is new *)
Classify(obs, last, hist) ==
    CASE obs.domain # last.domain -> "domain"
      [] obs.domain = last.domain /\ obs.issuer # last.issuer -> "issuer"
      [] /\ obs.domain = last.domain
         /\ obs.issuer = last.issuer
         /\ isEarlyRotation(obs, last, hist)
         /\ ~pidChanged(obs, last) -> "early"
      [] OTHER -> "normal"

LastOf(hist) == hist[Len(hist)]

(* Variant with a defect: the cap keeps the oldest observations *)
AppendKeepOldest(hist, obs) ==
    LET longer == Append(hist, obs)
    IN  IF Len(longer) > certHistoryMax
        THEN SubSeq(longer, 1, certHistoryMax)
        ELSE longer

AppendCapped(hist, obs) ==
    LET longer == Append(hist, obs)
    IN  IF Len(longer) > certHistoryMax
        THEN SubSeq(longer, Len(longer) - certHistoryMax + 1, Len(longer))
        ELSE longer

-----------------------------------------------------------------------------
(* The rate window: a call after its end opens a new one.  The count is    *)
(* only ever compared with rotationRateMax, so it stops one above it.      *)

WindowOver(id, now) == rateReset[id] = NoReset \/ now > rateReset[id]

ResetAt(id, now) ==
    IF WindowOver(id, now) THEN now + rotationRateWindow ELSE rateReset[id]

CountAt(id, now) ==
    LET before == IF WindowOver(id, now) THEN 0 ELSE rateCount[id]
    IN  IF before > rotationRateMax THEN before ELSE before + 1

(* Variant with a defect: the count is compared before it is incremented *)
RateLimitedLate(id, now) == ~WindowOver(id, now) /\ rateCount[id] > rotationRateMax

RateLimited(id, now) == CountAt(id, now) > rotationRateMax

(* Variant with a defect: the new serial is compared with the oldest one *)
SameAsOldest(id, obs) == history[id] # <<>> /\ obs.serial = history[id][1].serial

SameCert(id, obs) == history[id] # <<>> /\ obs.serial = LastOf(history[id]).serial

(* What Track returns: "first_seen" also stands for "nothing to report"    *)
TrackClass(id, obs) ==
    IF RateLimited(id, obs.at) \/ history[id] = <<>> \/ SameCert(id, obs)
    THEN "first_seen"
    ELSE Classify(obs, LastOf(history[id]), history[id])

(* What Track records *)
Track(id, obs) ==
    /\ rateReset' = [rateReset EXCEPT ![id] = ResetAt(id, obs.at)]
    /\ rateCount' = [rateCount EXCEPT ![id] = CountAt(id, obs.at)]
    /\ history' = [history EXCEPT ![id] =
                        IF RateLimited(id, obs.at) \/ SameCert(id, obs)
                        THEN @ ELSE AppendCapped(@, obs)]

-----------------------------------------------------------------------------
RotationTypeOK ==
    /\ history \in [SpiffeIds -> Seq(CertObservations)]
    /\ rateCount \in [SpiffeIds -> 0 .. rotationRateMax + 1]
    /\ rateReset \in [SpiffeIds -> Nat \cup {NoReset}]

(* A history is a chain of rotations: it fits in certHistoryMax and two    *)
(* neighbours never carry the same serial, however often the same          *)
(* certificate is seen again (rotation.go:87 and the cap at 116).          *)
HistoryIsChain ==
    \A id \in SpiffeIds :
        /\ Len(history[id]) <= certHistoryMax
        /\ \A i \in 2..Len(history[id]) :
              history[id][i].serial # history[id][i - 1].serial

(* What was recorded in the current rate window: a window opens with a     *)
(* time later than every time accepted before it.                          *)
RecordedInWindow(id) ==
    {i \in 1..Len(history[id]) :
        history[id][i].at >= rateReset[id] - rotationRateWindow}

(* RT-006: out of order or not, no more observations are recorded in a     *)
(* rate window than were counted in it, and never more than                *)
(* rotationRateMax (rotation.go:68-80).                                    *)
RateWindowBudget ==
    \A id \in SpiffeIds :
        /\ Cardinality(RecordedInWindow(id)) <= rateCount[id]
        /\ Cardinality(RecordedInWindow(id)) <= rotationRateMax

(* The learned interval lies between the shortest and the longest positive *)
(* gap, so a clock that stepped back cannot make it negative or zero while *)
(* the history holds a positive gap (rotation.go:164-185).                 *)
LearnedIntervalIsObserved ==
    \A id \in SpiffeIds :
        LET hist == history[id]
            gaps == {Gap(hist, i) : i \in 2..Len(hist)} \cap (Nat \ {0})
        IN  gaps # {} =>
              /\ \E g \in gaps : g <= learnedInterval(hist)
              /\ \E g \in gaps : learnedInterval(hist) <= g
=============================================================================
