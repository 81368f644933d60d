---------------------------- MODULE ProfileTracker ----------------------------
(***************************************************************************)
(* The behavioural profile tracker of the session map sidecar              *)
(* (internal/session/profile.go): per identity a sequence of time windows  *)
(* that count connections, destinations and bytes, a baseline computed     *)
(* from all windows but the newest, and a deviation report that scores     *)
(* the newest window against the baseline.                                 *)
(*                                                                         *)
(* Observe and Profile hold the tracker's mutex throughout, so a call of   *)
(* Observe is one step and Profile is a function of the state.  Of a       *)
(* window only what the scoring reads is kept: the destinations as a set,  *)
(* no tool set and no received bytes (neither enters the score).           *)
(***************************************************************************)
EXTENDS Integers, Sequences, FiniteSets, FiniteSetsExt

CONSTANTS
    Identities,         \* identities that have profiles
    Dests,              \* destination addresses
    NoDest,             \* an event that names no destination
    profileWindowSize,  \* width of a window
    profileWindowMax,   \* windows kept per identity
    profileLearnMin,    \* windows needed for a baseline
    profileDestSetMax,  \* destinations kept per window
    ByteModulus         \* byte counters are unsigned and wrap (2^64)

ASSUME ProfileAssumption ==
    /\ NoDest \notin Dests
    /\ profileWindowSize \in Nat \ {0}
    /\ profileWindowMax \in Nat \ {0}
    /\ profileLearnMin \in Nat \ {0}
    /\ profileLearnMin <= profileWindowMax
    /\ profileDestSetMax \in Nat \ {0}
    /\ ByteModulus \in Nat \ {0}

VARIABLE windows    \* per identity, its windows in the order of creation

(* A window covers start .. start + profileWindowSize - 1 *)
Windows ==
    [start : Nat, connections : Nat, dests : SUBSET Dests,
     bytesTx : Nat, overflow : Nat]

(* NewProfileTracker *)
ProfileInit == windows = [id \in Identities |-> <<>>]

-----------------------------------------------------------------------------
(* Finding the window of an event *)

Newest(ws) == ws[Len(ws)]

Truncate(t) == t - (t % profileWindowSize)

Covers(w, t) == w.start <= t /\ t < w.start + profileWindowSize

NewWindow(t) ==
    [start |-> Truncate(t), connections |-> 0, dests |-> {}, bytesTx |-> 0, overflow |-> 0]

CapWindows(ws) ==
    IF Len(ws) > profileWindowMax
    THEN SubSeq(ws, Len(ws) - profileWindowMax + 1, Len(ws))
    ELSE ws

(* Variant with a defect: an older window is looked up and reused *)
ReuseWindow(ws, t) ==
    IF \E i \in 1..Len(ws) : Covers(ws[i], t)
    THEN LET i == CHOOSE i \in 1..Len(ws) : Covers(ws[i], t)
         IN  Append(SubSeq(ws, 1, i - 1) \o SubSeq(ws, i + 1, Len(ws)), ws[i])
    ELSE CapWindows(Append(ws, NewWindow(t)))

(* The windows with the one that receives an event of time t in last place *)
currentWindow(ws, t) ==
    IF ws # <<>> /\ Covers(Newest(ws), t) THEN ws
    ELSE CapWindows(Append(ws, NewWindow(t)))

(* Variant with a defect: the baseline is protected one window too late *)
BackdatedLate(ws, t) == Len(ws) > profileLearnMin /\ t < Newest(ws).start

(* RT-008: once the baseline is established older events are dropped *)
Backdated(ws, t) == Len(ws) >= profileLearnMin /\ t < Newest(ws).start

(* Variant with a defect: the set is full one destination early, and known *)
(* destinations are refused too                                            *)
CountedTwice(w, dest, tx) ==
    LET fits == Cardinality(w.dests) < profileDestSetMax - 1
    IN  [w EXCEPT !.connections = @ + 1,
                  !.dests       = IF fits THEN @ \cup {dest} ELSE @,
                  !.overflow    = IF fits THEN @ ELSE @ + 1,
                  !.bytesTx     = (@ + tx) % ByteModulus]

(* One event counted in window w *)
Counted(w, dest, tx) ==
    LET named == dest # NoDest
        fits  == dest \in w.dests \/ Cardinality(w.dests) < profileDestSetMax
    IN  [w EXCEPT !.connections = @ + 1,
                  !.dests       = IF named /\ fits THEN @ \cup {dest} ELSE @,
                  !.overflow    = IF named /\ ~fits THEN @ + 1 ELSE @,
                  !.bytesTx     = (@ + tx) % ByteModulus]

Observed(ws, dest, tx, at) ==
    IF Backdated(ws, at) THEN ws
    ELSE LET cur == currentWindow(ws, at)
         IN  [cur EXCEPT ![Len(cur)] = Counted(@, dest, tx)]

Observe(id, dest, tx, at) ==
    windows' = [windows EXCEPT ![id] = Observed(@, dest, tx, at)]

-----------------------------------------------------------------------------
(* The profile: baseline and deviation.  The code computes in floating     *)
(* point; here means and standard deviations are compared in integers,     *)
(* multiplied out, so |value - mean| > 1.5 std is exact.                   *)

Historical(ws) == SubSeq(ws, 1, Len(ws) - 1)

Frequency(hist, d) == Cardinality({i \in 1..Len(hist) : d \in hist[i].dests})

(* Variant with a defect: not even a destination of every window is typical *)
TypicalDestsStrict(hist) == {d \in Dests : Frequency(hist, d) > Len(hist)}

TypicalDests(hist) == {d \in Dests : Frequency(hist, d) > Len(hist) \div 2}

SumOf(hist, field) == MapThenSumSet(LAMBDA i : hist[i][field], 1..Len(hist))

SquareSumOf(hist, field) ==
    MapThenSumSet(LAMBDA i : hist[i][field] * hist[i][field], 1..Len(hist))

(* n^2 (n-1) times the variance of the counts *)
ScaledVariance(hist, field) ==
    LET n == Len(hist)
        s == SumOf(hist, field)
    IN  n * (n * SquareSumOf(hist, field) - s * s)

(* A score above 0.5: the z-score, an absolute value, exceeds 1.5; any     *)
(* deviation from a baseline without variance counts as 3.                 *)
ScoreIsHigh(value, hist, field) ==
    LET n   == Len(hist)
        off == n * value - SumOf(hist, field)
        var == ScaledVariance(hist, field)
    IN  IF var = 0 THEN off # 0
        ELSE 4 * (n - 1) * off * off > 9 * var

NovelDests(ws) == Newest(ws).dests \ TypicalDests(Historical(ws))

(* computeDeviation's anomaly flags for the newest of the windows ws *)
Anomalies(ws) ==
    LET cur  == Newest(ws)
        hist == Historical(ws)
    IN  IF ws = <<>> \/ Len(hist) < profileLearnMin THEN {}
        ELSE {a \in {"connection_rate_spike", "novel_destinations",
                     "byte_rate_spike", "dest_set_overflow"} :
                CASE a = "connection_rate_spike" ->
                        ScoreIsHigh(cur.connections, hist, "connections")
                  [] a = "novel_destinations" -> NovelDests(ws) # {}
                  [] a = "byte_rate_spike" -> ScoreIsHigh(cur.bytesTx, hist, "bytesTx")
                  [] a = "dest_set_overflow" -> cur.overflow > 0}
=============================================================================
