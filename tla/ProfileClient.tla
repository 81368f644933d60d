---------------------------- MODULE ProfileClient ----------------------------
(***************************************************************************)
(* The profile tracker under arbitrary callers.  Observe is called outside *)
(* the session map's lock by the handlers of several streams, with the     *)
(* timestamps of their nodes: calls of one identity come in any order of   *)
(* time.                                                                   *)
(***************************************************************************)
EXTENDS ProfileTracker

CONSTANTS
    EventTimes,      \* timestamps events may carry
    ByteCounts,      \* bytes an event may report
    MaxConnections   \* bound: events counted in one window

ASSUME ProfileClientAssumption ==
    /\ EventTimes \subseteq Nat
    /\ ByteCounts \subseteq Nat

Init == ProfileInit

(* One call of Observe, unless the window it falls in is at the bound *)
Call(id, dest, tx, at) ==
    /\ (windows[id] # <<>> /\ Covers(Newest(windows[id]), at))
          => Newest(windows[id]).connections < MaxConnections
    /\ Observe(id, dest, tx, at)

Next ==
    \E id \in Identities, dest \in Dests \cup {NoDest}, tx \in ByteCounts, at \in EventTimes :
        Call(id, dest, tx, at)

Spec == Init /\ [][Next]_windows

-----------------------------------------------------------------------------
TypeOK == windows \in [Identities -> Seq(Windows)]

(* The bounds RT-009 and the hour of history promise: at most              *)
(* profileWindowMax windows, at most profileDestSetMax destinations in     *)
(* each, and an overflow is counted only in a window whose destination set *)
(* is full (profile.go:110-114, 178-180).                                  *)
ProfileBounded ==
    \A id \in Identities :
        /\ Len(windows[id]) <= profileWindowMax
        /\ \A i \in 1..Len(windows[id]) :
             LET w == windows[id][i]
             IN  /\ Cardinality(w.dests) <= profileDestSetMax
                 /\ w.overflow > 0 => Cardinality(w.dests) = profileDestSetMax

(* RT-008, baseline immutability (profile.go:89-92): once profileLearnMin  *)
(* windows exist, a call leaves every window but the newest as it is, and  *)
(* a window it adds is later than the newest; the oldest leaves only when  *)
(* all profileWindowMax places are taken.                                  *)
BaselineImmutable ==
    [][\A id \in Identities :
          Len(windows[id]) >= profileLearnMin =>
            LET old   == windows[id]
                new   == windows'[id]
                shift == IF Len(old) = profileWindowMax THEN 1 ELSE 0
            IN  \/ /\ Len(new) = Len(old)
                   /\ Newest(new).start = Newest(old).start
                   /\ \A i \in 1 .. Len(old) - 1 : new[i] = old[i]
                \/ /\ Len(new) = Len(old) - shift + 1
                   /\ Newest(new).start > Newest(old).start
                   /\ \A i \in 1 .. Len(new) - 1 : new[i] = old[i + shift]]_windows

(* From the window at which the baseline is established on, windows are    *)
(* in strict order of time, whatever the order of the events before it.    *)
OrderedOnceLearned ==
    \A id \in Identities :
        \A i, j \in profileLearnMin .. Len(windows[id]) :
            i < j => windows[id][i].start < windows[id][j].start

(* No false alarm: a window that repeats exactly what every historical     *)
(* window counted, and lost no destination, raises no anomaly              *)
(* (profile.go:211-310).                                                   *)
SteadyTrafficIsQuiet ==
    \A id \in Identities :
        LET ws  == windows[id]
            cur == Newest(ws)
        IN  (/\ ws # <<>>
             /\ cur.overflow = 0
             /\ \A i \in 1..Len(ws) : /\ ws[i].connections = cur.connections
                                      /\ ws[i].bytesTx = cur.bytesTx
                                      /\ ws[i].dests = cur.dests)
                => Anomalies(ws) = {}
=============================================================================
