------------------------------- MODULE Sidecar -------------------------------
(***************************************************************************)
(* The reflector-map process (cmd/reflector-map/main.go): every stream's   *)
(* goroutine calls an event handler that feeds the session map and then    *)
(* exports its statistics as two gauges, and a ticker sweeps the map and   *)
(* exports them too.  GetStats holds the map's lock, the two Set calls do  *)
(* not: a goroutine may export numbers that are already out of date.       *)
(*                                                                         *)
(* On a signal the sweeper stops, GracefulStop waits for every stream to   *)
(* end, and the HTTP servers get five seconds to finish their requests.    *)
(* Streams end when the reflector closes them or the transport breaks;     *)
(* reflectors, their transport and the HTTP clients are external.          *)
(***************************************************************************)
EXTENDS SessionSafety

CONSTANTS
    Sweeper,      \* the goroutine of the sweep ticker
    FirstSignal   \* bound: no signal before this instant

ASSUME SidecarAssumption ==
    /\ Sweeper \notin Handlers
    /\ FirstSignal \in 0 .. MaxTime

VARIABLES
    report,             \* per goroutine: how far its export is
    gaugeActive,        \* SessionMapActiveConnections
    gaugeIdentities,    \* SessionMapIdentitiesActive
    streams,            \* per handler: its stream
    ctx,                \* the context that a signal cancels
    life,               \* how far main is
    request             \* an HTTP request has to be answered before the end

reportVars == <<report, gaugeActive, gaugeIdentities>>
processVars == <<streams, ctx, life, request>>
sidecarVars == <<sessionVars, reportVars, processVars>>

Reporters == Handlers \cup {Sweeper}
NoReport == [pc |-> "none", active |-> 0, identities |-> 0]
ReportDue == [NoReport EXCEPT !.pc = "stats"]
Stopped == [NoReport EXCEPT !.pc = "stopped"]

NothingReported ==
    /\ report = [p \in Reporters |-> NoReport]
    /\ gaugeActive = 0
    /\ gaugeIdentities = 0

(* The sweeper runs; the gRPC and HTTP servers do not yet.                 *)
NothingServed ==
    /\ streams = [h \in Handlers |-> "none"]
    /\ ctx = "running"
    /\ life = "starting"
    /\ request = FALSE

SidecarInit == SessionInit /\ NothingReported /\ NothingServed

Alive == life # "exited"

-----------------------------------------------------------------------------
(* The goroutines of the streams and of the sweep ticker                   *)

(* A goroutine that has handled its event goes on to the statistics.  If   *)
(* the process crashes the new one starts with nothing.                    *)
HandlerStep(h) ==
    /\ Alive
    /\ streams[h] = "open" \/ hand[h].pc # "idle"
    /\ report[h].pc = "none"
    /\ HandleEvent(h)
    /\ IF Restarted
       THEN NothingReported' /\ NothingServed'
       ELSE /\ report' = IF hand'[h].pc = "idle" THEN [report EXCEPT ![h] = ReportDue] ELSE report
            /\ UNCHANGED <<gaugeActive, gaugeIdentities, processVars>>

(* Variant with a defect: a sweep does not export the statistics *)
AfterSweepSilent == NoReport

AfterSweep == ReportDue

(* select may choose a tick over a cancelled context *)
SweeperStep ==
    /\ Alive
    /\ report[Sweeper].pc = "none"
    /\ Sweep
    /\ report' = [report EXCEPT ![Sweeper] = AfterSweep]
    /\ UNCHANGED <<gaugeActive, gaugeIdentities, processVars>>

SweeperStops ==
    /\ Alive
    /\ ctx = "cancelled"
    /\ report[Sweeper].pc = "none"
    /\ report' = [report EXCEPT ![Sweeper] = Stopped]
    /\ UNCHANGED <<sessionVars, gaugeActive, gaugeIdentities, processVars>>

ReadStats(p) ==
    /\ report[p].pc = "stats"
    /\ report' = [report EXCEPT ![p] = [pc |-> "active", active |-> GetStats.active,
                                        identities |-> GetStats.identities]]
    /\ UNCHANGED <<sessionVars, gaugeActive, gaugeIdentities, processVars>>

SetActive(p) ==
    /\ report[p].pc = "active"
    /\ gaugeActive' = report[p].active
    /\ report' = [report EXCEPT ![p].pc = "identities"]
    /\ UNCHANGED <<sessionVars, gaugeIdentities, processVars>>

SetIdentities(p) ==
    /\ report[p].pc = "identities"
    /\ gaugeIdentities' = report[p].identities
    /\ report' = [report EXCEPT ![p] = NoReport]
    /\ UNCHANGED <<sessionVars, gaugeActive, processVars>>

Export(p) == Alive /\ (ReadStats(p) \/ SetActive(p) \/ SetIdentities(p))
TimePasses == Alive /\ Tick /\ UNCHANGED <<reportVars, processVars>>

-----------------------------------------------------------------------------
(* Streams come and go                                                     *)

Between(h) == hand[h].pc = "idle" /\ report[h].pc = "none"

(* The reflector closes the stream, or the transport breaks.  A handler    *)
(* that waits in Recv sees it at once.  Before a signal the reflector is   *)
(* back with a new stream soon.                                            *)
Disconnect(h) ==
    /\ life = "draining"
    /\ streams[h] = "open"
    /\ streams' = [streams EXCEPT ![h] = IF Between(h) THEN "none" ELSE "broken"]
    /\ UNCHANGED <<sessionVars, reportVars, ctx, life, request>>

(* One that was handling an event calls Recv again, and StreamEvents       *)
(* returns.  (EventStream has what is still buffered, and the limiter.)    *)
StreamReturns(h) ==
    /\ Alive
    /\ streams[h] = "broken"
    /\ Between(h)
    /\ streams' = [streams EXCEPT ![h] = "none"]
    /\ UNCHANGED <<sessionVars, reportVars, ctx, life, request>>

-----------------------------------------------------------------------------
(* main *)

Advance(from, to) ==
    /\ life = from
    /\ life' = to
    /\ UNCHANGED <<sessionVars, reportVars, ctx>>

(* The listener and the credentials are set up, or the process exits.  The *)
(* reflectors that were waiting connect, one for each handler; they do not *)
(* come back (EventStream has the reconnects).                             *)
Serve ==
    /\ Advance("starting", "serving")
    /\ streams' = [h \in Handlers |-> "open"]
    /\ UNCHANGED request

StartFails == Advance("starting", "exited") /\ UNCHANGED <<streams, request>>

(* SIGINT or SIGTERM; NotifyContext swallows every further one.            *)
Signal ==
    /\ Alive
    /\ ctx = "running"
    /\ clock >= FirstSignal
    /\ ctx' = "cancelled"
    /\ UNCHANGED <<sessionVars, reportVars, streams, life, request>>

(* GracefulStop accepts no new streams ...                                 *)
BeginStop == ctx = "cancelled" /\ Advance("serving", "draining") /\ UNCHANGED <<streams, request>>

(* Variant with a defect: Stop, which does not wait                        *)
StreamsEndedAtOnce == TRUE

(* ... and returns when the handlers of all streams have.  The HTTP server *)
(* may be answering a request then.                                        *)
StreamsEnded == \A h \in Handlers : streams[h] = "none"

StopReturns ==
    /\ StreamsEnded
    /\ Advance("draining", "closing")
    /\ request' \in BOOLEAN
    /\ UNCHANGED streams

RequestEnds ==
    /\ life = "closing"
    /\ request
    /\ request' = FALSE
    /\ UNCHANGED <<sessionVars, reportVars, streams, ctx, life>>

(* The deadline of shutdownCtx                                             *)
DeadlinePasses == Advance("closing", "late") /\ UNCHANGED <<streams, request>>

(* Variant with a defect: a context without a deadline                     *)
ShutdownDoneUnbounded == life = "closing" /\ ~request

(* httpServer.Shutdown returns when its requests are answered or when the  *)
(* deadline has passed.                                                    *)
ShutdownDone == life = "late" \/ (life = "closing" /\ ~request)

(* The final statistics are printed and main returns.                      *)
MainReturns == ShutdownDone /\ Advance(life, "exited") /\ UNCHANGED <<streams, request>>

Main == Serve \/ BeginStop \/ StopReturns \/ DeadlinePasses \/ MainReturns

SidecarNext ==
    \/ \E h \in Handlers :
         HandlerStep(h) \/ Disconnect(h) \/ StreamReturns(h)
    \/ \E p \in Reporters : Export(p)
    \/ SweeperStep \/ SweeperStops
    \/ TimePasses
    \/ Main \/ StartFails \/ Signal \/ RequestEnds

(* Time passes, the ticker fires, main and a goroutine that is in the      *)
(* middle of an event go on, and a broken stream is noticed.  Nothing is   *)
(* assumed about the arrival of events, about reflectors closing their     *)
(* streams, about the end of a request or about signals.                   *)
SidecarSpec ==
    /\ SidecarInit
    /\ [][SidecarNext]_sidecarVars
    /\ WF_sidecarVars(TimePasses)
    /\ WF_sidecarVars(SweeperStep)
    /\ WF_sidecarVars(Main)
    /\ \A p \in Reporters : WF_sidecarVars(Export(p))
    /\ \A h \in Handlers :
          /\ WF_sidecarVars(hand[h].pc # "idle" /\ HandlerStep(h))
          /\ WF_sidecarVars(StreamReturns(h))

-----------------------------------------------------------------------------
Cancelled == ctx = "cancelled"

(* Nothing dead stays: a closed entry that is not touched again leaves     *)
(* after staleTTL and a stale one after twice that, as long as the clock   *)
(* gets there (map.go:426-433) and no signal has stopped the sweeper: one  *)
(* does so before the streams have ended (reflector-map/main.go:82).       *)
DeadEntriesAreSwept ==
    \A k \in ConnKeys, t \in {u \in Times : u + 2 * staleTTL < MaxTime} :
        LET deadSince == /\ k \in Present
                         /\ EntryAt(k).status \in {"closed", "stale"}
                         /\ EntryAt(k).last = t
        IN  deadSince ~> (~deadSince \/ Cancelled \/ ~Alive)

(* The gauges settle on the truth: goroutines overtake one another between *)
(* GetStats and Set, and leave a gauge with an old number, but once events *)
(* stop the gauges come to show the map's statistics and stay there, until *)
(* a signal stops the sweeper (reflector-map/main.go:66-68, 79-81).        *)
GaugesSettle ==
    \/ <>(Cancelled \/ ~Alive)
    \/ <>[](gaugeActive = GetStats.active /\ gaugeIdentities = GetStats.identities)

(* The final statistics are those of everything the sidecar took in: when  *)
(* the process ends no handler is between two halves of an event           *)
(* (reflector-map/main.go:163-170).                                        *)
FinalStatsAreComplete ==
    life = "exited" => \A h \in Handlers : Between(h)

(* The sidecar stops once the reflectors have let go of their streams,     *)
(* whatever events are still being handled and whether or not an HTTP      *)
(* client ever finishes its request (reflector-map/main.go:163-167).       *)
StopsOnceStreamsEnd ==
    (life = "draining" /\ \A h \in Handlers : streams[h] # "open") ~> ~Alive
=============================================================================
