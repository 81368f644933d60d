---------------------------- MODULE StreamSafety ----------------------------
(* What the event stream promises *)
EXTENDS EventStream

StreamRecords ==
    [up : BOOLEAN, wire : Seq(Messages), handler : {"none", "recv", "handle", "done"},
     held : Messages, tokens : Nat, lastFill : Nat, start : Nat, taken : Nat]

StreamTypeOK ==
    /\ queue \in Seq(Events) /\ Len(queue) <= QueueCap
    /\ sender \in {"connect", "wait", "resume", "send", "stopped"}
    /\ backoff \in 1 .. maxBackoff
    /\ current \in StreamIds \cup {0}
    /\ streams \in [StreamIds -> StreamRecords]
    /\ applied \in [StreamIds -> Seq(Messages)]
    /\ accepted \subseteq Events
    /\ produced \in 0 .. MaxEvents
    /\ faults \in 0 .. MaxFaults
    /\ clock \in 0 .. MaxTime

Entries(q) == {q[i] : i \in 1 .. Len(q)}

(* Events on their way: in the channel, on a wire or in a handler's hands *)
InHand == {streams[s].held : s \in {t \in StreamIds : streams[t].handler = "handle"}} \ {RESUMED}
OnWires == (UNION {Entries(streams[s].wire) : s \in StreamIds}) \ {RESUMED}
InFlight == Entries(queue) \cup OnWires \cup InHand

Deliveries(e) == {si \in StreamIds \X Events : /\ si[2] + 1 <= Len(applied[si[1]])
                                              /\ applied[si[1]][si[2] + 1] = e}
Delivered == {e \in Events : Deliveries(e) # {}}

(* A gap can be seen: whatever a stream hands to the sidecar's handler     *)
(* comes after its STREAM_RESUMED, and there is one of them only, although *)
(* the sender ignores the error of SendResumed (main.go:256).              *)
ResumedComesFirst ==
    \A s \in StreamIds : \A i \in 1 .. Len(applied[s]) :
        applied[s][i] = RESUMED <=> i = 1

(* There is no other gap: an event that follows another one on the same    *)
(* stream is the next one that entered the channel, so no event is missing *)
(* between them without a STREAM_RESUMED (server.go:70-91).                *)
NoSilentGap ==
    \A s \in StreamIds : \A i \in 2 .. Len(applied[s]) - 1 :
        /\ applied[s][i] < applied[s][i + 1]
        /\ \A e \in accepted : ~(applied[s][i] < e /\ e < applied[s][i + 1])

(* RT-004: since it started, a stream has passed on no more messages than  *)
(* its bucket held at first plus what the time since then has refilled     *)
(* (server.go:131-143).                                                    *)
RateBudget ==
    rateLimit > 0 =>
        \A s \in StreamIds :
            streams[s].taken * Second
                <= rateLimit * (Second + (clock - streams[s].start))

(* Events that entered the channel are lost only with a stream: while the  *)
(* sender runs and every stream it opened is up, each one is on its way or *)
(* was delivered (main.go:258-270).                                        *)
LossNeedsFault ==
    (sender # "stopped" /\ \A s \in 1 .. current : streams[s].up)
        => accepted \subseteq InFlight \cup Delivered

(* The stream implements the lossy feed: no event reaches the sidecar's    *)
(* handler twice, and none that was given up comes back.                   *)
Feed == INSTANCE LossyFeed WITH
            offered    <- accepted,
            deliveries <- [e \in Events |-> Cardinality(Deliveries(e))],
            lost       <- accepted \ (InFlight \cup Delivered)

ImplementsFeed == Feed!FeedSpec

(* Every event is settled: unless the reflector shuts down, an event in    *)
(* the channel, on a wire or in a handler's hands gets delivered or is     *)
(* lost; none stays where it is for ever (main.go:258-279,                 *)
(* server.go:70-91).                                                       *)
EventsSettle ==
    \A e \in Events : (e \in InFlight) ~> (e \notin InFlight \/ sender = "stopped")
=============================================================================
