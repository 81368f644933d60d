----------------------------- MODULE EventStream -----------------------------
(***************************************************************************)
(* The stream of events from one reflector to the sidecar: the bounded     *)
(* channel the event loops write to (cmd/reflector/main.go), the sender    *)
(* that drains it and reconnects (runStreamSender, stream.Client), and the *)
(* sidecar's StreamEvents with its token bucket, one goroutine per stream  *)
(* (stream.Server).                                                        *)
(*                                                                         *)
(* gRPC is external: a stream is a first-in-first-out wire with flow       *)
(* control that may break at any time.  The sender learns of a break from  *)
(* a failing Send only; until then its messages vanish.  The goroutine of  *)
(* a broken stream may still receive what had arrived, also while its      *)
(* successor is already running.                                           *)
(*                                                                         *)
(* Events are numbered in the order in which the loops produce them, and   *)
(* STREAM_RESUMED is 0.  The unit of time is a Second-th of a second and   *)
(* tokens are counted in Second-ths, so that a refill is a whole number.   *)
(***************************************************************************)
EXTENDS Integers, Sequences, FiniteSets

CONSTANTS
    QueueCap,     \* capacity of the events channel
    WireCap,      \* messages gRPC accepts before Send blocks
    maxBackoff,   \* longest wait before a new attempt, in seconds
    rateLimit,    \* tokens per second and stream; 0 disables the bucket
    Second,       \* units of time in a second
    MaxEvents,    \* bound: events produced
    MaxFaults,    \* bound: streams that break and attempts that fail
    MaxTime       \* bound: the last instant of the clock

ASSUME StreamAssumption ==
    /\ QueueCap \in Nat \ {0} /\ WireCap \in Nat \ {0}
    /\ maxBackoff \in Nat \ {0}
    /\ rateLimit \in Nat
    /\ Second \in Nat \ {0}
    /\ MaxEvents \in Nat /\ MaxFaults \in Nat /\ MaxTime \in Nat

RESUMED == 0
Events == 1 .. MaxEvents
Messages == Events \cup {RESUMED}

(* A stream ends by a fault or by the refusal of an event, so there are no *)
(* more than these.                                                        *)
StreamIds == 1 .. MaxFaults + MaxEvents + 1

VARIABLES
    queue,      \* the events channel
    sender,     \* where runStreamSender is
    backoff,    \* its local variable, in seconds
    current,    \* the client's stream, 0 before the first one
    streams,    \* what is known of each stream on both sides
    applied,    \* per stream: messages the sidecar's handler was called with
    accepted,   \* events that entered the channel
    produced,   \* events produced so far
    faults,     \* faults so far
    clock

streamVars == <<queue, sender, backoff, current, streams, applied, accepted, produced, faults, clock>>

(* handler is the goroutine of StreamEvents: not started, in Recv, in the  *)
(* event handler with the message held, or returned.  start and taken      *)
(* record when its bucket was made and how many messages it let through.   *)
Unopened ==
    [up |-> FALSE, wire |-> <<>>, handler |-> "none", held |-> RESUMED,
     tokens |-> 0, lastFill |-> 0, start |-> 0, taken |-> 0]

StreamInit ==
    /\ queue = <<>>
    /\ sender = "connect"
    /\ backoff = 1
    /\ current = 0
    /\ streams = [s \in StreamIds |-> Unopened]
    /\ applied = [s \in StreamIds |-> <<>>]
    /\ accepted = {}
    /\ produced = 0
    /\ faults = 0
    /\ clock = 0

-----------------------------------------------------------------------------
(* The event loops: a non-blocking send on the channel *)

(* Variant with a defect: a full channel gives up its oldest event *)
EnqueueDropOldest(q, e) == Append(IF Len(q) < QueueCap THEN q ELSE Tail(q), e)

Enqueue(q, e) == IF Len(q) < QueueCap THEN Append(q, e) ELSE q

Produce ==
    /\ produced < MaxEvents
    /\ produced' = produced + 1
    /\ queue' = Enqueue(queue, produced + 1)
    /\ accepted' = IF queue' = queue THEN accepted ELSE accepted \cup {produced + 1}
    /\ UNCHANGED <<sender, backoff, current, streams, applied, faults, clock>>

-----------------------------------------------------------------------------
(* runStreamSender *)

Smaller(a, b) == IF a < b THEN a ELSE b

Doubled == Smaller(2 * backoff, maxBackoff)

(* Variant with a defect: the sentinel is left out *)
AfterConnectUnmarked == "send"

AfterConnect == "resume"

Connect ==
    /\ sender = "connect"
    /\ current + 1 \in StreamIds
    /\ current' = current + 1
    /\ streams' = [streams EXCEPT ![current + 1] = [Unopened EXCEPT !.up = TRUE]]
    /\ sender' = AfterConnect
    /\ backoff' = 1
    /\ UNCHANGED <<queue, applied, accepted, produced, faults, clock>>

ConnectFails ==
    /\ sender = "connect"
    /\ faults < MaxFaults
    /\ faults' = faults + 1
    /\ sender' = "wait"
    /\ UNCHANGED <<queue, backoff, current, streams, applied, accepted, produced, clock>>

(* Variant with a defect: the sender gives up after a failure *)
WaitForEver == sender = "wait" /\ UNCHANGED streamVars

(* time.After(backoff), after a failed attempt or a failed Send *)
Wait ==
    /\ sender = "wait"
    /\ sender' = "connect"
    /\ backoff' = Doubled
    /\ UNCHANGED <<queue, current, streams, applied, accepted, produced, faults, clock>>

Live == streams[current]
Accepts == ~Live.up \/ Len(Live.wire) < WireCap
Sent(m) == IF Live.up THEN [streams EXCEPT ![current].wire = Append(@, m)] ELSE streams

(* SendResumed: its error is ignored *)
SendResumed ==
    /\ sender = "resume"
    /\ Accepts
    /\ streams' = Sent(RESUMED)
    /\ sender' = "send"
    /\ UNCHANGED <<queue, backoff, current, applied, accepted, produced, faults, clock>>

(* Variant with a defect: the event is looked at and stays in the channel *)
TakenPeek(q) == q

Taken(q) == Tail(q)

Send ==
    /\ sender = "send"
    /\ queue # <<>>
    /\ Accepts
    /\ streams' = Sent(Head(queue))
    /\ queue' = Taken(queue)
    /\ UNCHANGED <<sender, backoff, current, applied, accepted, produced, faults, clock>>

(* Send returns an error: the event in hand is dropped, the client closed *)
SendFails ==
    /\ sender = "send"
    /\ queue # <<>>
    /\ ~Live.up
    /\ queue' = Taken(queue)
    /\ sender' = "wait"
    /\ UNCHANGED <<backoff, current, streams, applied, accepted, produced, faults, clock>>

(* What is left of a wire when a stream breaks: a prefix *)
Cut(s, n) == [streams EXCEPT ![s].up = FALSE, ![s].wire = SubSeq(@, 1, n)]

(* ctx.Done in any of the selects, and before an attempt; in the send loop *)
(* the client is closed first                                              *)
Shutdown ==
    /\ sender \in {"connect", "wait", "send"}
    /\ sender' = "stopped"
    /\ IF sender = "send"
       THEN \E n \in 0 .. Len(Live.wire) : streams' = Cut(current, n)
       ELSE UNCHANGED streams
    /\ UNCHANGED <<queue, backoff, current, applied, accepted, produced, faults, clock>>

-----------------------------------------------------------------------------
(* The network and the clock *)

Break(s) ==
    /\ streams[s].up
    /\ faults < MaxFaults
    /\ faults' = faults + 1
    /\ \E n \in 0 .. Len(streams[s].wire) : streams' = Cut(s, n)
    /\ UNCHANGED <<queue, sender, backoff, current, applied, accepted, produced, clock>>

Tick ==
    /\ clock < MaxTime
    /\ clock' = clock + 1
    /\ UNCHANGED <<queue, sender, backoff, current, streams, applied, accepted, produced, faults>>

-----------------------------------------------------------------------------
(* StreamEvents *)

(* Variant with a defect: a new bucket is filled to its burst cap *)
FirstFillingBurst == 2 * rateLimit * Second

FirstFilling == rateLimit * Second

(* The goroutine of an opened stream starts, with newTokenBucket.  A       *)
(* stream that broke before it reached the sidecar is one whose goroutine  *)
(* receives nothing.                                                       *)
Start(s) ==
    /\ s <= current
    /\ streams[s].handler = "none"
    /\ streams' = [streams EXCEPT ![s].handler = "recv", ![s].tokens = FirstFilling,
                                  ![s].lastFill = clock, ![s].start = clock, ![s].taken = 0]
    /\ UNCHANGED <<queue, sender, backoff, current, applied, accepted, produced, faults, clock>>

(* Allow: the bucket after its refill *)
Refilled(st) == Smaller(2 * rateLimit * Second, st.tokens + (clock - st.lastFill) * rateLimit)
Allow(st) == rateLimit = 0 \/ Refilled(st) >= Second

Charged(st) ==
    [st EXCEPT !.tokens = Refilled(st) - Second, !.lastFill = clock, !.taken = @ + 1]

(* Variant with a defect: the event is skipped and the stream goes on *)
RefusedSkips(st) == [st EXCEPT !.wire = Tail(@)]

(* ResourceExhausted: StreamEvents returns and gRPC ends the stream *)
Refused(st) == [st EXCEPT !.handler = "done", !.up = FALSE, !.wire = <<>>]

Recv(s) ==
    /\ streams[s].handler = "recv"
    /\ streams[s].wire # <<>>
    /\ LET st  == streams[s]
           got == [st EXCEPT !.wire = Tail(@), !.held = Head(st.wire), !.handler = "handle"]
       IN  streams' = [streams EXCEPT ![s] =
                          IF ~Allow(st) THEN Refused(st)
                          ELSE IF rateLimit = 0 THEN got ELSE Charged(got)]
    /\ UNCHANGED <<queue, sender, backoff, current, applied, accepted, produced, faults, clock>>

(* The event handler is called with the message *)
Handle(s) ==
    /\ streams[s].handler = "handle"
    /\ applied' = [applied EXCEPT ![s] = Append(@, streams[s].held)]
    /\ streams' = [streams EXCEPT ![s].handler = "recv", ![s].held = RESUMED]
    /\ UNCHANGED <<queue, sender, backoff, current, accepted, produced, faults, clock>>

(* Recv returns EOF or an error: what had arrived may be lost with it *)
RecvFails(s) ==
    /\ streams[s].handler = "recv"
    /\ ~streams[s].up
    /\ streams' = [streams EXCEPT ![s].handler = "done", ![s].wire = <<>>]
    /\ UNCHANGED <<queue, sender, backoff, current, applied, accepted, produced, faults, clock>>

-----------------------------------------------------------------------------
Sender == Connect \/ ConnectFails \/ Wait \/ SendResumed \/ Send \/ SendFails
StreamEvents(s) == Start(s) \/ Recv(s) \/ Handle(s) \/ RecvFails(s)

StreamNext ==
    \/ Produce \/ Sender \/ Shutdown \/ Tick
    \/ \E s \in StreamIds : StreamEvents(s) \/ Break(s)

StreamSpec == StreamInit /\ [][StreamNext]_streamVars

(* The goroutines of the sender and of every stream are scheduled *)
FairStreamSpec ==
    /\ StreamSpec
    /\ WF_streamVars(Sender)
    /\ \A s \in StreamIds : WF_streamVars(StreamEvents(s))

=============================================================================
