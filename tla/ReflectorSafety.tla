--------------------------- MODULE ReflectorSafety ---------------------------
(* Properties of the reflector's event loops and of enforcement            *)
EXTENDS Reflector

(* Types: rings, deny map and channel within their capacities, and the     *)
(* state of every loop.                                                    *)
ReflectorTypeOK ==
    /\ alive \subseteq Processes
    /\ tcp \in [Conns -> {"CLOSED", "SYN_SENT", "ESTABLISHED", "FINISHED"}]
    /\ Cardinality(denyMap) <= MaxDeny
    /\ \A r \in Rings : Len(ring[r]) <= RingCap
    /\ \A r \in Rings :
         /\ loop[r].at \in {"idle", "forward", "offer", "evaluate", "enforce", "deny", "ended"}
         /\ loop[r].at \in {"forward", "offer"} <=> loop[r].outbox # <<>>
         /\ loop[r].at = "deny" <=> loop[r].todo # {}
    /\ Len(events) <= ChannelCap
    /\ parsed \subseteq Processes \X Buffers

(* The policy decides about an ID, and does not say that it is allowed.    *)
Refused(id, pid) == Value(id, pid).object /\ Value(id, pid).allow # "true"

(* A process that parsed a certificate the policy refuses                  *)
Denied(p) ==
    \E b \in Buffers :
        <<p, b>> \in parsed /\ SPIFFEID[b] # None /\ Refused(SPIFFEID[b], PID[p])

(* The process itself, or a later one that was given its PID               *)
Inherits(q, p) == PID[q] = PID[p] /\ 0 < born[p] /\ born[p] <= born[q]

(* A connection that has been one of the process's network namespace       *)
Reachable(p, c) == Sock[c].ns = NetNS[p] /\ tcp[c] \in {"ESTABLISHED", "FINISHED"}

(* Nobody is blamed without cause (main.go:417-437): a violation in the    *)
(* channel has the PID of a process that parsed a certificate the policy   *)
(* refuses, whatever the query fails to return, and a flow in the deny map *)
(* is a connection of the namespace of such a process, or of one that was  *)
(* given its PID before enforceTC looked the connections up.               *)
BlameHasCause ==
    /\ \A i \in DOMAIN events :
         events[i].kind = "POLICY_VIOLATION" =>
            \E p \in Processes : PID[p] = events[i].pid /\ Denied(p)
    /\ \A key \in denyMap :
         \E p, q \in Processes, c \in Conns :
            /\ Denied(p)
            /\ Inherits(q, p)
            /\ Reachable(q, c)
            /\ key = makeFlowKey(TCPConn(c))

(* What reaches the collector is a whole export: a body whose request      *)
(* states its length is posted with no byte of it missing, although the    *)
(* hook cuts every call at its capture limit and a gRPC body is cut out of *)
(* its frame (otlp.go:84-120, forward/otlp.go:41-49).                      *)
PostedIsWhole ==
    \A p \in posted :
        LET msg == Plaintext[p.buf]
        IN  msg.length > 0 =>
               IF msg.path = "grpc" THEN p.raw = [start |-> GRPCPrefix, bytes |-> msg.frame]
               ELSE p.raw.start = 0 /\ p.raw.bytes >= msg.length

(* A loop never waits for the sender (main.go:153, "drop rather than block *)
(* the eBPF read loop"): once the node falls silent everything the probes  *)
(* submitted has been read and dealt with, even if nothing is ever taken   *)
(* from the channel, or the reflector is being stopped.                    *)
CaughtUp(r) == loop[r].at = "ended" \/ (loop[r].at = "idle" /\ ring[r] = <<>>)

LoopsKeepUp == []<>(ctx = "cancelled" \/ \A r \in Rings : CaughtUp(r))

(* Every loop returns once the context is cancelled (main.go:126, 290,     *)
(* 390): a loop that took the closed reader for a passing error would spin.*)
LoopsStop == (ctx = "cancelled") ~> (\A r \in Rings : loop[r].at = "ended")

-----------------------------------------------------------------------------
(* What the repository says and the code does not do                       *)

(* tc_loader.go:84: once DenyFlow has inserted a flow, "Subsequent packets *)
(* matching {srcIP, dstIP, dstPort/TCP} will be dropped by the TC          *)
(* classifier."                                                            *)
DeniedFlowIsDropped ==
    \A c \in Conns :
        makeFlowKey(TCPConn(c)) \in denyMap =>
            check_and_drop(PacketOf(c, "egress")) = "TC_ACT_SHOT"

=============================================================================
