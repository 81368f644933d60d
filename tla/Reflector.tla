----------------------------- MODULE Reflector -----------------------------
(***************************************************************************)
(* The reflector process (cmd/reflector/main.go): three loops read the     *)
(* ring buffers of the probes, extract identities and offer events to the  *)
(* sender's channel without waiting.  The TLS loop also posts whole OTLP   *)
(* bodies to a collector.  The certificate loop asks the policy about      *)
(* every SPIFFE ID and has the connections of a denied process inserted    *)
(* into the deny map.                                                      *)
(*                                                                         *)
(* The certificate and TLS hooks are module Probes, the sender is module   *)
(* EventStream: here the hooks submit any captured call, and the sender    *)
(* takes an event from the channel now and then, or never.                 *)
(***************************************************************************)
EXTENDS Enforcement, Extract

CONSTANTS
    Buffers,         \* what captured buffers hold
    None,            \* nil
    RingCap,         \* events a ring buffer holds
    Records,         \* plaintext the hooks may capture: pid, buf, len, orig
    Certificates,    \* certificates the hooks may capture, likewise
    MaxRecords,      \* bound: captured calls
    Plaintext,       \* [Buffers -> messages, see Extract]
    Forwarding,      \* an endpoint to forward OTLP to is configured
    SPIFFEID,        \* [Buffers -> the SPIFFE ID of a certificate, or None]
    TrustDomain,     \* [SPIFFE IDs -> what stands between spiffe:// and the path]
    Pathless,        \* SPIFFE IDs that end after it
    trusted_domains, \* of default.rego
    CustomPolicy,    \* what a policy file makes of an ID and a PID; None: default.rego
    ChannelCap       \* capacity of the events channel

(* A request over gRPC that states its length counts the prefix.           *)
ASSUME ReflectorAssumption ==
    /\ DOMAIN Plaintext = Buffers
    /\ \A b \in Buffers :
         /\ DOMAIN Plaintext[b] = {"path", "line", "header", "length", "frame", "entries", "marks"}
         /\ Plaintext[b].path \in {"http", "grpc", "other"}
         /\ {Plaintext[b].header, Plaintext[b].length, Plaintext[b].frame} \subseteq Nat
         /\ Plaintext[b].line <= Plaintext[b].header
         /\ (Plaintext[b].path = "grpc" /\ Plaintext[b].length > 0) =>
               Plaintext[b].length >= GRPCPrefix
    /\ DOMAIN SPIFFEID = Buffers
    /\ Forwarding \in BOOLEAN
    /\ MaxRecords \in Nat
    /\ Records \cup Certificates \subseteq
          [pid : {PID[p] : p \in Processes}, buf : Buffers, len : Nat, orig : Nat]
    /\ {ChannelCap, RingCap} \subseteq Nat \ {0}

ASSUME PolicyAssumption ==
    CustomPolicy # None =>
        \A b \in Buffers, p \in Processes :
            SPIFFEID[b] # None =>
                CustomPolicy[SPIFFEID[b], PID[p]] \in
                    [object : BOOLEAN, allow : {"true", "false", "unset"}]

VARIABLES
    ring,     \* events, tls_events, cert_events
    ctx,      \* the context of main
    loop,     \* per ring: where its loop is
    events,   \* the channel to the sender
    posted,   \* what was posted to the collector: buffer and bytes
    parsed,   \* what each process handed to d2i_X509; no code keeps it
    records   \* captured calls so far

reflectorVars == <<enforceVars, ring, ctx, loop, events, posted, parsed, records>>

Rings == {"conn", "tls", "cert"}

(* at is "idle" in Read, "forward" while an OTLP body is posted, "offer"   *)
(* while events of outbox wait to be offered, then the steps of the        *)
(* certificate loop; todo are flows to be denied.                          *)
Idle == [at |-> "idle", outbox |-> <<>>, next |-> "idle", ev |-> None, todo |-> {}]

Ended == [Idle EXCEPT !.at = "ended"]

(* The kprobes are loaded, each of the hooks on OpenSSL may be missing.    *)
ReflectorInit ==
    /\ EnforcementInit
    /\ ring = [r \in Rings |-> <<>>]
    /\ ctx = "running"
    /\ \E failed \in SUBSET {"tls", "cert"} :
         loop = [r \in Rings |-> IF r \in failed THEN Ended ELSE Idle]
    /\ events = <<>>
    /\ posted = {}
    /\ parsed = {}
    /\ records = 0

loopVars == <<ctx, loop, events, posted>>

-----------------------------------------------------------------------------
(* The node: processes call OpenSSL and open and close connections.        *)

(* bpf_ringbuf_reserve, and a copy of the data that may fail               *)
Submit(r, e) ==
    \/ Len(ring[r]) < RingCap /\ ring' = [ring EXCEPT ![r] = Append(@, e)]
    \/ UNCHANGED ring

(* A call of a process that one of the hooks on OpenSSL captures           *)
Captured(p, r, e) ==
    /\ p \in alive
    /\ e.pid = PID[p]
    /\ records < MaxRecords
    /\ records' = records + 1
    /\ Submit(r, e)
    /\ parsed' = IF r = "cert" THEN parsed \cup {<<p, e.buf>>} ELSE parsed
    /\ UNCHANGED <<enforceVars, loopVars>>

(* The raw event of a connection: addresses of IPv6 sockets are zeroed.    *)
ZeroAddr == [i \in 1 .. 16 |-> 0]
RawEvent(c) ==
    [pid |-> PID[Sock[c].proc],
     src |-> IF Sock[c].family = "inet" THEN Sock[c].src ELSE ZeroAddr,
     dst |-> IF Sock[c].family = "inet" THEN Sock[c].dst ELSE ZeroAddr,
     dport |-> Sock[c].dport]

(* tcp_connect is probed before the connection is established,             *)
(* inet_csk_accept returns one that is.                                    *)
Connection(c) ==
    /\ tcp[c] = "CLOSED"
    /\ Sock[c].proc \in alive
    /\ tcp' = [tcp EXCEPT ![c] = IF Sock[c].role = "client" THEN "SYN_SENT" ELSE "ESTABLISHED"]
    /\ Submit("conn", RawEvent(c))
    /\ UNCHANGED <<procVars, denyMap, loopVars, parsed, records>>

Established(c) ==
    /\ tcp[c] = "SYN_SENT"
    /\ tcp' = [tcp EXCEPT ![c] = "ESTABLISHED"]
    /\ UNCHANGED <<procVars, ring, denyMap, loopVars, parsed, records>>

Finished(c) ==
    /\ tcp[c] = "ESTABLISHED"
    /\ tcp' = [tcp EXCEPT ![c] = "FINISHED"]
    /\ UNCHANGED <<procVars, ring, denyMap, loopVars, parsed, records>>

(* A PID is free again once its process has exited.                        *)
Start(p) ==
    /\ born[p] = 0
    /\ \A q \in alive : PID[q] # PID[p]
    /\ alive' = alive \cup {p}
    /\ born' = [born EXCEPT ![p] = starts + 1]
    /\ starts' = starts + 1
    /\ UNCHANGED <<tcp, ring, denyMap, loopVars, parsed, records>>

(* The kernel closes the sockets of a process that exits.                  *)
Exit(p) ==
    /\ p \in alive
    /\ alive' = alive \ {p}
    /\ tcp' = [c \in Conns |-> IF Sock[c].proc # p THEN tcp[c]
                               ELSE IF tcp[c] = "SYN_SENT" THEN "CLOSED"
                               ELSE IF tcp[c] = "ESTABLISHED" THEN "FINISHED" ELSE tcp[c]]
    /\ UNCHANGED <<born, starts, ring, denyMap, loopVars, parsed, records>>

Node ==
    \/ \E p \in Processes, e \in Records : Captured(p, "tls", e)
    \/ \E p \in Processes, e \in Certificates : Captured(p, "cert", e)
    \/ \E c \in Conns : Connection(c) \/ Established(c) \/ Finished(c)
    \/ \E p \in Processes : Start(p) \/ Exit(p)

-----------------------------------------------------------------------------
(* From raw events to events for the channel                               *)

Proto(kind, pid, id) == [kind |-> kind, pid |-> pid, id |-> id]

connectionEventToProto(e) == Proto("CONNECTION_OPEN", e.pid, <<e.src, e.dst>>)

(* What the extractors make of each record                                 *)
OTLPSignals == [e \in Records |-> ExtractOTLPFromTLS(Plaintext[e.buf], e.len)]

TLSEvents ==
    [e \in Records |->
        LET kinds == ExtractIdentitiesFromTLS(Plaintext[e.buf], e.len)
            id(k) == IF k = "OTLP" THEN OTLPSignals[e].service ELSE e.buf
        IN  [i \in DOMAIN kinds |-> Proto(kinds[i], e.pid, id(kinds[i]))]]

(* ParseSPIFFEFromDER: a certificate cut short does not parse.             *)
ParsedID(e) == IF e.len < e.orig THEN None ELSE SPIFFEID[e.buf]

Outbox(r, e) ==
    CASE r = "conn" -> <<connectionEventToProto(e)>>
      [] r = "tls"  -> TLSEvents[e]
      [] r = "cert" -> IF ParsedID(e) = None THEN <<>>
                       ELSE <<Proto("SPIFFE", e.pid, ParsedID(e))>>

(* Where a loop goes with the events it made of what it read               *)
WithEvents(r, e, out) ==
    [Idle EXCEPT !.at = IF Forwarding /\ r = "tls" /\ out[1].kind = "OTLP" THEN "forward" ELSE "offer",
                 !.outbox = out, !.ev = e,
                 !.next = IF r = "cert" THEN "evaluate" ELSE "idle"]

(* Variant with a defect: goes on with a certificate without a SPIFFE ID.  *)
AfterReadUnchecked(r, e) == WithEvents(r, e, Outbox(r, e))

(* An event without an identity is skipped.                                *)
AfterRead(r, e) ==
    LET out == Outbox(r, e) IN IF out = <<>> THEN Idle ELSE WithEvents(r, e, out)

Read(r) ==
    /\ loop[r].at = "idle"
    /\ ring[r] # <<>>
    /\ loop' = [loop EXCEPT ![r] = AfterRead(r, Head(ring[r]))]
    /\ ring' = [ring EXCEPT ![r] = Tail(@)]
    /\ UNCHANGED <<enforceVars, ctx, events, posted, parsed, records>>

(* Variant with a defect: a closed reader is an error like any other.      *)
AfterReadErrorRetry(r) == Idle

(* ctx.Err() is not nil, since readers are closed after cancellation only. *)
AfterReadError(r) == Ended

(* The goroutine that waits for the cancellation has closed the reader.    *)

ReadFails(r) ==
    /\ loop[r].at = "idle"
    /\ ctx = "cancelled"
    /\ loop' = [loop EXCEPT ![r] = AfterReadError(r)]
    /\ UNCHANGED <<enforceVars, ring, ctx, events, posted, parsed, records>>

(* Forward refuses a truncated signal and one without a body; the POST of  *)
(* any other arrives or does not, and returns within its timeout.  The     *)
(* loop waits for it.                                                      *)
Forward ==
    /\ loop["tls"].at = "forward"
    /\ LET e   == loop["tls"].ev
           sig == OTLPSignals[e]
       IN  \/ UNCHANGED posted
           \/ /\ ~sig.truncated
              /\ sig.raw.bytes > 0
              /\ posted' = posted \cup {[buf |-> e.buf, raw |-> sig.raw]}
    /\ loop' = [loop EXCEPT !["tls"].at = "offer"]
    /\ UNCHANGED <<enforceVars, ring, ctx, events, parsed, records>>

(* Variant with a defect: a plain send, which waits for room.              *)
MayOfferWhenRoom == Len(events) < ChannelCap

(* select with a default case                                              *)
MayOffer == TRUE

Offer(r) ==
    /\ loop[r].at = "offer"
    /\ MayOffer
    /\ events' = IF Len(events) < ChannelCap THEN Append(events, Head(loop[r].outbox)) ELSE events
    /\ loop' = [loop EXCEPT ![r] =
                  IF Len(@.outbox) > 1 THEN [@ EXCEPT !.outbox = Tail(loop[r].outbox)]
                  ELSE IF @.next = "idle" THEN Idle
                  ELSE [@ EXCEPT !.outbox = <<>>, !.at = loop[r].next]]
    /\ UNCHANGED <<enforceVars, ring, ctx, posted, parsed, records>>

-----------------------------------------------------------------------------
(* Policy and enforcement                                                  *)

(* default.rego: an ID is trusted if "spiffe://<domain>/" is its prefix.   *)
any_trusted(id) == TrustDomain[id] \in trusted_domains /\ id \notin Pathless

(* The rules that fire                                                     *)
deny(id) == IF any_trusted(id) THEN {} ELSE {"untrusted-trust-domain"}

(* The value of data.reflector.policy.result: an object with a Boolean     *)
(* allow, an object without one, or no object at all                       *)
Decision(allow) == [object |-> TRUE, allow |-> allow]
NoDecision == [object |-> FALSE, allow |-> "unset"]

Value(id, pid) ==
    IF CustomPolicy # None THEN CustomPolicy[id, pid]
    ELSE Decision(IF deny(id) = {} THEN "true" ELSE "false")

(* What the query may return: its value, or an error or nothing at all     *)
QueryResults(id, pid) == {Value(id, pid), NoDecision}

(* Variant with a defect: an error leaves the zero value.                  *)
EvalFailClosed(rs) == rs.allow = "true"

(* Without a result all is allowed, but an object whose allow is missing   *)
(* or no Boolean has the zero value, false.                                *)
Eval(rs) == ~rs.object \/ rs.allow = "true"

policyViolationToProto(e) == Proto("POLICY_VIOLATION", e.pid, ParsedID(e))

(* The violation event is offered before enforceTC is called.              *)
Evaluate ==
    /\ loop["cert"].at = "evaluate"
    /\ \E rs \in QueryResults(ParsedID(loop["cert"].ev), loop["cert"].ev.pid) :
         loop' = [loop EXCEPT !["cert"] =
                    IF Eval(rs) THEN Idle
                    ELSE [@ EXCEPT !.at = "offer", !.next = "enforce",
                                   !.outbox = <<policyViolationToProto(loop["cert"].ev)>>]]
    /\ UNCHANGED <<enforceVars, ring, ctx, events, posted, parsed, records>>

(* Nothing is denied if there is no TC loader or ConnsByPID fails.         *)
Snapshot ==
    /\ loop["cert"].at = "enforce"
    /\ \E conns \in {{}, {TCPConn(c) : c \in ConnsByPID(loop["cert"].ev.pid)}} :
         loop' = [loop EXCEPT !["cert"] =
                    IF conns = {} THEN Idle ELSE [@ EXCEPT !.at = "deny", !.todo = conns]]
    /\ UNCHANGED <<enforceVars, ring, ctx, events, posted, parsed, records>>

(* One turn of the loop over the connections; DenyFlow may fail.           *)
Deny ==
    /\ loop["cert"].at = "deny"
    /\ \E conn \in loop["cert"].todo :
         /\ DenyFlow(conn) \/ UNCHANGED denyMap
         /\ loop' = [loop EXCEPT !["cert"] =
                       IF @.todo = {conn} THEN Idle ELSE [@ EXCEPT !.todo = loop["cert"].todo \ {conn}]]
    /\ UNCHANGED <<procVars, tcp, ring, ctx, events, posted, parsed, records>>

Loop(r) ==
    \/ Read(r) \/ ReadFails(r) \/ Offer(r)
    \/ r = "tls" /\ Forward
    \/ r = "cert" /\ (Evaluate \/ Snapshot \/ Deny)

-----------------------------------------------------------------------------
(* The rest of the process                                                 *)

(* runStreamSender takes an event.                                         *)
Drain ==
    /\ events # <<>>
    /\ events' = Tail(events)
    /\ UNCHANGED <<enforceVars, ring, ctx, loop, posted, parsed, records>>

(* A signal arrives.                                                       *)
Cancel ==
    /\ ctx = "running"
    /\ ctx' = "cancelled"
    /\ UNCHANGED <<enforceVars, ring, loop, events, posted, parsed, records>>

ReflectorNext ==
    \/ Node
    \/ \E r \in Rings : Loop(r)
    \/ Drain
    \/ Cancel

ReflectorSpec == ReflectorInit /\ [][ReflectorNext]_reflectorVars

(* Goroutines go on when they can.  Nothing is assumed of the sender: the  *)
(* sidecar may be away for good.                                           *)
FairReflectorSpec ==
    /\ ReflectorSpec
    /\ \A r \in Rings : WF_reflectorVars(Loop(r))

=============================================================================
