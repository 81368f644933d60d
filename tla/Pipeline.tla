------------------------------- MODULE Pipeline -------------------------------
(***************************************************************************)
(* From the kernel's hooks to the query: the reflector's loops (Reflector) *)
(* and the sidecar's session map (SessionAPI), joined by the events the    *)
(* sender takes from the channel.  The stream between them is EventStream; *)
(* here it loses nothing and keeps the order.                              *)
(***************************************************************************)
EXTENDS Reflector

CONSTANTS
    Node1, Stream,    \* the node and the handler of its stream
    NoAddresses,      \* empty source and destination address
    SpiffeIds, CertObservations, NoDest, NoIdentity, NoTool, NoToken, NoCert, Cert, Refs,
    MaxTime, MaxEvents

VARIABLES entries, heap, hand, clock, received, history, rateCount, rateReset, windows
VARIABLE reported    \* SPIFFE IDs handled while a connection of the process was in the map

AddressesOf(c) == <<RawEvent(c).src, RawEvent(c).dst>>
SessionConns == {AddressesOf(c) : c \in Conns} \cup {NoAddresses}

(* A message of the channel as the sidecar receives it: the fields that    *)
(* the conversion sets, and the zero values of all the others              *)
Blank(type, pid) ==
    [type |-> type, node |-> Node1, conn |-> NoAddresses, identity |-> NoIdentity,
     service |-> NoIdentity, kind |-> "unspecified", tool |-> NoTool, token |-> NoToken,
     cert |-> NoCert, class |-> "normal", pid |-> pid, bytes |-> 0, at |-> 0]

Received(p) ==
    CASE p.kind = "CONNECTION_OPEN" -> [Blank("OPEN", p.pid) EXCEPT !.conn = p.id]
      [] p.kind = "OTLP"     -> [Blank("DATA", p.pid) EXCEPT !.kind = "otel",
                                    !.identity = <<"otel", p.id>>,
                                    !.service = IF p.id = NoService THEN NoIdentity ELSE p.id]
      [] p.kind = "JWT"      -> [Blank("DATA", p.pid) EXCEPT !.kind = "jwt", !.identity = p.id]
      [] p.kind = "MCP"      -> [Blank("DATA", p.pid) EXCEPT !.kind = "mcp", !.tool = p.id]
      [] p.kind = "BOUNDARY" -> [Blank("DATA", p.pid) EXCEPT !.kind = "jwt", !.token = p.id]
      [] p.kind = "SPIFFE"   -> [Blank("DATA", p.pid) EXCEPT !.kind = "spiffe", !.identity = p.id,
                                                            !.cert = Cert]
      [] p.kind = "POLICY_VIOLATION" ->
            [Blank("VIOLATION", p.pid) EXCEPT !.kind = "spiffe", !.identity = p.id]

Map == INSTANCE SessionAPI WITH
    Handlers <- {Stream}, Nodes <- {Node1}, Conns <- SessionConns,
    Identities <- SpiffeIds, Dests <- SessionConns,
    SourceOf <- [c \in SessionConns |-> c], DestOf <- [c \in SessionConns |-> c],
    DomainOf <- TrustDomain, Shapes <- {},
    certHistoryMax <- 3, rotationLearnMin <- 3, rotationRateWindow <- 2, rotationRateMax <- 3,
    profileWindowSize <- 2, profileWindowMax <- 3, profileLearnMin <- 2, profileDestSetMax <- 2,
    ByteModulus <- 4, maxEntries <- 10, staleTTL <- 1, AttestationTTL <- 1, Lag <- 0, Skew <- 0

mapVars == <<entries, heap, hand, clock, received, history, rateCount, rateReset, windows>>
pipelineVars == <<reflectorVars, mapVars, reported>>

PipelineInit == ReflectorInit /\ Map!SessionInit /\ reported = {}

Reflects == (Node \/ (\E r \in Rings : Loop(r)) \/ Cancel) /\ UNCHANGED <<mapVars, reported>>

(* The sender takes an event, and the sidecar's handler is called with it. *)
Deliver ==
    /\ Drain
    /\ LET p  == Head(events)
           ev == [Received(p) EXCEPT !.at = clock]
       IN  /\ \/ Map!Open(Stream, ev) \/ Map!Data(Stream, ev) \/ Map!Ignore(Stream, ev)
           /\ reported' = IF /\ p.kind = "SPIFFE"
                             /\ \E k \in Map!Present : Map!EntryAt(k).pid = p.pid
                          THEN reported \cup {p.id} ELSE reported

(* The sidecar goes on with an event, sweeps, and time passes.             *)
Maps ==
    /\ \/ Map!OpenObserve(Stream) \/ Map!TrackCert(Stream) \/ Map!Relock(Stream)
       \/ Map!LoadTool(Stream) \/ Map!DataObserve(Stream)
       \/ Map!Sweep \/ Map!Tick
    /\ UNCHANGED <<reflectorVars, reported>>

PipelineNext == Reflects \/ Deliver \/ Maps

PipelineSpec == PipelineInit /\ [][PipelineNext]_pipelineVars

(* docs/architecture.md:76: "The query is `GET /sessions?identity=         *)
(* spiffe://prod/...` and you see: who connected to what": once the        *)
(* sidecar was told the SPIFFE ID of a process whose connection it knows,  *)
(* a query for that identity shows an entry, until time goes on.           *)
IdentityIsQueryable ==
    clock = 0 =>
        \A id \in reported :
            Map!QueryAll([identity |-> id, dest |-> Map!Any, status |-> Map!Any,
                          node |-> Map!Any]) # {}
=============================================================================
