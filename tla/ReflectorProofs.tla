--------------------------- MODULE ReflectorProofs ---------------------------
(***************************************************************************)
(* Proofs about the reflector's loops and about enforcement, for any       *)
(* processes, connections, certificates and plaintext and any capacity of  *)
(* the rings, the channel and the deny map.  What travels from a hook to   *)
(* the deny map carries its justification along: a ring holds only         *)
(* certificates that were parsed, an outbox and the channel hold only      *)
(* violations of PIDs some denied process had, and the flows on their way  *)
(* to the deny map are connections of such a process or of one that was    *)
(* given its PID.  The facts only grow: nothing is ever unparsed, no       *)
(* process is born twice, and a finished connection has been one.          *)
(***************************************************************************)
EXTENDS ReflectorSafety, SequenceTheorems, FiniteSetTheorems, TLAPS

Pids == {PID[p] : p \in Processes}

Names ==
    {<<RawEvent(c).src, RawEvent(c).dst>> : c \in Conns} \cup Buffers
      \cup {OTLPSignals[e].service : e \in Records} \cup {SPIFFEID[b] : b \in Buffers}

Protos ==
    [kind : {"CONNECTION_OPEN", "OTLP", "JWT", "MCP", "BOUNDARY", "SPIFFE", "POLICY_VIOLATION"},
     pid : Pids, id : Names]

(* Events that blame nobody without cause, and certificates that were      *)
(* handed to d2i_X509                                                      *)
Blamed(pid) == \E p \in Processes : PID[p] = pid /\ Denied(p)
Honest == {p \in Protos : p.kind = "POLICY_VIOLATION" => Blamed(p.pid)}
ParsedCerts ==
    {e \in Certificates : \E p \in Processes : PID[p] = e.pid /\ <<p, e.buf>> \in parsed}

(* Connections that denying a PID may hit                                  *)
Hit(pid, c) ==
    \E p, q \in Processes : PID[p] = pid /\ Denied(p) /\ Inherits(q, p) /\ Reachable(q, c)
Flows(pid) == {TCPConn(c) : c \in {d \in Conns : Hit(pid, d)}}

Raw(r) ==
    IF r = "conn" THEN {RawEvent(c) : c \in Conns}
    ELSE IF r = "tls" THEN Records ELSE ParsedCerts

-----------------------------------------------------------------------------
(* The inductive invariant                                                 *)

(* Of two processes with the same PID the one that runs is the younger.    *)
ProcInv ==
    /\ alive \subseteq Processes
    /\ born \in [Processes -> Nat] /\ starts \in Nat
    /\ \A p \in Processes : born[p] <= starts
    /\ \A p \in alive : born[p] # 0
    /\ \A p \in Processes, b \in Buffers : <<p, b>> \in parsed => born[p] # 0
    /\ \A p \in Processes, q \in alive : born[p] # 0 /\ PID[p] = PID[q] => born[p] <= born[q]

NodeInv ==
    /\ ProcInv
    /\ tcp \in [Conns -> {"CLOSED", "SYN_SENT", "ESTABLISHED", "FINISHED"}]
    /\ parsed \subseteq Processes \X Buffers

RingInv ==
    /\ DOMAIN ring = Rings
    /\ \A r \in Rings : ring[r] \in Seq(Raw(r)) /\ Len(ring[r]) <= RingCap

EventsInv == events \in Seq(Honest) /\ Len(events) <= ChannelCap

(* A state a loop may be in                                                *)
LoopStates(r) ==
    [at : {"idle", "forward", "offer", "evaluate", "enforce", "deny", "ended"},
     outbox : Seq(Honest), next : {"idle", "evaluate", "enforce"},
     ev : Raw(r) \cup {None}, todo : SUBSET {TCPConn(c) : c \in Conns}]

LoopSound(l) ==
    /\ l.at \in {"forward", "offer"} <=> l.outbox # <<>>
    /\ l.at = "deny" <=> l.todo # {}

(* The TLS loop forwards an OTLP signal it has found                       *)
ForwardsSignal(l) == l.at = "forward" => l.ev \in Records /\ OTLPSignals[l.ev].found

(* The certificate loop has a certificate with a SPIFFE ID in hand, and    *)
(* goes on to enforcement only against the PID of a process that is denied.*)
EnforcesWithCause(l) ==
    /\ l.at \notin {"idle", "ended"} => l.ev \in ParsedCerts /\ ParsedID(l.ev) # None
    /\ l.next = "enforce" \/ l.at \in {"enforce", "deny"} => Blamed(l.ev.pid)
    /\ l.todo \subseteq Flows(l.ev.pid)

LoopInv ==
    /\ DOMAIN loop = Rings
    /\ \A r \in Rings : loop[r] \in LoopStates(r) /\ LoopSound(loop[r])
    /\ ForwardsSignal(loop["tls"])
    /\ EnforcesWithCause(loop["cert"])

DenyInv ==
    /\ IsFiniteSet(denyMap) /\ Cardinality(denyMap) <= MaxDeny
    /\ \A key \in denyMap :
         \E pid \in Pids, c \in Conns : Hit(pid, c) /\ key = makeFlowKey(TCPConn(c))

(* Everything posted was a signal Forward did not refuse                   *)
PostedInv ==
    \A p \in posted : \E e \in Records :
        LET sig == OTLPSignals[e]
        IN  /\ sig.found /\ ~sig.truncated /\ sig.raw.bytes > 0
            /\ p = [buf |-> e.buf, raw |-> sig.raw]

ReflectorInv == NodeInv /\ RingInv /\ EventsInv /\ LoopInv /\ DenyInv /\ PostedInv

-----------------------------------------------------------------------------
(* What was established stays established                                  *)

Grows ==
    /\ parsed \subseteq parsed'
    /\ \A p, c : c \in Conns /\ Reachable(p, c) => Reachable(p, c)'
    /\ \A p, q \in Processes : Inherits(q, p) => Inherits(q, p)'

LEMMA JustificationsGrow ==
    ASSUME Grows
    PROVE  /\ \A pid : Blamed(pid) => Blamed(pid)'
           /\ Honest \subseteq Honest'
           /\ ParsedCerts \subseteq ParsedCerts'
           /\ \A pid, c : c \in Conns /\ Hit(pid, c) => Hit(pid, c)'
           /\ \A pid : Flows(pid) \subseteq Flows(pid)'
           /\ \A r : Raw(r) \subseteq Raw(r)'
  <1>0. \A p : Denied(p) => Denied(p)'
    BY DEF Grows, Denied
  <1>1. \A pid : Blamed(pid) => Blamed(pid)'
    BY <1>0 DEF Blamed
  <1>2. Honest \subseteq Honest'
    BY <1>1 DEF Honest
  <1>3. ParsedCerts \subseteq ParsedCerts'
    BY DEF Grows, ParsedCerts
  <1>4. ASSUME NEW pid, NEW c \in Conns, Hit(pid, c) PROVE Hit(pid, c)'
    <2>1. PICK p \in Processes, q \in Processes :
              PID[p] = pid /\ Denied(p) /\ Inherits(q, p) /\ Reachable(q, c)
      BY <1>4 DEF Hit
    <2>2. Denied(p)' /\ Inherits(q, p)' /\ Reachable(q, c)'
      BY <1>0, <2>1 DEF Grows
    <2> QED BY <2>1, <2>2 DEF Hit
  <1>5. \A pid : Flows(pid) \subseteq Flows(pid)'
    <2> SUFFICES ASSUME NEW pid, NEW c \in Conns, Hit(pid, c)
                 PROVE  TCPConn(c) \in Flows(pid)'
      BY DEF Flows
    <2>1. Hit(pid, c)'
      BY <1>4
    <2> QED BY <2>1 DEF Flows
  <1>6. \A r : Raw(r) \subseteq Raw(r)'
    BY <1>3 DEF Raw
  <1> QED BY <1>1, <1>2, <1>3, <1>4, <1>5, <1>6

LEMMA SeqGrows ==
    ASSUME NEW S, NEW T, S \subseteq T
    PROVE  Seq(S) \subseteq Seq(T)
  OBVIOUS

(* The same state is sound in every later state                            *)
LEMMA LoopStaysSound ==
    ASSUME Grows
    PROVE  /\ \A r : LoopStates(r) \subseteq LoopStates(r)'
           /\ \A l : EnforcesWithCause(l) => EnforcesWithCause(l)'
  <1>1. ASSUME NEW r PROVE LoopStates(r) \subseteq LoopStates(r)'
    <2>1. Seq(Honest) \subseteq Seq(Honest)' /\ Raw(r) \subseteq Raw(r)'
      BY JustificationsGrow, SeqGrows
    <2> QED BY <2>1 DEF LoopStates
  <1>2. ASSUME NEW l, EnforcesWithCause(l) PROVE EnforcesWithCause(l)'
    <2>1. /\ l.at \notin {"idle", "ended"} => l.ev \in ParsedCerts' /\ ParsedID(l.ev) # None
          /\ l.next = "enforce" \/ l.at \in {"enforce", "deny"} => Blamed(l.ev.pid)'
          /\ l.todo \subseteq Flows(l.ev.pid)'
      BY <1>2, JustificationsGrow DEF EnforcesWithCause
    <2> QED BY <2>1 DEF EnforcesWithCause
  <1> QED BY <1>1, <1>2

LEMMA UntouchedStays ==
    ASSUME ReflectorInv, Grows
    PROVE  /\ UNCHANGED ring => RingInv'
           /\ UNCHANGED events => EventsInv'
           /\ UNCHANGED loop => LoopInv'
           /\ UNCHANGED denyMap => DenyInv'
           /\ UNCHANGED posted => PostedInv'
  <1>1. ASSUME UNCHANGED ring PROVE RingInv'
    <2>1. \A r \in Rings : Seq(Raw(r)) \subseteq Seq(Raw(r))'
      BY JustificationsGrow, SeqGrows
    <2> QED BY <1>1, <2>1 DEF ReflectorInv, RingInv
  <1>2. ASSUME UNCHANGED events PROVE EventsInv'
    <2>1. Seq(Honest) \subseteq Seq(Honest)'
      BY JustificationsGrow, SeqGrows
    <2> QED BY <1>2, <2>1 DEF ReflectorInv, EventsInv
  <1>3. ASSUME UNCHANGED loop PROVE LoopInv'
    <2>1. PICK l : l = loop /\ l = loop'
      BY <1>3
    <2>2. /\ DOMAIN l = Rings
          /\ \A r \in Rings : l[r] \in LoopStates(r)' /\ LoopSound(l[r])
          /\ ForwardsSignal(l["tls"]) /\ EnforcesWithCause(l["cert"])'
      BY <2>1, LoopStaysSound DEF ReflectorInv, LoopInv
    <2> QED BY <2>1, <2>2 DEF LoopInv, LoopSound, ForwardsSignal
  <1>4. ASSUME UNCHANGED denyMap PROVE DenyInv'
    <2>1. ASSUME NEW key \in denyMap
          PROVE  \E pid \in Pids, c \in Conns : Hit(pid, c)' /\ key = makeFlowKey(TCPConn(c))
      <3>1. PICK pid \in Pids, c \in Conns : Hit(pid, c) /\ key = makeFlowKey(TCPConn(c))
        BY <2>1 DEF ReflectorInv, DenyInv
      <3> QED BY <3>1, JustificationsGrow
    <2>2. IsFiniteSet(denyMap') /\ Cardinality(denyMap') <= MaxDeny
      BY <1>4 DEF ReflectorInv, DenyInv
    <2> QED BY <1>4, <2>1, <2>2 DEF DenyInv
  <1>5. ASSUME UNCHANGED posted PROVE PostedInv'
    BY <1>5 DEF ReflectorInv, PostedInv
  <1> QED BY <1>1, <1>2, <1>3, <1>4, <1>5

LEMMA SteadyGrows ==
    ASSUME UNCHANGED <<born, tcp, parsed>>
    PROVE  Grows
  BY DEF Grows, Reachable, Inherits

-----------------------------------------------------------------------------
(* The node                                                                *)

LEMMA SubmitKeepsRing ==
    ASSUME RingInv, NEW r \in Rings, NEW e \in Raw(r)', Submit(r, e), Grows
    PROVE  RingInv'
  <1>0. RingCap \in Nat /\ \A q \in Rings : Seq(Raw(q)) \subseteq Seq(Raw(q))'
    BY ReflectorAssumption, JustificationsGrow, SeqGrows
  <1>1. CASE UNCHANGED ring
    BY <1>0, <1>1 DEF RingInv
  <1>2. CASE Len(ring[r]) < RingCap /\ ring' = [ring EXCEPT ![r] = Append(@, e)]
    <2>1. PICK S : S = Raw(r)'
      OBVIOUS
    <2>2. PICK q \in Seq(S) : q = ring[r]
      BY <1>0, <2>1 DEF RingInv
    <2>3. Append(q, e) \in Seq(S) /\ Len(Append(q, e)) = Len(q) + 1 /\ Len(q) \in Nat
      BY <2>1
    <2>4. ring'[r] \in Seq(S) /\ Len(ring'[r]) <= RingCap
      BY <1>0, <1>2, <2>2, <2>3 DEF RingInv
    <2>5. DOMAIN ring' = Rings /\ \A s \in Rings : s # r => ring'[s] = ring[s]
      BY <1>2 DEF RingInv
    <2> QED BY <1>0, <2>1, <2>4, <2>5 DEF RingInv
  <1> QED BY <1>1, <1>2 DEF Submit

LEMMA CapturedStep ==
    ASSUME ReflectorInv, NEW q \in Processes,
           \/ \E e \in Records : Captured(q, "tls", e)
           \/ \E e \in Certificates : Captured(q, "cert", e)
    PROVE  ReflectorInv'
  <1>1. PICK r \in {"tls", "cert"}, e \in Records \cup Certificates :
            /\ Captured(q, r, e)
            /\ IF r = "tls" THEN e \in Records ELSE e \in Certificates
    BY Zenon
  <1>2. /\ UNCHANGED <<alive, born, starts, tcp, denyMap, loop, events, posted>> /\ Submit(r, e)
        /\ parsed' = IF r = "cert" THEN parsed \cup {<<q, e.buf>>} ELSE parsed
        /\ q \in alive /\ e.pid = PID[q]
    BY <1>1 DEF Captured, enforceVars, loopVars
  <1>3. Grows
    BY <1>2 DEF Grows, Reachable, Inherits
  <1>4. e \in Raw(r)' /\ r \in Rings
    BY <1>1, <1>2 DEF Raw, ParsedCerts, Rings
  <1>5. NodeInv'
    <2>1. e.buf \in Buffers
      BY ReflectorAssumption
    <2>2. parsed' \subseteq Processes \X Buffers
      BY <1>2, <2>1 DEF ReflectorInv, NodeInv
    <2>3. \A p \in Processes, b \in Buffers : <<p, b>> \in parsed' => born[p] # 0
      BY <1>2 DEF ReflectorInv, NodeInv, ProcInv
    <2> QED BY <1>2, <2>2, <2>3 DEF ReflectorInv, NodeInv, ProcInv
  <1>6. RingInv'
    BY <1>2, <1>3, <1>4, SubmitKeepsRing DEF ReflectorInv
  <1> QED BY <1>2, <1>3, <1>5, <1>6, UntouchedStays DEF ReflectorInv

LEMMA ConnectionStep ==
    ASSUME ReflectorInv, NEW c \in Conns, Connection(c) \/ Established(c) \/ Finished(c)
    PROVE  ReflectorInv'
  <1>1. PICK st \in {"SYN_SENT", "ESTABLISHED", "FINISHED"} :
            /\ tcp' = [tcp EXCEPT ![c] = st]
            /\ tcp[c] = "CLOSED" \/ tcp[c] = "SYN_SENT" \/ st = "FINISHED"
    BY DEF Connection, Established, Finished
  <1>2. UNCHANGED <<alive, born, starts, denyMap, loop, events, posted, parsed>>
    BY DEF Connection, Established, Finished, loopVars, procVars
  <1>3. Grows
    BY <1>1, <1>2 DEF Grows, Reachable, Inherits, ReflectorInv, NodeInv
  <1>4. NodeInv'
    BY <1>1, <1>2 DEF ReflectorInv, NodeInv, ProcInv
  <1>5. RingInv'
    <2>1. CASE UNCHANGED ring
      BY <1>3, <2>1, UntouchedStays
    <2>2. CASE Submit("conn", RawEvent(c))
      <3>1. RawEvent(c) \in Raw("conn")' /\ "conn" \in Rings
        BY DEF Raw, Rings
      <3> QED BY <1>3, <2>2, <3>1, SubmitKeepsRing DEF ReflectorInv
    <2> QED BY <2>1, <2>2 DEF Connection, Established, Finished
  <1> QED BY <1>2, <1>3, <1>4, <1>5, UntouchedStays DEF ReflectorInv

(* A process that starts is younger than any that had its PID              *)
LEMMA StartStep ==
    ASSUME ReflectorInv, NEW p \in Processes, Start(p)
    PROVE  ReflectorInv'
  <1>1. /\ UNCHANGED <<tcp, ring, denyMap, loop, events, posted, parsed>>
        /\ born[p] = 0 /\ born' = [born EXCEPT ![p] = starts + 1]
        /\ alive' = alive \cup {p} /\ starts' = starts + 1
        /\ \A q \in alive : PID[q] # PID[p]
    BY DEF Start, loopVars
  <1>2. ProcInv
    BY DEF ReflectorInv, NodeInv
  <1>3. \A q \in Processes : born[q] \in Nat /\ born'[q] = IF q = p THEN starts + 1 ELSE born[q]
    BY <1>1, <1>2 DEF ProcInv
  <1>4. Grows
    BY <1>1, <1>3 DEF Grows, Reachable, Inherits
  <1>5. ProcInv'
    <2>1. alive' \subseteq Processes /\ born' \in [Processes -> Nat] /\ starts' \in Nat
      BY <1>1, <1>2 DEF ProcInv
    <2>2. \A q \in Processes : born'[q] <= starts' /\ (born[q] # 0 => born'[q] # 0)
      BY <1>1, <1>2, <1>3 DEF ProcInv
    <2>3. \A q \in alive' : born'[q] # 0
      BY <1>1, <1>2, <1>3 DEF ProcInv
    <2>4. \A q \in Processes, b \in Buffers : <<q, b>> \in parsed' => born'[q] # 0
      BY <1>1, <1>2, <2>2 DEF ProcInv
    <2>5. ASSUME NEW o \in Processes, NEW q \in alive', born'[o] # 0, PID[o] = PID[q]
          PROVE  born'[o] <= born'[q]
      <3>1. CASE q = p
        BY <1>1, <1>3, <2>2, <3>1
      <3>2. CASE q # p
        <4>1. q \in alive /\ o # p
          BY <1>1, <2>5, <3>2
        <4> QED BY <1>2, <1>3, <2>1, <2>5, <3>2, <4>1 DEF ProcInv
      <3> QED BY <3>1, <3>2
    <2> QED BY <2>1, <2>2, <2>3, <2>4, <2>5 DEF ProcInv
  <1>6. NodeInv'
    BY <1>1, <1>5 DEF ReflectorInv, NodeInv
  <1> QED BY <1>1, <1>4, <1>6, UntouchedStays DEF ReflectorInv

LEMMA ExitStep ==
    ASSUME ReflectorInv, NEW p \in Processes, Exit(p)
    PROVE  ReflectorInv'
  <1>1. /\ UNCHANGED <<born, starts, ring, denyMap, loop, events, posted, parsed>>
        /\ alive' = alive \ {p}
        /\ tcp' = [c \in Conns |-> IF Sock[c].proc # p THEN tcp[c]
                                   ELSE IF tcp[c] = "SYN_SENT" THEN "CLOSED"
                                   ELSE IF tcp[c] = "ESTABLISHED" THEN "FINISHED" ELSE tcp[c]]
    BY DEF Exit, loopVars
  <1>2. Grows
    BY <1>1 DEF Grows, Reachable, Inherits
  <1>3. NodeInv'
    BY <1>1 DEF ReflectorInv, NodeInv, ProcInv
  <1> QED BY <1>1, <1>2, <1>3, UntouchedStays DEF ReflectorInv

-----------------------------------------------------------------------------
(* What the loops make of what they read                                   *)

TLSKinds == {"OTLP", "JWT", "MCP", "BOUNDARY"}

LEMMA ShortSeqs ==
    ASSUME NEW S
    PROVE  /\ <<>> \in Seq(S)
           /\ \A x \in S : <<x>> \in Seq(S) /\ <<x>> # <<>> /\ <<x>>[1] = x
  OBVIOUS

LEMMA Joined ==
    ASSUME NEW S, NEW a \in Seq(S), NEW b \in Seq(S), NEW c \in Seq(S)
    PROVE  a \o b \o c \in Seq(S)
  <1>1. PICK ab \in Seq(S) : ab = a \o b
    BY ConcatProperties
  <1> QED BY <1>1, ConcatProperties

LEMMA ExtractedKinds ==
    ASSUME NEW msg, NEW n
    PROVE  /\ ExtractIdentitiesFromTLS(msg, n) \in Seq(TLSKinds)
           /\ (/\ ExtractIdentitiesFromTLS(msg, n) # <<>>
               /\ ExtractIdentitiesFromTLS(msg, n)[1] = "OTLP") => ExtractOTLPFromTLS(msg, n).found
  <1> DEFINE S == {"JWT", "MCP", "BOUNDARY"}
  <1>1. CASE ExtractOTLPFromTLS(msg, n).found
    <2>1. ExtractIdentitiesFromTLS(msg, n) = <<"OTLP">>
      BY <1>1 DEF ExtractIdentitiesFromTLS
    <2> QED BY <1>1, <2>1 DEF TLSKinds
  <1>2. CASE ~ExtractOTLPFromTLS(msg, n).found
    <2>1. \A k \in S : Visible(msg, n, k) \in Seq(S)
      <3> HIDE DEF S
      <3>1. \A k \in S : <<k>> \in Seq(S) /\ <<>> \in Seq(S)
        BY ShortSeqs
      <3> QED BY <3>1 DEF Visible
    <2>2. PICK a \in Seq(S) : a = Visible(msg, n, "JWT")
      BY <2>1
    <2>3. PICK b \in Seq(S) : b = Visible(msg, n, "MCP")
      BY <2>1
    <2>4. PICK c \in Seq(S) : c = Visible(msg, n, "BOUNDARY")
      BY <2>1
    <2>5. ExtractIdentitiesFromTLS(msg, n) = a \o b \o c
      BY <1>2, <2>2, <2>3, <2>4 DEF ExtractIdentitiesFromTLS
    <2>6. PICK all \in Seq(S) : all = a \o b \o c
      BY Joined
    <2>7. all \in Seq(TLSKinds)
      BY SeqGrows DEF TLSKinds
    <2>8. all # <<>> => all[1] \in S
      OBVIOUS
    <2> QED BY <2>5, <2>6, <2>7, <2>8
  <1> QED BY <1>1, <1>2

LEMMA TLSOutbox ==
    ASSUME NEW e \in Records
    PROVE  /\ TLSEvents[e] \in Seq(Honest)
           /\ (TLSEvents[e] # <<>> /\ TLSEvents[e][1].kind = "OTLP") => OTLPSignals[e].found
  <1>1. /\ OTLPSignals[e] = ExtractOTLPFromTLS(Plaintext[e.buf], e.len)
        /\ OTLPSignals[e].service \in Names
    BY DEF OTLPSignals, Names
  <1>2. PICK kinds \in Seq(TLSKinds) :
            /\ kinds = ExtractIdentitiesFromTLS(Plaintext[e.buf], e.len)
            /\ (kinds # <<>> /\ kinds[1] = "OTLP") => OTLPSignals[e].found
    BY <1>1, ExtractedKinds
  <1> DEFINE id(k) == IF k = "OTLP" THEN OTLPSignals[e].service ELSE e.buf
  <1>3. TLSEvents[e] = [i \in DOMAIN kinds |-> Proto(kinds[i], e.pid, id(kinds[i]))]
    BY <1>2 DEF TLSEvents
  <1>4. e.pid \in Pids /\ e.buf \in Names
    BY ReflectorAssumption DEF Pids, Names
  <1>5. \A i \in DOMAIN kinds : Proto(kinds[i], e.pid, id(kinds[i])) \in Honest
    <2> SUFFICES ASSUME NEW i \in DOMAIN kinds
                 PROVE  Proto(kinds[i], e.pid, id(kinds[i])) \in Honest
      OBVIOUS
    <2>1. kinds[i] \in TLSKinds
      OBVIOUS
    <2>2. id(kinds[i]) \in Names
      BY <1>1, <1>4
    <2> HIDE DEF id
    <2> QED BY <1>4, <2>1, <2>2 DEF Proto, Honest, Protos, TLSKinds
  <1> HIDE DEF id
  <1>6. DOMAIN kinds = 1 .. Len(kinds) /\ Len(kinds) \in Nat
    OBVIOUS
  <1>7. PICK out : out = [i \in 1 .. Len(kinds) |-> Proto(kinds[i], e.pid, id(kinds[i]))]
    OBVIOUS
  <1>8. out \in [1 .. Len(kinds) -> Honest] /\ TLSEvents[e] = out
    BY <1>3, <1>5, <1>6, <1>7
  <1>9. out \in Seq(Honest) /\ Len(out) = Len(kinds)
    BY <1>6, <1>8
  <1>10. out # <<>> => kinds # <<>> /\ out[1].kind = kinds[1]
    <2>1. out # <<>> => Len(kinds) >= 1
      BY <1>6, <1>9
    <2>2. Len(kinds) >= 1 => 1 \in 1 .. Len(kinds)
      BY <1>6
    <2> QED BY <1>7, <2>1, <2>2 DEF Proto
  <1> QED BY <1>2, <1>8, <1>9, <1>10

LEMMA CertOutbox ==
    ASSUME NEW e \in ParsedCerts, ParsedID(e) # None
    PROVE  /\ Proto("SPIFFE", e.pid, ParsedID(e)) \in Honest
           /\ e.pid \in Pids /\ e.buf \in Buffers
           /\ \E p \in Processes : PID[p] = e.pid /\ <<p, e.buf>> \in parsed
           /\ ParsedID(e) = SPIFFEID[e.buf]
           /\ policyViolationToProto(e) \in Protos
           /\ policyViolationToProto(e).pid = e.pid
  <1>1. /\ e.pid \in Pids /\ e.buf \in Buffers
        /\ \E p \in Processes : PID[p] = e.pid /\ <<p, e.buf>> \in parsed
    BY ReflectorAssumption DEF ParsedCerts, Pids
  <1>2. ParsedID(e) = SPIFFEID[e.buf]
    BY DEF ParsedID
  <1>3. ParsedID(e) \in Names
    BY <1>1, <1>2 DEF Names
  <1> QED BY <1>1, <1>2, <1>3 DEF Proto, Honest, Protos, policyViolationToProto

LEMMA OutboxFacts ==
    ASSUME NEW r \in Rings, NEW e \in Raw(r)
    PROVE  /\ Outbox(r, e) \in Seq(Honest)
           /\ r = "tls" /\ Outbox(r, e) # <<>> /\ Outbox(r, e)[1].kind = "OTLP" =>
                 e \in Records /\ OTLPSignals[e].found
           /\ r = "cert" /\ Outbox(r, e) # <<>> => e \in ParsedCerts /\ ParsedID(e) # None
  <1>1. CASE r = "conn"
    <2>1. PICK c \in Conns : e = RawEvent(c)
      BY <1>1 DEF Raw
    <2>2. e.pid \in Pids /\ <<e.src, e.dst>> \in Names
      BY <2>1, EnforcementAssumption DEF RawEvent, Pids, Names
    <2>3. connectionEventToProto(e) \in Honest
      BY <2>2 DEF connectionEventToProto, Proto, Honest, Protos
    <2>4. Outbox(r, e) = <<connectionEventToProto(e)>>
      BY <1>1 DEF Outbox
    <2>5. Outbox(r, e) \in Seq(Honest)
      BY <2>3, <2>4, ShortSeqs
    <2>6. r # "tls" /\ r # "cert"
      BY <1>1
    <2> QED BY <2>5, <2>6
  <1>2. CASE r = "tls"
    <2>1. e \in Records /\ Outbox(r, e) = TLSEvents[e]
      BY <1>2 DEF Outbox, Raw
    <2> QED BY <1>2, <2>1, TLSOutbox
  <1>3. CASE r = "cert"
    <2>1. e \in ParsedCerts
      BY <1>3 DEF Raw
    <2>2. CASE ParsedID(e) = None
      <3>1. Outbox(r, e) = <<>>
        BY <1>3, <2>2 DEF Outbox
      <3>2. Outbox(r, e) \in Seq(Honest) /\ r # "tls"
        BY <1>3, <3>1, ShortSeqs
      <3> QED BY <3>1, <3>2
    <2>3. CASE ParsedID(e) # None
      <3>1. Outbox(r, e) = <<Proto("SPIFFE", e.pid, ParsedID(e))>>
        BY <1>3, <2>3 DEF Outbox
      <3>2. Proto("SPIFFE", e.pid, ParsedID(e)) \in Honest
        BY <2>1, <2>3, CertOutbox
      <3>3. Outbox(r, e) \in Seq(Honest) /\ r # "tls"
        BY <1>3, <3>1, <3>2, ShortSeqs
      <3> QED BY <2>1, <2>3, <3>3
    <2> QED BY <2>2, <2>3
  <1> QED BY <1>1, <1>2, <1>3 DEF Rings

LEMMA IdleFacts ==
    /\ \A r : Idle \in LoopStates(r) /\ Ended \in LoopStates(r)
    /\ \A l \in {Idle, Ended} : LoopSound(l) /\ ForwardsSignal(l) /\ EnforcesWithCause(l)
  <1>1. \A l \in {Idle, Ended} :
          /\ l.at \in {"idle", "ended"} /\ l.outbox = <<>> /\ l.next = "idle"
          /\ l.ev = None /\ l.todo = {}
    BY DEF Idle, Ended
  <1>2. \A r : Idle \in LoopStates(r) /\ Ended \in LoopStates(r)
    <2>1. PICK none \in Seq(Honest) : none = <<>>
      BY ShortSeqs
    <2>2. /\ Idle = [at |-> "idle", outbox |-> none, next |-> "idle", ev |-> None, todo |-> {}]
          /\ Ended = [at |-> "ended", outbox |-> none, next |-> "idle", ev |-> None, todo |-> {}]
      BY <2>1 DEF Idle, Ended
    <2> QED BY <2>1, <2>2 DEF LoopStates
  <1>3. \A l \in {Idle, Ended} : LoopSound(l) /\ ForwardsSignal(l) /\ EnforcesWithCause(l)
    BY <1>1 DEF LoopSound, ForwardsSignal, EnforcesWithCause
  <1> QED BY <1>2, <1>3

LEMMA AfterReadFacts ==
    ASSUME NEW r \in Rings, NEW e \in Raw(r)
    PROVE  /\ AfterRead(r, e) \in LoopStates(r)
           /\ LoopSound(AfterRead(r, e))
           /\ r = "tls" => ForwardsSignal(AfterRead(r, e))
           /\ r = "cert" => EnforcesWithCause(AfterRead(r, e))
  <1>1. CASE Outbox(r, e) = <<>>
    <2>1. AfterRead(r, e) = Idle
      BY <1>1 DEF AfterRead
    <2> QED BY <2>1, IdleFacts
  <1>2. CASE Outbox(r, e) # <<>>
    <2>1. PICK out \in Seq(Honest) : out = Outbox(r, e) /\ out # <<>>
      BY <1>2, OutboxFacts
    <2>2. PICK at \in {"forward", "offer"} :
             at = IF Forwarding /\ r = "tls" /\ out[1].kind = "OTLP" THEN "forward" ELSE "offer"
      OBVIOUS
    <2>3. PICK nx \in {"idle", "evaluate"} : nx = IF r = "cert" THEN "evaluate" ELSE "idle"
      OBVIOUS
    <2>4. PICK l : l = [at |-> at, outbox |-> out, next |-> nx, ev |-> e, todo |-> {}]
      OBVIOUS
    <2>5. AfterRead(r, e) = l
      <3>1. AfterRead(r, e) = WithEvents(r, e, out)
        BY <1>2, <2>1 DEF AfterRead
      <3>2. WithEvents(r, e, out) = [Idle EXCEPT !.at = at, !.outbox = out, !.ev = e, !.next = nx]
        BY <2>2, <2>3 DEF WithEvents
      <3> QED BY <2>4, <3>1, <3>2 DEF Idle
    <2>6. l \in LoopStates(r) /\ LoopSound(l)
      BY <2>1, <2>4 DEF LoopStates, LoopSound
    <2>7. r = "tls" => ForwardsSignal(l)
      BY <2>1, <2>2, <2>4, OutboxFacts DEF ForwardsSignal
    <2>8. r = "cert" => EnforcesWithCause(l)
      BY <2>1, <2>3, <2>4, OutboxFacts DEF EnforcesWithCause
    <2> QED BY <2>5, <2>6, <2>7, <2>8
  <1> QED BY <1>1, <1>2

-----------------------------------------------------------------------------
(* Steps of a loop                                                         *)

(* One loop moves to a sound state, the others stay where they are         *)
LEMMA LoopMoves ==
    ASSUME LoopInv, UNCHANGED <<alive, born, starts, tcp, parsed>>,
           NEW r \in Rings, NEW l \in LoopStates(r),
           loop' = [loop EXCEPT ![r] = l], LoopSound(l),
           r = "tls" => ForwardsSignal(l), r = "cert" => EnforcesWithCause(l)
    PROVE  LoopInv'
  <1>1. PICK m : m = loop'
    OBVIOUS
  <1>2. DOMAIN m = Rings /\ \A q \in Rings : m[q] = IF q = r THEN l ELSE loop[q]
    BY <1>1 DEF LoopInv
  <1>3. {"tls", "cert"} \subseteq Rings
    BY DEF Rings
  <1>4. Grows
    BY SteadyGrows
  <1>5. \A q \in Rings : m[q] \in LoopStates(q)' /\ LoopSound(m[q])
    BY <1>2, <1>4, LoopStaysSound DEF LoopInv
  <1>6. ForwardsSignal(m["tls"]) /\ EnforcesWithCause(m["cert"])'
    BY <1>2, <1>3, <1>4, LoopStaysSound DEF LoopInv
  <1> QED BY <1>1, <1>2, <1>5, <1>6 DEF LoopInv, LoopSound, ForwardsSignal

LEMMA ReadStep ==
    ASSUME ReflectorInv, NEW r \in Rings, Read(r)
    PROVE  ReflectorInv'
  <1>0. /\ UNCHANGED <<alive, born, starts, tcp, parsed, denyMap, events, posted>>
        /\ ring[r] # <<>>
        /\ loop' = [loop EXCEPT ![r] = AfterRead(r, Head(ring[r]))]
        /\ ring' = [ring EXCEPT ![r] = Tail(ring[r])]
    BY DEF Read, enforceVars
  <1>1. Grows
    BY <1>0, SteadyGrows
  <1>2. PICK q \in Seq(Raw(r)) : q = ring[r] /\ q # <<>> /\ Len(q) <= RingCap
    BY <1>0 DEF ReflectorInv, RingInv
  <1>3. Head(q) \in Raw(r) /\ Tail(q) \in Seq(Raw(r)) /\ Len(Tail(q)) = Len(q) - 1 /\ Len(q) \in Nat
    BY <1>2, HeadTailProperties
  <1>4. RingInv'
    <2>1. \A s \in Rings : Seq(Raw(s)) \subseteq Seq(Raw(s))'
      BY <1>1, JustificationsGrow, SeqGrows
    <2>2. RingCap \in Nat
      BY ReflectorAssumption
    <2>3. DOMAIN ring' = Rings /\ \A s \in Rings : ring'[s] = IF s = r THEN Tail(q) ELSE ring[s]
      BY <1>0, <1>2 DEF ReflectorInv, RingInv
    <2>4. Len(Tail(q)) <= RingCap
      BY <1>2, <1>3, <2>2
    <2> QED BY <1>3, <2>1, <2>3, <2>4 DEF ReflectorInv, RingInv
  <1>5. LoopInv'
    <2>1. PICK e \in Raw(r) : e = Head(q)
      BY <1>3
    <2>2. PICK l \in LoopStates(r) : l = AfterRead(r, e) /\ LoopSound(l)
      BY AfterReadFacts
    <2>3. (r = "tls" => ForwardsSignal(l)) /\ (r = "cert" => EnforcesWithCause(l))
      BY <2>2, AfterReadFacts
    <2>4. loop' = [loop EXCEPT ![r] = l]
      BY <1>0, <1>2, <2>1, <2>2
    <2> QED BY <1>0, <2>2, <2>3, <2>4, LoopMoves DEF ReflectorInv
  <1>6. NodeInv'
    BY <1>0 DEF ReflectorInv, NodeInv, ProcInv
  <1> QED BY <1>0, <1>1, <1>4, <1>5, <1>6, UntouchedStays DEF ReflectorInv

(* What a step that only moves a loop has to show                          *)
LEMMA OnlyLoopMoves ==
    ASSUME ReflectorInv, UNCHANGED <<alive, born, starts, tcp, parsed, ring>>, LoopInv',
           UNCHANGED denyMap \/ DenyInv', UNCHANGED events \/ EventsInv',
           UNCHANGED posted \/ PostedInv'
    PROVE  ReflectorInv'
  <1>1. Grows
    BY SteadyGrows
  <1>2. NodeInv'
    BY DEF ReflectorInv, NodeInv, ProcInv
  <1> QED BY <1>1, <1>2, UntouchedStays DEF ReflectorInv

LEMMA ReadFailsStep ==
    ASSUME ReflectorInv, NEW r \in Rings, ReadFails(r)
    PROVE  ReflectorInv'
  <1>0. /\ UNCHANGED <<alive, born, starts, tcp, parsed, ring, denyMap, events, posted>>
        /\ loop' = [loop EXCEPT ![r] = Ended]
    BY DEF ReadFails, enforceVars, AfterReadError
  <1>1. LoopInv'
    BY <1>0, IdleFacts, LoopMoves DEF ReflectorInv
  <1> QED BY <1>0, <1>1, OnlyLoopMoves

LEMMA LoopTypes ==
    ASSUME ReflectorInv, NEW r \in Rings
    PROVE  loop[r] \in LoopStates(r) /\ LoopSound(loop[r]) /\ DOMAIN loop = Rings
  BY DEF ReflectorInv, LoopInv

LEMMA ForwardStep ==
    ASSUME ReflectorInv, Forward
    PROVE  ReflectorInv'
  <1>t. "tls" \in Rings /\ "tls" # "cert"
    BY DEF Rings
  <1>0. /\ UNCHANGED <<alive, born, starts, tcp, parsed, ring, denyMap, events>>
        /\ loop["tls"].at = "forward"
    BY DEF Forward, enforceVars
  <1>1. PICK old \in LoopStates("tls") : old = loop["tls"] /\ LoopSound(old)
    BY <1>t, LoopTypes
  <1>2. PICK l : l = [old EXCEPT !.at = "offer"]
    OBVIOUS
  <1>3. l \in LoopStates("tls") /\ LoopSound(l) /\ ForwardsSignal(l)
    BY <1>0, <1>1, <1>2 DEF LoopStates, LoopSound, ForwardsSignal
  <1>4. loop' = [loop EXCEPT !["tls"] = l]
    BY <1>t, <1>1, <1>2, LoopTypes DEF Forward
  <1>5. LoopInv'
    BY <1>t, <1>0, <1>3, <1>4, LoopMoves DEF ReflectorInv
  <1>6. UNCHANGED posted \/ PostedInv'
    <2>1. PICK e \in Records : e = old.ev /\ OTLPSignals[e].found
      BY <1>0, <1>1 DEF ReflectorInv, LoopInv, ForwardsSignal
    <2>2. CASE ~UNCHANGED posted
      <3>1. /\ ~OTLPSignals[e].truncated /\ OTLPSignals[e].raw.bytes > 0
            /\ posted' = posted \cup {[buf |-> e.buf, raw |-> OTLPSignals[e].raw]}
        BY <1>1, <2>1, <2>2 DEF Forward
      <3>2. \A p \in posted' : p \in posted \/ p = [buf |-> e.buf, raw |-> OTLPSignals[e].raw]
        BY <3>1
      <3> QED BY <2>1, <3>1, <3>2 DEF ReflectorInv, PostedInv
    <2> QED BY <2>2
  <1> QED BY <1>0, <1>5, <1>6, OnlyLoopMoves

(* An event offered leaves the outbox, and the last one sends the loop on  *)
LEMMA OfferStep ==
    ASSUME ReflectorInv, NEW r \in Rings, Offer(r)
    PROVE  ReflectorInv'
  <1>0. /\ UNCHANGED <<alive, born, starts, tcp, parsed, ring, denyMap, posted>>
        /\ loop[r].at = "offer"
    BY DEF Offer, enforceVars
  <1>1. PICK old \in LoopStates(r) : old = loop[r] /\ LoopSound(old)
    BY LoopTypes
  <1>2. PICK out \in Seq(Honest) : out = old.outbox /\ out # <<>>
    BY <1>0, <1>1 DEF LoopStates, LoopSound
  <1>3. /\ Head(out) \in Honest /\ Tail(out) \in Seq(Honest)
        /\ Len(Tail(out)) = Len(out) - 1 /\ Len(out) \in Nat
    BY <1>2, HeadTailProperties
  <1>4. old.todo = {} /\ old.at = "offer" /\ old.next \in {"idle", "evaluate", "enforce"}
    BY <1>0, <1>1 DEF LoopStates, LoopSound
  <1>5. r = "cert" => EnforcesWithCause(old)
    BY <1>1 DEF ReflectorInv, LoopInv
  <1>6. PICK l : l = IF Len(out) > 1 THEN [old EXCEPT !.outbox = Tail(out)]
                     ELSE IF old.next = "idle" THEN Idle
                     ELSE [old EXCEPT !.outbox = <<>>, !.at = old.next]
    OBVIOUS
  <1>7. loop' = [loop EXCEPT ![r] = l]
    <2>1. loop' = [loop EXCEPT ![r] =
                     IF Len(loop[r].outbox) > 1 THEN [loop[r] EXCEPT !.outbox = Tail(loop[r].outbox)]
                     ELSE IF loop[r].next = "idle" THEN Idle
                     ELSE [loop[r] EXCEPT !.outbox = <<>>, !.at = loop[r].next]]
      BY DEF Offer
    <2> QED BY <1>1, <1>2, <1>6, <2>1
  <1>8. /\ l \in LoopStates(r) /\ LoopSound(l) /\ ForwardsSignal(l)
        /\ r = "cert" => EnforcesWithCause(l)
    <2>1. CASE Len(out) > 1
      <3>1. l = [old EXCEPT !.outbox = Tail(out)] /\ Tail(out) # <<>>
        BY <1>3, <1>6, <2>1
      <3> QED BY <1>3, <1>4, <1>5, <3>1
              DEF LoopStates, LoopSound, ForwardsSignal, EnforcesWithCause
    <2>2. CASE Len(out) <= 1 /\ old.next = "idle"
      <3>1. l = Idle
        BY <1>3, <1>6, <2>2
      <3> QED BY <3>1, IdleFacts
    <2>3. CASE Len(out) <= 1 /\ old.next # "idle"
      <3>1. PICK none \in Seq(Honest) : none = <<>>
        BY ShortSeqs
      <3>2. l = [old EXCEPT !.outbox = none, !.at = old.next]
        BY <1>3, <1>6, <2>3, <3>1
      <3>3. /\ l.at = old.next /\ l.outbox = <<>> /\ l.next = old.next
            /\ l.ev = old.ev /\ l.todo = {}
        BY <1>4, <3>1, <3>2 DEF LoopStates
      <3>4. l \in LoopStates(r)
        BY <1>4, <3>2 DEF LoopStates
      <3>5. LoopSound(l) /\ ForwardsSignal(l)
        BY <1>4, <2>3, <3>3 DEF LoopSound, ForwardsSignal
      <3>6. r = "cert" => EnforcesWithCause(l)
        BY <1>4, <1>5, <2>3, <3>3 DEF EnforcesWithCause
      <3> QED BY <3>4, <3>5, <3>6
    <2> QED BY <1>3, <2>1, <2>2, <2>3
  <1>9. LoopInv'
    BY <1>0, <1>7, <1>8, LoopMoves DEF ReflectorInv
  <1>10. UNCHANGED events \/ EventsInv'
    <2>1. CASE ~UNCHANGED events
      <3>1. Len(events) < ChannelCap /\ events' = Append(events, Head(out))
        BY <1>1, <1>2, <2>1 DEF Offer
      <3>2. events \in Seq(Honest) /\ Len(events) \in Nat /\ ChannelCap \in Nat
        BY ReflectorAssumption DEF ReflectorInv, EventsInv
      <3>3. PICK S : S = Honest
        OBVIOUS
      <3>4. PICK evs \in Seq(S) : evs = events
        BY <3>2, <3>3
      <3>5. PICK h \in S : h = Head(out)
        BY <1>3, <3>3
      <3>6. Append(evs, h) \in Seq(S) /\ Len(Append(evs, h)) = Len(evs) + 1
        OBVIOUS
      <3>7. Seq(Honest) \subseteq Seq(Honest)'
        BY <1>0, SteadyGrows, JustificationsGrow, SeqGrows
      <3>8. events' \in Seq(Honest)'
        BY <3>1, <3>3, <3>4, <3>5, <3>6, <3>7
      <3>9. Len(events') <= ChannelCap
        BY <3>1, <3>2, <3>4, <3>5, <3>6
      <3> QED BY <3>8, <3>9 DEF EventsInv
    <2> QED BY <2>1
  <1> QED BY <1>0, <1>9, <1>10, OnlyLoopMoves

-----------------------------------------------------------------------------
(* Policy and enforcement                                                  *)

(* What the certificate loop holds once it has something to decide         *)
LEMMA CertInHand ==
    ASSUME ReflectorInv, loop["cert"].at \notin {"idle", "ended"}
    PROVE  \E old \in LoopStates("cert"), e \in ParsedCerts :
              /\ old = loop["cert"] /\ LoopSound(old) /\ EnforcesWithCause(old)
              /\ e = old.ev /\ ParsedID(e) # None
  <1>1. "cert" \in Rings
    BY DEF Rings
  <1>2. loop["cert"] \in LoopStates("cert") /\ LoopSound(loop["cert"])
    BY <1>1, LoopTypes
  <1>3. EnforcesWithCause(loop["cert"])
    BY DEF ReflectorInv, LoopInv
  <1> QED BY <1>2, <1>3 DEF EnforcesWithCause

(* A violation is raised only if the query has a result and the policy's   *)
(* value is an object that does not say allow                              *)
LEMMA EvaluateStep ==
    ASSUME ReflectorInv, Evaluate
    PROVE  ReflectorInv'
  <1>t. "cert" \in Rings /\ "cert" # "tls"
    BY DEF Rings
  <1>0. /\ UNCHANGED <<alive, born, starts, tcp, parsed, ring, denyMap, events, posted>>
        /\ loop["cert"].at = "evaluate"
    BY DEF Evaluate, enforceVars
  <1>1. PICK old \in LoopStates("cert") :
            /\ old = loop["cert"] /\ LoopSound(old) /\ EnforcesWithCause(old)
            /\ old.ev \in ParsedCerts /\ ParsedID(old.ev) # None
    BY <1>0, CertInHand
  <1>2. PICK e \in ParsedCerts : e = old.ev /\ ParsedID(e) # None
    BY <1>1
  <1>r. PICK rs \in QueryResults(ParsedID(e), e.pid) :
            loop' = [loop EXCEPT !["cert"] =
                        IF Eval(rs) THEN Idle
                        ELSE [old EXCEPT !.at = "offer", !.next = "enforce",
                                         !.outbox = <<policyViolationToProto(e)>>]]
    BY <1>t, <1>1, <1>2, LoopTypes DEF Evaluate
  <1>3. PICK l :
            /\ l = IF Eval(rs) THEN Idle
                   ELSE [old EXCEPT !.at = "offer", !.next = "enforce",
                                    !.outbox = <<policyViolationToProto(e)>>]
            /\ loop' = [loop EXCEPT !["cert"] = l]
    BY <1>r
  <1>4. l \in LoopStates("cert") /\ LoopSound(l) /\ EnforcesWithCause(l)
    <2>1. CASE Eval(rs)
      <3>1. l = Idle
        BY <1>3, <2>1
      <3> QED BY <3>1, IdleFacts
    <2>2. CASE ~Eval(rs)
      <3>1. rs.object /\ rs.allow # "true"
        BY <2>2 DEF Eval
      <3>2. Refused(ParsedID(e), e.pid)
        BY <1>r, <3>1 DEF QueryResults, NoDecision, Refused
      <3>3. Blamed(e.pid)
        <4>1. PICK p \in Processes : PID[p] = e.pid /\ <<p, e.buf>> \in parsed
          BY CertOutbox, <1>2
        <4>2. e.buf \in Buffers /\ SPIFFEID[e.buf] # None /\ Refused(SPIFFEID[e.buf], PID[p])
          BY <1>2, <3>2, <4>1, CertOutbox
        <4> QED BY <4>1, <4>2 DEF Blamed, Denied
      <3>4. policyViolationToProto(e) \in Honest
        BY <1>2, <3>3, CertOutbox DEF Honest
      <3>5. PICK out \in Seq(Honest) : out = <<policyViolationToProto(e)>> /\ out # <<>>
        BY <3>4, ShortSeqs
      <3>6. l = [old EXCEPT !.at = "offer", !.next = "enforce", !.outbox = out]
        BY <1>3, <2>2, <3>5
      <3>7. old.todo = {}
        BY <1>0, <1>1 DEF LoopSound
      <3>8. /\ l.at = "offer" /\ l.next = "enforce" /\ l.outbox = out
            /\ l.ev = e /\ l.todo = {}
        BY <1>2, <3>6, <3>7 DEF LoopStates
      <3>9. l \in LoopStates("cert")
        BY <3>6 DEF LoopStates
      <3> QED BY <1>2, <3>3, <3>5, <3>8, <3>9 DEF LoopSound, EnforcesWithCause
    <2> QED BY <2>1, <2>2
  <1>5. LoopInv'
    BY <1>t, <1>0, <1>3, <1>4, LoopMoves DEF ReflectorInv
  <1> QED BY <1>0, <1>5, OnlyLoopMoves

LEMMA SnapshotStep ==
    ASSUME ReflectorInv, Snapshot
    PROVE  ReflectorInv'
  <1>t. "cert" \in Rings /\ "cert" # "tls"
    BY DEF Rings
  <1>0. /\ UNCHANGED <<alive, born, starts, tcp, parsed, ring, denyMap, events, posted>>
        /\ loop["cert"].at = "enforce"
    BY DEF Snapshot, enforceVars
  <1>1. PICK old \in LoopStates("cert") :
            /\ old = loop["cert"] /\ LoopSound(old) /\ EnforcesWithCause(old)
            /\ old.ev \in ParsedCerts /\ ParsedID(old.ev) # None
    BY <1>0, CertInHand
  <1>s. PICK conns \in {{}, {TCPConn(c) : c \in ConnsByPID(old.ev.pid)}} :
            loop' = [loop EXCEPT !["cert"] =
                        IF conns = {} THEN Idle
                        ELSE [old EXCEPT !.at = "deny", !.todo = conns]]
    BY <1>t, <1>1, LoopTypes DEF Snapshot
  <1>2. PICK l :
            /\ l = IF conns = {} THEN Idle ELSE [old EXCEPT !.at = "deny", !.todo = conns]
            /\ loop' = [loop EXCEPT !["cert"] = l]
    BY <1>s
  <1>3. conns \subseteq Flows(old.ev.pid) /\ conns \subseteq {TCPConn(c) : c \in Conns}
    <2>1. PICK p \in Processes : PID[p] = old.ev.pid /\ Denied(p)
      BY <1>0, <1>1 DEF EnforcesWithCause, Blamed
    <2>2. ProcInv /\ born[p] # 0
      BY <2>1 DEF ReflectorInv, NodeInv, ProcInv, Denied
    <2>3. ASSUME NEW c \in ConnsByPID(old.ev.pid) PROVE c \in Conns /\ Hit(old.ev.pid, c)
      <3>1. PICK q \in alive : PID[q] = old.ev.pid /\ Sock[c].ns = NetNS[q]
        BY <2>3 DEF ConnsByPID
      <3>2. q \in Processes /\ Inherits(q, p)
        BY <2>1, <2>2, <3>1 DEF ProcInv, Inherits
      <3>3. c \in Conns /\ Reachable(q, c)
        BY <2>3, <3>1 DEF ConnsByPID, Reachable
      <3> QED BY <2>1, <3>2, <3>3 DEF Hit
    <2> QED BY <1>s, <2>3 DEF Flows
  <1>4. l \in LoopStates("cert") /\ LoopSound(l) /\ EnforcesWithCause(l)
    <2>1. CASE conns = {}
      <3>1. l = Idle
        BY <1>2, <2>1
      <3> QED BY <3>1, IdleFacts
    <2>2. CASE conns # {}
      <3>1. l = [old EXCEPT !.at = "deny", !.todo = conns]
        BY <1>2, <2>2
      <3>2. l \in LoopStates("cert")
        BY <1>3, <3>1 DEF LoopStates
      <3>3. /\ l.at = "deny" /\ l.todo = conns /\ l.outbox = old.outbox
            /\ l.next = old.next /\ l.ev = old.ev
        BY <3>1 DEF LoopStates
      <3>4. LoopSound(l)
        BY <1>0, <1>1, <2>2, <3>3 DEF LoopSound
      <3>5. EnforcesWithCause(l)
        BY <1>0, <1>1, <1>3, <3>3 DEF EnforcesWithCause
      <3> QED BY <3>2, <3>4, <3>5
    <2> QED BY <2>1, <2>2
  <1>5. LoopInv'
    BY <1>t, <1>0, <1>2, <1>4, LoopMoves DEF ReflectorInv
  <1> QED BY <1>0, <1>5, OnlyLoopMoves

(* An LRU map never holds more than its capacity                           *)
LEMMA PutBounded ==
    ASSUME NEW key, Put(key), IsFiniteSet(denyMap), Cardinality(denyMap) <= MaxDeny
    PROVE  /\ IsFiniteSet(denyMap') /\ Cardinality(denyMap') <= MaxDeny
           /\ denyMap' \subseteq denyMap \cup {key}
  <1>0. MaxDeny \in Nat /\ Cardinality(denyMap) \in Nat
    BY EnforcementAssumption, FS_CardinalityType
  <1>1. CASE key \in denyMap
    <2>1. denyMap' = denyMap
      BY <1>1 DEF Put
    <2> QED BY <2>1
  <1>2. CASE key \notin denyMap /\ Cardinality(denyMap) < MaxDeny
    <2>1. denyMap' = denyMap \cup {key}
      BY <1>2 DEF Put
    <2>2. IsFiniteSet(denyMap \cup {key}) /\ Cardinality(denyMap \cup {key}) = Cardinality(denyMap) + 1
      BY <1>2, FS_AddElement
    <2> QED BY <1>0, <1>2, <2>1, <2>2
  <1>3. CASE key \notin denyMap /\ ~(Cardinality(denyMap) < MaxDeny)
    <2>1. PICK victim \in denyMap : denyMap' = (denyMap \ {victim}) \cup {key}
      BY <1>3 DEF Put
    <2>2. PICK rest : rest = denyMap \ {victim}
      OBVIOUS
    <2>3. IsFiniteSet(rest) /\ Cardinality(rest) = Cardinality(denyMap) - 1
      BY <2>2, FS_RemoveElement
    <2>4. IsFiniteSet(rest \cup {key}) /\ Cardinality(rest \cup {key}) = Cardinality(rest) + 1
      BY <1>3, <2>2, <2>3, FS_AddElement
    <2>5. denyMap' = rest \cup {key} /\ rest \subseteq denyMap
      BY <2>1, <2>2
    <2> QED BY <1>0, <2>3, <2>4, <2>5
  <1> QED BY <1>1, <1>2, <1>3

LEMMA DenyStep ==
    ASSUME ReflectorInv, Deny
    PROVE  ReflectorInv'
  <1>t. "cert" \in Rings /\ "cert" # "tls"
    BY DEF Rings
  <1>0. /\ UNCHANGED <<alive, born, starts, tcp, parsed, ring, events, posted>>
        /\ loop["cert"].at = "deny"
    BY DEF Deny, procVars
  <1>1. PICK old \in LoopStates("cert") :
            /\ old = loop["cert"] /\ LoopSound(old) /\ EnforcesWithCause(old)
            /\ old.ev \in ParsedCerts /\ ParsedID(old.ev) # None
    BY <1>0, CertInHand
  <1>d. PICK conn \in loop["cert"].todo :
            /\ DenyFlow(conn) \/ UNCHANGED denyMap
            /\ loop' = [loop EXCEPT !["cert"] =
                          IF loop["cert"].todo = {conn} THEN Idle
                          ELSE [loop["cert"] EXCEPT !.todo = loop["cert"].todo \ {conn}]]
    BY DEF Deny
  <1>2. PICK l :
            /\ conn \in old.todo
            /\ DenyFlow(conn) \/ UNCHANGED denyMap
            /\ l = IF old.todo = {conn} THEN Idle ELSE [old EXCEPT !.todo = old.todo \ {conn}]
            /\ loop' = [loop EXCEPT !["cert"] = l]
    BY <1>1, <1>d
  <1>3. l \in LoopStates("cert") /\ LoopSound(l) /\ EnforcesWithCause(l)
    <2>1. CASE old.todo = {conn}
      <3>1. l = Idle
        BY <1>2, <2>1
      <3> QED BY <3>1, IdleFacts
    <2>2. CASE old.todo # {conn}
      <3>1. PICK todo : todo = old.todo \ {conn} /\ todo # {} /\ todo \subseteq old.todo
        BY <1>2, <2>2
      <3>2. l = [old EXCEPT !.todo = todo]
        BY <1>2, <2>2, <3>1
      <3>3. l \in LoopStates("cert")
        BY <3>1, <3>2 DEF LoopStates
      <3>4. /\ l.at = old.at /\ l.todo = todo /\ l.outbox = old.outbox
            /\ l.next = old.next /\ l.ev = old.ev
        BY <3>2 DEF LoopStates
      <3>5. LoopSound(l)
        BY <1>0, <1>1, <3>1, <3>4 DEF LoopSound
      <3>6. EnforcesWithCause(l)
        BY <1>1, <3>1, <3>4 DEF EnforcesWithCause
      <3> QED BY <3>3, <3>5, <3>6
    <2> QED BY <2>1, <2>2
  <1>4. LoopInv'
    BY <1>t, <1>0, <1>2, <1>3, LoopMoves DEF ReflectorInv
  <1>5. UNCHANGED denyMap \/ DenyInv'
    <2>1. CASE DenyFlow(conn)
      <3>1. PICK key : key = makeFlowKey(conn) /\ Put(key)
        BY <2>1 DEF DenyFlow
      <3>2. /\ IsFiniteSet(denyMap') /\ Cardinality(denyMap') <= MaxDeny
            /\ denyMap' \subseteq denyMap \cup {key}
        BY <3>1, PutBounded DEF ReflectorInv, DenyInv
      <3>3. conn \in Flows(old.ev.pid)
        BY <1>1, <1>2 DEF EnforcesWithCause
      <3>4. old.ev.pid \in Pids
        BY <1>1, CertOutbox
      <3>5. PICK c \in Conns : Hit(old.ev.pid, c) /\ conn = TCPConn(c)
        BY <3>3 DEF Flows
      <3>6. \A k \in denyMap' : \E pid \in Pids, d \in Conns :
                Hit(pid, d) /\ k = makeFlowKey(TCPConn(d))
        BY <3>1, <3>2, <3>4, <3>5 DEF ReflectorInv, DenyInv
      <3>7. \A pid, d : d \in Conns /\ Hit(pid, d) => Hit(pid, d)'
        BY <1>0, SteadyGrows, JustificationsGrow
      <3> QED BY <3>2, <3>6, <3>7 DEF DenyInv
    <2> QED BY <1>2, <2>1
  <1> QED BY <1>0, <1>4, <1>5, OnlyLoopMoves

LEMMA DrainStep ==
    ASSUME ReflectorInv, Drain
    PROVE  ReflectorInv'
  <1>0. /\ UNCHANGED <<alive, born, starts, tcp, parsed, ring, denyMap, loop, posted>>
        /\ events # <<>> /\ events' = Tail(events)
    BY DEF Drain, enforceVars
  <1>1. Grows
    BY <1>0, SteadyGrows
  <1>2. PICK evs \in Seq(Honest) : evs = events /\ evs # <<>> /\ Len(evs) <= ChannelCap
    BY <1>0 DEF ReflectorInv, EventsInv
  <1>3. Tail(evs) \in Seq(Honest) /\ Len(Tail(evs)) = Len(evs) - 1 /\ Len(evs) \in Nat
    BY <1>2, HeadTailProperties
  <1>4. ChannelCap \in Nat
    BY ReflectorAssumption
  <1>5. EventsInv'
    <2>1. Seq(Honest) \subseteq Seq(Honest)'
      BY <1>1, JustificationsGrow, SeqGrows
    <2>2. Len(Tail(evs)) <= ChannelCap
      BY <1>2, <1>3, <1>4
    <2> QED BY <1>0, <1>2, <1>3, <2>1, <2>2 DEF EventsInv
  <1>6. LoopInv'
    BY <1>0, <1>1, UntouchedStays
  <1> QED BY <1>0, <1>5, <1>6, OnlyLoopMoves

LEMMA NothingStep ==
    ASSUME ReflectorInv,
           UNCHANGED <<alive, born, starts, tcp, denyMap, ring, loop, events, posted, parsed>>
    PROVE  ReflectorInv'
  <1>1. Grows
    BY SteadyGrows
  <1>2. LoopInv'
    BY <1>1, UntouchedStays
  <1> QED BY <1>2, OnlyLoopMoves

-----------------------------------------------------------------------------
(* Theorems                                                                *)

LEMMA ReflectorStart ==
    ASSUME ReflectorInit
    PROVE  ReflectorInv
  <1>p. ProcInv
    <2>1. /\ alive = Running /\ starts = 1 /\ parsed = {}
          /\ born = [p \in Processes |-> IF p \in Running THEN 1 ELSE 0]
      BY DEF ReflectorInit, EnforcementInit
    <2> QED BY <2>1, EnforcementAssumption DEF ProcInv
  <1>0. /\ tcp = [c \in Conns |-> IF c \in Existing THEN "ESTABLISHED" ELSE "CLOSED"]
        /\ denyMap = {} /\ ring = [r \in Rings |-> <<>>] /\ events = <<>>
        /\ posted = {} /\ parsed = {}
    BY DEF ReflectorInit, EnforcementInit
  <1>c. /\ RingCap \in Nat /\ ChannelCap \in Nat /\ MaxDeny \in Nat
    BY ReflectorAssumption, EnforcementAssumption
  <1>1. NodeInv
    BY <1>p, <1>0 DEF NodeInv
  <1>2. RingInv
    <2>1. \A r \in Rings : <<>> \in Seq(Raw(r))
      BY ShortSeqs
    <2> QED BY <1>0, <1>c, <2>1 DEF RingInv
  <1>3. EventsInv
    BY <1>0, <1>c, ShortSeqs DEF EventsInv
  <1>4. LoopInv
    <2>1. DOMAIN loop = Rings /\ \A r \in Rings : loop[r] \in {Idle, Ended}
      BY DEF ReflectorInit
    <2>2. {"tls", "cert"} \subseteq Rings
      BY DEF Rings
    <2> QED BY <2>1, <2>2, IdleFacts DEF LoopInv
  <1>5. DenyInv
    BY <1>0, <1>c, FS_EmptySet DEF DenyInv
  <1>6. PostedInv
    BY <1>0 DEF PostedInv
  <1> QED BY <1>1, <1>2, <1>3, <1>4, <1>5, <1>6 DEF ReflectorInv

LEMMA ReflectorStep ==
    ASSUME ReflectorInv, [ReflectorNext]_reflectorVars
    PROVE  ReflectorInv'
  <1>1. CASE \/ \E p \in Processes, e \in Records : Captured(p, "tls", e)
             \/ \E p \in Processes, e \in Certificates : Captured(p, "cert", e)
    BY <1>1, CapturedStep
  <1>2. CASE \E c \in Conns : Connection(c) \/ Established(c) \/ Finished(c)
    BY <1>2, ConnectionStep
  <1>p. CASE \E p \in Processes : Start(p) \/ Exit(p)
    BY <1>p, StartStep, ExitStep
  <1>3. CASE \E r \in Rings : Loop(r)
    <2>1. PICK r \in Rings : Loop(r)
      BY <1>3
    <2> QED BY <2>1, ReadStep, ReadFailsStep, OfferStep, ForwardStep, EvaluateStep,
               SnapshotStep, DenyStep DEF Loop
  <1>4. CASE Drain
    BY <1>4, DrainStep
  <1>5. CASE Cancel \/ UNCHANGED reflectorVars
    BY <1>5, NothingStep DEF Cancel, reflectorVars, enforceVars
  <1> QED BY <1>1, <1>2, <1>p, <1>3, <1>4, <1>5 DEF ReflectorNext, Node

(* The inductive invariant holds in every reachable state: whatever a ring,*)
(* an outbox, the channel or the deny map holds carries its justification. *)
THEOREM ReflectorInvariant == ReflectorSpec => []ReflectorInv
  <1>1. ReflectorInit => ReflectorInv
    BY ReflectorStart
  <1>2. ReflectorInv /\ [ReflectorNext]_reflectorVars => ReflectorInv'
    BY ReflectorStep
  <1> QED BY <1>1, <1>2, PTL DEF ReflectorSpec

(* Rings, channel and deny map stay within their capacities and every loop *)
(* of main.go is in a state it can continue from.                          *)
THEOREM ReflectorTypeCorrect == ReflectorSpec => []ReflectorTypeOK
  <1>1. ReflectorInv => ReflectorTypeOK
    <2> SUFFICES ASSUME ReflectorInv PROVE ReflectorTypeOK
      OBVIOUS
    <2>1. \A r \in Rings : Len(ring[r]) <= RingCap
      BY DEF ReflectorInv, RingInv
    <2>2. Len(events) <= ChannelCap
      BY DEF ReflectorInv, EventsInv
    <2>3. \A r \in Rings :
            /\ loop[r].at \in {"idle", "forward", "offer", "evaluate", "enforce", "deny", "ended"}
            /\ loop[r].at \in {"forward", "offer"} <=> loop[r].outbox # <<>>
            /\ loop[r].at = "deny" <=> loop[r].todo # {}
      BY DEF ReflectorInv, LoopInv, LoopStates, LoopSound
    <2> QED BY <2>1, <2>2, <2>3 DEF ReflectorInv, NodeInv, ProcInv, DenyInv, ReflectorTypeOK
  <1> QED BY <1>1, ReflectorInvariant, PTL

(* The certificate loop (main.go:384-437) raises a violation only with the *)
(* PID of a process that parsed a certificate the policy refuses, default  *)
(* or loaded from a file, well formed or not, and whatever the query fails *)
(* to return; and enforceTC puts only connections of such a process, or of *)
(* one that was given its PID since, into the deny map, whatever processes *)
(* and connections do between the certificate and the insertion.           *)
THEOREM BlameCorrect == ReflectorSpec => []BlameHasCause
  <1>1. ReflectorInv => BlameHasCause
    <2> SUFFICES ASSUME ReflectorInv PROVE BlameHasCause
      OBVIOUS
    <2>1. PICK S : S = Honest
      OBVIOUS
    <2>2. PICK evs \in Seq(S) : evs = events
      BY <2>1 DEF ReflectorInv, EventsInv
    <2>3. \A i \in DOMAIN evs : evs[i] \in S
      OBVIOUS
    <2>4. \A i \in DOMAIN events : events[i].kind = "POLICY_VIOLATION" => Blamed(events[i].pid)
      BY <2>1, <2>2, <2>3 DEF Honest
    <2> QED BY <2>4 DEF ReflectorInv, DenyInv, Blamed, Hit, BlameHasCause
  <1> QED BY <1>1, ReflectorInvariant, PTL

(* What ExtractOTLPFromTLS returns without the truncation mark has every   *)
(* byte the request states.                                                *)
LEMMA SignalIsWhole ==
    ASSUME NEW e \in Records, OTLPSignals[e].found, ~OTLPSignals[e].truncated,
           OTLPSignals[e].raw.bytes > 0, Plaintext[e.buf].length > 0
    PROVE  IF Plaintext[e.buf].path = "grpc"
           THEN OTLPSignals[e].raw = [start |-> GRPCPrefix, bytes |-> Plaintext[e.buf].frame]
           ELSE OTLPSignals[e].raw.start = 0 /\ OTLPSignals[e].raw.bytes >= Plaintext[e.buf].length
  <1>1. PICK msg : msg = Plaintext[e.buf]
    OBVIOUS
  <1>2. /\ msg.header \in Nat /\ msg.length \in Nat /\ msg.frame \in Nat /\ e.len \in Nat
        /\ msg.path = "grpc" /\ msg.length > 0 => msg.length >= GRPCPrefix
    BY <1>1, ReflectorAssumption
  <1>3. PICK proto : proto = ProtoBody(msg, e.len - msg.header)
    OBVIOUS
  <1>4. OTLPSignals[e] = ExtractOTLPFromTLS(msg, e.len)
    BY <1>1 DEF OTLPSignals
  <1>5. ~(msg.path = "other" \/ e.len < msg.line)
    <2>1. CASE msg.path = "other" \/ e.len < msg.line
      <3>1. OTLPSignals[e] = NotOTLP
        BY <1>4, <2>1 DEF ExtractOTLPFromTLS
      <3>2. ~NotOTLP.found
        BY DEF NotOTLP
      <3> QED BY <3>1, <3>2
    <2> QED BY <2>1
  <1>6. ~(findHeaderEnd(msg, e.len) \in {-1, e.len} \/ proto = NoBody)
    BY <1>3, <1>4, <1>5 DEF ExtractOTLPFromTLS, Signal
  <1>7. /\ OTLPSignals[e].truncated = IsTruncated(msg, e.len)
        /\ OTLPSignals[e].raw = IF IsTruncated(msg, e.len) THEN NoBody ELSE proto
    BY <1>3, <1>4, <1>5, <1>6 DEF ExtractOTLPFromTLS, Signal
  <1>8. ~IsTruncated(msg, e.len) /\ OTLPSignals[e].raw = proto
    BY <1>7
  <1>9. e.len - msg.header >= msg.length
    BY <1>1, <1>2, <1>8 DEF IsTruncated
  <1>10. CASE msg.path = "grpc"
    <2>1. ~(e.len - msg.header < GRPCPrefix)
      BY <1>1, <1>2, <1>9, <1>10 DEF GRPCPrefix
    <2>2. proto = [start |-> GRPCPrefix, bytes |-> msg.frame]
      BY <1>3, <1>6, <1>10, <2>1 DEF ProtoBody
    <2> QED BY <1>1, <1>8, <1>10, <2>2
  <1>11. CASE msg.path # "grpc"
    <2>1. proto = [start |-> 0, bytes |-> e.len - msg.header]
      BY <1>3, <1>11 DEF ProtoBody
    <2> QED BY <1>1, <1>8, <1>9, <1>11, <2>1
  <1> QED BY <1>10, <1>11

(* Whatever the capture limit cuts off, the collector is sent only bodies  *)
(* with every byte their request states, for HTTP and gRPC alike           *)
(* (otlp.go:84-120, forward/otlp.go:41-49).                                *)
THEOREM PostedCorrect == ReflectorSpec => []PostedIsWhole
  <1>1. ReflectorInv => PostedIsWhole
    <2> SUFFICES ASSUME ReflectorInv, NEW p \in posted, Plaintext[p.buf].length > 0
                 PROVE  IF Plaintext[p.buf].path = "grpc"
                        THEN p.raw = [start |-> GRPCPrefix, bytes |-> Plaintext[p.buf].frame]
                        ELSE p.raw.start = 0 /\ p.raw.bytes >= Plaintext[p.buf].length
      BY DEF PostedIsWhole
    <2>1. PICK e \in Records :
              /\ OTLPSignals[e].found /\ ~OTLPSignals[e].truncated /\ OTLPSignals[e].raw.bytes > 0
              /\ p = [buf |-> e.buf, raw |-> OTLPSignals[e].raw]
      BY DEF ReflectorInv, PostedInv
    <2>2. p.buf = e.buf /\ p.raw = OTLPSignals[e].raw
      BY <2>1
    <2> QED BY <2>1, <2>2, SignalIsWhole
  <1> QED BY <1>1, ReflectorInvariant, PTL
=============================================================================
