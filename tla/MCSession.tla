------------------------------ MODULE MCSession ------------------------------
(* The session map on small instances.  Each run chooses the events that   *)
(* may arrive; every interleaving of the handlers, the sweeper and the     *)
(* clock, and every timestamp within Lag and Skew, is explored.            *)
EXTENDS SessionSafety

CONSTANTS n1, n2, c1, c2, c3, w1, w2, svc, tokA, tokB, toolA, ca1, ca2, d1, d2

(* c1 and c2 have the same addresses and differ in their protocol *)
MCSourceOf == [c \in Conns |-> "workload"]
MCDestOf == [c \in Conns |-> IF c = c2 THEN c1 ELSE c]
MCDomainOf == [id \in SpiffeIds |-> IF id = w1 THEN d1 ELSE d2]

Bare(type, node, conn) ==
    [type |-> type, node |-> node, conn |-> conn, identity |-> NoIdentity,
     service |-> NoIdentity, kind |-> "unspecified", tool |-> NoTool, token |-> NoToken,
     cert |-> NoCert, class |-> "normal", pid |-> 0, bytes |-> 0, at |-> 0]

Cert(serial) == [serial |-> serial, issuer |-> ca1, expiry |-> 4]

WithCert(ev, id, serial) ==
    [ev EXCEPT !.kind = "spiffe", !.identity = id, !.cert = Cert(serial)]

(* Connections that come and go on two nodes, at a cap of two *)
ChurnShapes ==
    {Bare("OPEN", n1, c1), Bare("OPEN", n1, c2), Bare("OPEN", n2, c3),
     Bare("CLOSE", n1, c1), Bare("DATA", n1, c2), Bare("RESUMED", n1, c1),
     Bare("VIOLATION", n1, c1),
     [Bare("ROTATION", n2, c3) EXCEPT !.identity = w1, !.class = "issuer"]}

(* One connection whose certificate rotates while its key is reused *)
RotationShapes ==
    {Bare("OPEN", n1, c1),
     [WithCert(Bare("DATA", n1, c1), w1, 1) EXCEPT !.token = tokA],
     [WithCert(Bare("DATA", n1, c1), w1, 2) EXCEPT !.token = tokB],
     [Bare("ROTATION", n1, c1) EXCEPT !.identity = w1, !.class = "early"]}

(* One connection on which several handlers discover identities and tools *)
IdentityShapes ==
    {Bare("OPEN", n1, c1),
     [Bare("OPEN", n1, c1) EXCEPT !.kind = "spiffe", !.identity = w1],
     Bare("DATA", n1, c1),
     [Bare("DATA", n1, c1) EXCEPT !.kind = "jwt", !.identity = w2, !.token = tokA],
     [Bare("DATA", n1, c1) EXCEPT !.kind = "otel", !.service = svc, !.tool = toolA,
                                  !.token = tokB]}

(* Both: handlers track certificates and discover identities at once; the  *)
(* connection closes, and another one has the same addresses               *)
HandlerShapes ==
    (RotationShapes \cup IdentityShapes \cup {Bare("CLOSE", n1, c1), Bare("OPEN", n1, c2)})
        \ {Bare("DATA", n1, c1)}

(* Every observation the certificates above can give rise to *)
MCCertObservations ==
    {[serial |-> s, expiry |-> 4, issuer |-> ca1, domain |-> MCDomainOf[id],
      at |-> t, pid |-> 0] : s \in {1, 2}, id \in SpiffeIds, t \in Times}
=============================================================================
