------------------------------ MODULE MCPipeline ------------------------------
(* One process that connects and shows a certificate                       *)
EXTENDS Pipeline, TLC

CONSTANTS p1, pid1, pod, svid, c1, ca

OnePID == p1 :> pid1
OnePod == p1 :> pod
Socket ==
    c1 :> [family |-> "inet", ns |-> pod, proc |-> p1, role |-> "client",
           src |-> <<10, 0, 0, 1>>, sport |-> <<200, 1>>, dst |-> <<10, 0, 0, 2>>, dport |-> <<1, 187>>]

Contents ==
    svid :> [path |-> "other", line |-> 2, header |-> 4, length |-> 0, frame |-> 0,
             entries |-> <<>>, marks |-> {}]
Ids == svid :> "spiffe://prod/a"
Domains == "spiffe://prod/a" :> "prod"
Certs == {[pid |-> pid1, buf |-> svid, len |-> 2, orig |-> 2]}

MCCert == [serial |-> 1, issuer |-> ca, expiry |-> 4]
MCObservations ==
    {[serial |-> 1, issuer |-> ca, expiry |-> 4, domain |-> "prod", at |-> t, pid |-> pid1] :
        t \in 0 .. MaxTime}
=============================================================================
