------------------------------ MODULE MCRotation ------------------------------
(* RotationClient on small instances *)
EXTENDS RotationClient

CONSTANTS MCSerials, MCTimes, MCLifetime,
          ca1, ca2, d1, d2

(* Who presents the certificate and who issued it: two processes of one    *)
(* workload, another issuer, another trust domain with no process known.   *)
MCPresenters ==
    {<<ca1, d1, 1>>, <<ca1, d1, 2>>, <<ca2, d1, 1>>, <<ca1, d2, 0>>}

(* Certificates of a fixed lifetime, seen at any of the times *)
MCObservations ==
    {[serial |-> s, expiry |-> t + MCLifetime,
      issuer |-> p[1], domain |-> p[2], at |-> t, pid |-> p[3]] :
        s \in MCSerials, t \in MCTimes, p \in MCPresenters}
=============================================================================
