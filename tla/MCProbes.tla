------------------------------ MODULE MCProbes ------------------------------
EXTENDS ProbesSafety, TLC

CONSTANTS t1, t2, p1, b1, b2

(* Two threads of one process                                              *)
OneProcess == t1 :> p1 @@ t2 :> p1
=============================================================================
