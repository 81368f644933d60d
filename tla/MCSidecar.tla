------------------------------ MODULE MCSidecar ------------------------------
EXTENDS MCSession, Sidecar

(* A connection with an identity that ends, or is left alone               *)
SidecarShapes ==
    {[Bare("OPEN", n1, c1) EXCEPT !.kind = "spiffe", !.identity = w1],
     Bare("CLOSE", n1, c1)}
=============================================================================
