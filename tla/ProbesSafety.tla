---------------------------- MODULE ProbesSafety ----------------------------
(* Properties of the hooks on OpenSSL                                      *)
EXTENDS Probes

EventRecords ==
    [hook : Hooks, thread : Threads, buf : Buffers, len : Nat, orig : Int, of : CallRecords]

MaxBytes(l) == IF l = "cert" THEN MaxDER ELSE MaxCapture

(* Types: what the scratch maps and the rings hold, within their           *)
(* capacities; no event claims more bytes than its buffer has              *)
(* (tls_hook.c:113, cert_hook.c:133).                                      *)
ProbesTypeOK ==
    /\ loader \in [Loaders -> {"loading", "loaded", "failed", "closed"}]
    /\ attached \in [Hooks -> 0 .. 2]
    /\ call \in [Hooks -> [Threads -> {None} \cup CallRecords]]
    /\ scratch \in [Hooks -> [Threads -> {None} \cup Args]]
    /\ ring \in [Loaders -> Seq(EventRecords)]
    /\ half \subseteq Hooks \X Threads
    /\ calls \in 0 .. MaxCalls
    /\ \A h \in Hooks : Cardinality(InUse(h)) <= ScratchCap
    /\ \A l \in Loaders :
         /\ Len(ring[l]) <= RingCap
         /\ \A i \in 1 .. Len(ring[l]) :
              LoaderOf(ring[l][i].hook) = l /\ ring[l][i].len \in 1 .. MaxBytes(l)

(* The arguments an entry probe saved and the result a return probe saw    *)
(* are those of one call (tls_hook.c:91, cert_hook.c:119): an event shows  *)
(* the buffer of the call that returned.  The one exception is a           *)
(* certificate whose entry probe saved nothing, on a thread with an        *)
(* earlier call that the entry probe saw and the return probe did not.     *)
CaptureOfOneCall ==
    \A r \in Loaders : \A i \in 1 .. Len(ring[r]) :
        LET e == ring[r][i]
        IN  \/ e.buf = e.of.buf
            \/ e.hook = "d2i_X509" /\ ~e.of.stored /\ <<e.hook, e.thread>> \in half

(* The scratch maps do not leak (cleanup of tls_hook.c:128 and             *)
(* cert_hook.c:146): an entry belongs to a call in progress, or to one the *)
(* return probe did not see.  Entries left behind would fill the map and   *)
(* end the capture without a message.                                      *)
ScratchOfOpenCalls ==
    \A h \in Hooks : \A t \in InUse(h) :
        (call[h][t] # None /\ call[h][t].stored) \/ <<h, t>> \in half

=============================================================================
