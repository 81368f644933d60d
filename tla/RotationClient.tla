---------------------------- MODULE RotationClient ----------------------------
(***************************************************************************)
(* The rotation tracker under arbitrary callers: any identity, any         *)
(* observation, in any order.  Stream handlers of several nodes call Track *)
(* with the timestamps of their own nodes, so nothing orders the calls of  *)
(* one identity by time.                                                   *)
(***************************************************************************)
EXTENDS RotationTracker

VARIABLE returned   \* the last call and its result; NoCall before the first

clientVars == <<history, rateCount, rateReset, returned>>

NoCall == [class |-> "none"]

Init == RotationInit /\ returned = NoCall

(* One call of Track by some stream handler *)
Call(id, obs) ==
    /\ Track(id, obs)
    /\ returned' = [id |-> id, serial |-> obs.serial, class |-> TrackClass(id, obs)]

Next == \E id \in SpiffeIds, obs \in CertObservations : Call(id, obs)

Spec == Init /\ [][Next]_clientVars

-----------------------------------------------------------------------------
TypeOK ==
    /\ RotationTypeOK
    /\ \/ returned = NoCall
       \/ returned \in [id : SpiffeIds, serial : {o.serial : o \in CertObservations},
                        class : RotationClasses]

(* No issuer or trust domain changes silently: a step that records a       *)
(* certificate from another issuer or domain than its predecessor reports  *)
(* exactly that, never a normal or an early rotation, whatever the timing  *)
(* and the process say (rotation.go:95-109).                               *)
IssuerChangeIsReported ==
    [][\A id \in SpiffeIds :
          (history[id] # <<>> /\ history'[id] # history[id]) =>
             LET old == LastOf(history[id])
                 new == LastOf(history'[id])
             IN  /\ old.domain # new.domain => returned'.class = "domain"
                 /\ (old.domain = new.domain /\ old.issuer # new.issuer)
                       => returned'.class = "issuer"]_clientVars

(* What is reported is what is recorded: a call that reports a rotation    *)
(* makes the reported certificate the newest one of its identity, so the   *)
(* same certificate is not reported twice in a row.                        *)
ReportedOnce ==
    [][LET same == /\ returned # NoCall
                   /\ returned.class # "first_seen"
                   /\ returned'.id = returned.id
                   /\ returned'.serial = returned.serial
       IN  same => returned'.class = "first_seen"]_clientVars
=============================================================================
