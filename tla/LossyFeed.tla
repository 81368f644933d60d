------------------------------ MODULE LossyFeed ------------------------------
(***************************************************************************)
(* What the stream between a reflector and the sidecar promises: every     *)
(* event the sender was given is handed to the sidecar's handler at most   *)
(* once, and an event that is lost stays lost.  Nothing is promised about  *)
(* how many are lost.                                                      *)
(***************************************************************************)
EXTENDS Naturals

CONSTANT Events

VARIABLES
    offered,       \* events the sender was given
    deliveries,    \* event -> how often the handler was called with it
    lost           \* events that will not arrive

feedVars == <<offered, deliveries, lost>>

FeedInit ==
    /\ offered = {}
    /\ deliveries = [e \in Events |-> 0]
    /\ lost = {}

Pending == {e \in offered \ lost : deliveries[e] = 0}

Offer(e) ==
    /\ e \notin offered
    /\ offered' = offered \cup {e}
    /\ UNCHANGED <<deliveries, lost>>

Deliver(e) ==
    /\ e \in Pending
    /\ deliveries' = [deliveries EXCEPT ![e] = 1]
    /\ UNCHANGED <<offered, lost>>

Lose(S) ==
    /\ S # {}
    /\ lost' = lost \cup S
    /\ UNCHANGED <<offered, deliveries>>

FeedNext ==
    \/ \E e \in Events : Offer(e) \/ Deliver(e)
    \/ \E S \in SUBSET Pending : Lose(S)

FeedSpec == FeedInit /\ [][FeedNext]_feedVars
=============================================================================
