---------------------------- MODULE SessionPaging ----------------------------
(***************************************************************************)
(* A client that reads the session map page by page: GET /sessions with a  *)
(* limit and a growing offset, until a page comes back short.  Every page  *)
(* is cut from a new QueryAll, and the map changes between two requests.   *)
(* The client is external; the answers are those of handleSessions.        *)
(***************************************************************************)
EXTENDS SessionSafety

CONSTANTS Queries, Limits    \* bound: what a client may ask for

ASSUME LimitsAssumption == Limits \subseteq Int

VARIABLE client    \* the requests so far, with the entries that matched

pagingVars == <<sessionVars, client>>

Matching(q) == Cardinality(QueryAll(q))

AtRest == [pc |-> "rest"]

PagingInit == SessionInit /\ client = AtRest

(* The first request; low and high are the fewest and the most entries     *)
(* that match while the client reads.                                      *)
Begin(q, limit) ==
    /\ client = AtRest
    /\ client' = [pc |-> "reading", query |-> q, limit |-> limit, received |-> 0,
                  low |-> Matching(q), high |-> Matching(q)]
    /\ UNCHANGED sessionVars

Request ==
    /\ client.pc = "reading"
    /\ \E answer \in handleSessions(client.query, client.limit, client.received) :
         client' =
           IF answer = BadRequest THEN [pc |-> "refused", limit |-> client.limit]
           ELSE LET n == Cardinality(answer.body)
                IN  [client EXCEPT !.received = @ + n,
                                   !.pc = IF n < client.limit THEN "done" ELSE "reading"]
    /\ UNCHANGED sessionVars

(* The map goes on meanwhile.                                              *)
Watch ==
    \/ client.pc # "reading" /\ UNCHANGED client
    \/ /\ client.pc = "reading"
       /\ \E q \in {client.query} :
            LET n == Matching(q)'
            IN  client' = [client EXCEPT !.low = IF n < @ THEN n ELSE @,
                                         !.high = IF n > @ THEN n ELSE @]

PagingNext ==
    \/ \E q \in Queries, limit \in Limits : Begin(q, limit)
    \/ Request
    \/ SessionNext /\ Watch

PagingSpec == PagingInit /\ [][PagingNext]_pagingVars

(* A client that reads until a short page gets as many entries as the map  *)
(* held at some time meanwhile, at least the fewest and at most the most   *)
(* that matched: pages neither overlap nor leave a gap in number, although *)
(* entries come, go and change places between them (api.go:76-89).         *)
PagesAddUp ==
    client.pc = "done" => client.low <= client.received /\ client.received <= client.high
=============================================================================
