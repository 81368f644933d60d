------------------------------ MODULE SessionAPI ------------------------------
(***************************************************************************)
(* The HTTP API of the sidecar (internal/session/api.go) with Lookup,      *)
(* QueryAll, GetProfile and GetStats of the map.  A request reads the map  *)
(* under its lock, once: a handler is a function of the state.  Where Go's *)
(* map order decides, it is the set of the answers it may give.  A page is *)
(* the set of the entries it shows, JSON and the order within it left out. *)
(***************************************************************************)
EXTENDS SessionMap

Any == "any"    \* a query parameter that is absent

BadRequest == [code |-> 400]
NotFound == [code |-> 404]
Ok(body) == [code |-> 200, body |-> body]

-----------------------------------------------------------------------------
(* GET /attest                                                             *)

(* Lookup: the most recent entries between two addresses, whatever their   *)
(* protocol and node; a pid of 0 matches all.                              *)
LookupMatches(pid, src, dst) ==
    {k \in Present : /\ SourceOf[EntryAt(k).conn] = src
                     /\ DestOf[EntryAt(k).conn] = dst
                     /\ pid = 0 \/ EntryAt(k).pid = pid
                     /\ EntryAt(k).last >= clock - AttestationTTL}

LookupBest(pid, src, dst) ==
    {k \in LookupMatches(pid, src, dst) :
        \A j \in LookupMatches(pid, src, dst) : EntryAt(j).last <= EntryAt(k).last}

(* The entries a Lookup may attest with confidence "kernel".  When there   *)
(* is none, or Go's map order picks one without an identity, the answer is *)
(* "jwt-only".                                                             *)
Attested(pid, src, dst) == {k \in LookupBest(pid, src, dst) : EntryAt(k).identity # NoIdentity}

handleAttest(given, pid, src, dst) ==
    IF given /\ pid = 0 THEN BadRequest ELSE Ok(Attested(pid, src, dst))

-----------------------------------------------------------------------------
(* GET /profile, and GetStats of GET /stats                                *)

handleProfile(identity) ==
    IF identity = NoIdentity THEN BadRequest
    ELSE IF windows[identity] = <<>> THEN NotFound
    ELSE Ok(windows[identity])

WithStatus(status) == {k \in Present : EntryAt(k).status = status}

GetStats ==
    [active |-> Cardinality(WithStatus("active")),
     closed |-> Cardinality(WithStatus("closed")),
     stale |-> Cardinality(WithStatus("stale")),
     identities |-> Cardinality({EntryAt(k).identity : k \in Present} \ {NoIdentity})]

-----------------------------------------------------------------------------
(* GET /sessions                                                           *)

QueryAll(q) ==
    {k \in Present : /\ q.identity \in {Any, EntryAt(k).identity}
                     /\ q.dest \in {Any, DestOf[EntryAt(k).conn]}
                     /\ q.status \in {Any, EntryAt(k).status}
                     /\ q.node \in {Any, EntryAt(k).node}}

Fewer(a, b) == IF a < b THEN a ELSE b

(* Variant with a defect: the offset is taken off the limit as well        *)
PageSizeShort(n, limit, offset) ==
    IF offset >= n THEN 0 ELSE Fewer(n - offset, limit - offset)

PageSize(n, limit, offset) == IF offset >= n THEN 0 ELSE Fewer(n - offset, limit)

(* entries[offset:][:limit] of QueryAll's result in any order              *)
Pages(q, limit, offset) ==
    {page \in SUBSET QueryAll(q) :
        Cardinality(page) = PageSize(Cardinality(QueryAll(q)), limit, offset)}

handleSessions(q, limit, offset) ==
    IF limit <= 0 \/ offset < 0 THEN {BadRequest}
    ELSE {Ok(page) : page \in Pages(q, limit, offset)}
=============================================================================
