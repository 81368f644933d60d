------------------------------ MODULE SessionMap ------------------------------
(***************************************************************************)
(* The session map of the sidecar (internal/session/map.go) with the       *)
(* rotation tracker and the profile tracker it feeds.  Every stream has a  *)
(* handler goroutine that calls HandleEvent for one event after another; a *)
(* ticker goroutine calls Sweep; HTTP requests call Lookup.                *)
(*                                                                         *)
(* HandleEvent holds the map's mutex except in three places, where it      *)
(* unlocks to call a tracker and locks again: after an OPEN, inside        *)
(* trackCertRotation and after a DATA_EXCHANGE.  Each stretch with the     *)
(* mutex held, and each call of a tracker, is one action; between them     *)
(* other handlers, the sweeper and the clock may move.  The code keeps     *)
(* *Entry pointers across the unlocked stretches, so entries are cells of  *)
(* a heap and the map holds references to them.                            *)
(***************************************************************************)
EXTENDS RotationTracker, ProfileTracker

CONSTANTS
    Handlers,        \* goroutines running StreamEvents
    Nodes,           \* node IDs
    Conns,           \* (source address, destination address, protocol)
    SourceOf,        \* the source address of a connection
    DestOf,          \* its destination address
    DomainOf,        \* the trust domain of a SPIFFE ID
    Shapes,          \* events without their timestamp
    NoIdentity, NoTool, NoToken, NoCert,    \* the empty strings
    Refs,            \* heap cells (naturals above 0)
    maxEntries,      \* hard cap of the map
    staleTTL,
    AttestationTTL,
    Lag, Skew,       \* how far event timestamps are behind or ahead of now
    MaxTime,         \* bound: the last instant of the clock
    MaxEvents        \* bound: events received

ASSUME SessionBoundsAssumption ==
    /\ maxEntries \in Nat
    /\ staleTTL \in Nat
    /\ AttestationTTL \in Nat
    /\ Lag \in Nat /\ Skew \in Nat
    /\ MaxTime \in Nat /\ MaxEvents \in Nat
    /\ Refs \subseteq Nat \ {0}

ASSUME SessionNamesAssumption ==
    /\ SpiffeIds \subseteq Identities
    /\ NoIdentity \notin Identities
    /\ DestOf \in [Conns -> Dests \cup {NoDest}]
    /\ certHistoryMax > 1

EventTypes == {"OPEN", "CLOSE", "DATA", "RESUMED", "ROTATION", "VIOLATION"}
IdentityTypes == {"spiffe", "jwt", "mcp", "otel", "unspecified"}
Tools == {s.tool : s \in Shapes}
Tokens == {s.token : s \in Shapes}
Times == 0 .. MaxTime + Skew

(* identity is SourceIdentity, service OtelService, class the kind of      *)
(* CERT_ROTATION_* event, at the timestamp, stamped on receipt.  A         *)
(* certificate comes with its SPIFFE ID.                                   *)
ASSUME ShapesAssumption ==
    \A s \in Shapes :
        /\ DOMAIN s = {"type", "node", "conn", "identity", "service", "kind", "tool",
                       "token", "cert", "class", "pid", "bytes", "at"}
        /\ s.type \in EventTypes
        /\ s.node \in Nodes
        /\ s.conn \in Conns
        /\ s.identity \in Identities \cup {NoIdentity}
        /\ s.service \in Identities \cup {NoIdentity}
        /\ s.kind \in IdentityTypes
        /\ s.class \in RotationClasses
        /\ s.pid \in Nat /\ s.bytes \in Nat
        /\ s.kind = "spiffe" /\ s.cert # NoCert => s.identity \in SpiffeIds

VARIABLES
    entries,    \* the map: key -> cell, NoRef when the key is absent
    heap,       \* cell -> Entry, Blank when nothing refers to it
    hand,       \* per handler: where it is in HandleEvent and its locals
    clock,      \* time.Now()
    received    \* events received so far

mapVars == <<entries, heap>>
sessionVars == <<entries, heap, hand, clock, received, history, rateCount, rateReset, windows>>

NoRef == 0
Blank == [status |-> "blank"]

(* connectionKey and the synthetic key of a rotation entry *)
ConnKeys == {"conn"} \X Nodes \X Conns
RotationKeys == {"rotation"} \X SpiffeIds \X Times
Keys == ConnKeys \cup RotationKeys
connectionKey(ev) == <<"conn", ev.node, ev.conn>>

(* Variant with a defect: the key has no timestamp.                        *)
syntheticKeyOfIdentity(ev) == <<"rotation", ev.identity, 0>>

syntheticKey(ev) == <<"rotation", ev.identity, ev.at>>

RotationStatuses == {"rotation_normal", "rotation_early", "rotation_issuer", "rotation_domain"}
Statuses == {"active", "closed", "stale"} \cup RotationStatuses

rotationStatus(class) ==
    CASE class = "early"  -> "rotation_early"
      [] class = "issuer" -> "rotation_issuer"
      [] class = "domain" -> "rotation_domain"
      [] OTHER            -> "rotation_normal"

(* A handler that is between two calls of HandleEvent *)
Idle == [pc |-> "idle"]

SessionInit ==
    /\ RotationInit
    /\ ProfileInit
    /\ entries = [k \in Keys |-> NoRef]
    /\ heap = [r \in Refs |-> Blank]
    /\ hand = [h \in Handlers |-> Idle]
    /\ clock = 0
    /\ received = 0

-----------------------------------------------------------------------------
(* Cells and keys *)

Present == {k \in Keys : entries[k] # NoRef}
EntryAt(k) == heap[entries[k]]
Size == Cardinality(Present)

HeldBy(hd) == {hd[h].ref : h \in {g \in Handlers : hd[g].pc # "idle"}}

(* Go's collector: a cell that neither the map nor a handler refers to is  *)
(* blank and may be allocated again.                                       *)
Reachable(ents, hd) == {ents[k] : k \in Keys} \cup HeldBy(hd)
Collected(cells, ents, hd) ==
    LET live == Reachable(ents, hd)
    IN  [r \in Refs |-> IF r \in live THEN cells[r] ELSE Blank]

FreeRefs == Refs \ Reachable(entries, hand)
Fresh == CHOOSE r \in FreeRefs : TRUE

(* Insert the entries of ents and drop what nothing refers to any more *)
Store(ents, cells, hd) ==
    /\ entries' = ents
    /\ hand' = hd
    /\ heap' = Collected(cells, ents, hd)

Put(h, local) == [hand EXCEPT ![h] = local]

-----------------------------------------------------------------------------
(* Pieces of HandleEvent *)

pickIdentity(ev) ==
    IF ev.kind = "otel" /\ ev.service # NoIdentity THEN <<ev.service, "otel">>
    ELSE IF ev.identity = NoIdentity THEN <<NoIdentity, "">>
    ELSE <<ev.identity, IF ev.kind \in {"spiffe", "jwt", "mcp"} THEN ev.kind ELSE "unknown">>

(* Variant with a defect: the status is forgotten *)
OpenEntryNoStatus(ev) ==
    [node |-> ev.node, conn |-> ev.conn, identity |-> pickIdentity(ev)[1],
     kind |-> pickIdentity(ev)[2], tool |-> ev.tool, token |-> ev.token,
     pid |-> ev.pid, last |-> ev.at, status |-> ""]

OpenEntry(ev) ==
    [node |-> ev.node, conn |-> ev.conn, identity |-> pickIdentity(ev)[1],
     kind |-> pickIdentity(ev)[2], tool |-> ev.tool, token |-> ev.token,
     pid |-> ev.pid, last |-> ev.at, status |-> "active"]

(* Variant with a defect: stamped with the sidecar's time, not the event's *)
RotationEntryNow(ev, class) ==
    [node |-> ev.node, conn |-> ev.conn, identity |-> ev.identity,
     kind |-> "spiffe", tool |-> NoTool, token |-> NoToken,
     pid |-> ev.pid, last |-> clock, status |-> rotationStatus(class)]

RotationEntry(ev, class) ==
    [node |-> ev.node, conn |-> ev.conn, identity |-> ev.identity,
     kind |-> "spiffe", tool |-> NoTool, token |-> NoToken,
     pid |-> ev.pid, last |-> ev.at, status |-> rotationStatus(class)]

(* What a DATA_EXCHANGE writes before it may have to unlock *)
DataEntry(e, ev) ==
    [e EXCEPT !.last     = ev.at,
              !.identity = IF @ = NoIdentity THEN pickIdentity(ev)[1] ELSE @,
              !.kind     = IF e.identity = NoIdentity THEN pickIdentity(ev)[2] ELSE @,
              !.tool     = IF @ = NoTool THEN ev.tool ELSE @]

(* The Boundary token: the first one observed stays *)
WithToken(e, ev) == [e EXCEPT !.token = IF @ = NoToken THEN ev.token ELSE @]

(* evictOldest: the oldest stale or closed entry, otherwise the oldest of  *)
(* all.  Go's map order decides between entries of equal age.              *)
Dead(k) == EntryAt(k).status \in {"stale", "closed"}
(* Variant with a defect: no preference for dead entries *)
EvictableAny == Present

Evictable == IF \E k \in Present : Dead(k) THEN {k \in Present : Dead(k)} ELSE Present
OldestOf(S) == {k \in S : \A j \in S : EntryAt(k).last <= EntryAt(j).last}
Victims == OldestOf(Evictable)

(* Variant with a defect: the cap is noticed one entry too late *)
FullTooLate == maxEntries > 0 /\ Size > maxEntries

Full == maxEntries > 0 /\ Size >= maxEntries

-----------------------------------------------------------------------------
(* HandleEvent *)

Receives(h) ==
    /\ hand[h].pc = "idle"
    /\ received < MaxEvents
    /\ received' = received + 1

Local(pc, ev, ref) == [pc |-> pc, ev |-> ev, ref |-> ref, class |-> "first_seen", tool |-> NoTool]

(* Variant with a defect: only an OPEN with a certificate counts *)
FeedsProfileWithCert(ev) == pickIdentity(ev)[2] = "spiffe" /\ ev.cert # NoCert

FeedsProfile(ev) == pickIdentity(ev)[2] = "spiffe"

(* CONNECTION_OPEN: evict if full, insert, feed the profile unlocked *)
Open(h, ev) ==
    /\ Receives(h)
    /\ ev.type = "OPEN"
    /\ FreeRefs # {}
    /\ \E evicted \in (IF Full THEN {{k} : k \in Victims} ELSE {{}}) :
         Store([k \in Keys |-> IF k = connectionKey(ev) THEN Fresh
                               ELSE IF k \in evicted THEN NoRef ELSE entries[k]],
               [heap EXCEPT ![Fresh] = OpenEntry(ev)],
               IF FeedsProfile(ev)
               THEN Put(h, Local("openObserve", ev, NoRef)) ELSE hand)
    /\ UNCHANGED <<clock, rotationVars, windows>>

OpenObserve(h) ==
    /\ hand[h].pc = "openObserve"
    /\ LET ev == hand[h].ev
       IN  Observe(pickIdentity(ev)[1], DestOf[ev.conn], ev.bytes, ev.at)
    /\ Store(entries, heap, Put(h, Idle))
    /\ UNCHANGED <<clock, received, rotationVars>>

(* CONNECTION_CLOSE *)
Close(h, ev) ==
    /\ Receives(h)
    /\ ev.type = "CLOSE"
    /\ connectionKey(ev) \in Present
    /\ heap' = [heap EXCEPT ![entries[connectionKey(ev)]].status = "closed",
                            ![entries[connectionKey(ev)]].last = ev.at]
    /\ UNCHANGED <<entries, hand, clock, rotationVars, windows>>

(* What comes after the certificate was tracked, or need not be *)
AfterToken(e, ev, ref) ==
    IF e.identity # NoIdentity THEN Local("args", ev, ref) ELSE Idle

TracksCert(ev) == ev.kind = "spiffe" /\ ev.cert # NoCert

(* DATA_EXCHANGE, up to the first Unlock *)
Data(h, ev) ==
    /\ Receives(h)
    /\ ev.type = "DATA"
    /\ connectionKey(ev) \in Present
    /\ LET r     == entries[connectionKey(ev)]
           e     == DataEntry(heap[r], ev)
           final == WithToken(e, ev)
       IN  IF TracksCert(ev)
           THEN Store(entries, [heap EXCEPT ![r] = e], Put(h, Local("track", ev, r)))
           ELSE Store(entries, [heap EXCEPT ![r] = final], Put(h, AfterToken(final, ev, r)))
    /\ UNCHANGED <<clock, rotationVars, windows>>

Observation(ev) ==
    [serial |-> ev.cert.serial, expiry |-> ev.cert.expiry, issuer |-> ev.cert.issuer,
     domain |-> DomainOf[ev.identity], at |-> ev.at, pid |-> ev.pid]

(* CertObservations has what the certificates of the events give rise to *)
ASSUME CertsAssumption ==
    \A s \in Shapes, t \in Times :
        TracksCert(s) => Observation([s EXCEPT !.at = t]) \in CertObservations

(* trackCertRotation between its Unlock and its Lock *)
TrackCert(h) ==
    /\ hand[h].pc = "track"
    /\ LET ev  == hand[h].ev
           obs == Observation(ev)
       IN  /\ Track(ev.identity, obs)
           /\ hand' = Put(h, [hand[h] EXCEPT !.pc = "relock", !.class = TrackClass(ev.identity, obs)])
    /\ UNCHANGED <<entries, heap, clock, received, windows>>

(* Variant with a defect: the connection is looked up again by its key *)
LookedUpAgain(h) ==
    LET k == connectionKey(hand[h].ev)
    IN  IF entries[k] # NoRef THEN entries[k] ELSE hand[h].ref

(* The cell a handler goes on with after it has the mutex again: the one   *)
(* it found before it unlocked                                             *)
HeldCell(h) == hand[h].ref

(* Variant with a defect: a first observation is recorded as a rotation *)
RecordsAnyClass(class) == FALSE

NothingToRecord(class) == class = "first_seen"

(* The rest of DATA_EXCHANGE with the mutex held again: the synthetic      *)
(* rotation entry and the token                                            *)
Relock(h) ==
    /\ hand[h].pc = "relock"
    /\ LET ev    == hand[h].ev
           r     == HeldCell(h)
           final == WithToken(heap[r], ev)
           next  == Put(h, AfterToken(final, ev, r))
       IN  IF NothingToRecord(hand[h].class)
           THEN Store(entries, [heap EXCEPT ![r] = final], next)
           ELSE /\ FreeRefs # {}
                /\ Store([entries EXCEPT ![syntheticKey(ev)] = Fresh],
                         [heap EXCEPT ![r] = final,
                                      ![Fresh] = RotationEntry(ev, hand[h].class)],
                         next)
    /\ UNCHANGED <<clock, received, rotationVars, windows>>

(* The arguments of Observe are read without the mutex.  A Go string is    *)
(* two words: the tool name is loaded in two steps.                        *)
LoadTool(h) ==
    /\ hand[h].pc = "args"
    /\ hand' = Put(h, [hand[h] EXCEPT !.pc = "observe", !.tool = heap[hand[h].ref].tool])
    /\ UNCHANGED <<entries, heap, clock, received, rotationVars, windows>>

DataObserve(h) ==
    /\ hand[h].pc = "observe"
    /\ LET ev == hand[h].ev
           e  == heap[hand[h].ref]
       IN  Observe(e.identity, DestOf[e.conn], ev.bytes, ev.at)
    /\ Store(entries, heap, Put(h, Idle))
    /\ UNCHANGED <<clock, received, rotationVars>>

(* A torn tool name, a length without a pointer, faults in Observe and     *)
(* ends the process; the restarted sidecar has nothing.                    *)
Crash(h) ==
    /\ hand[h].pc = "observe"
    /\ hand[h].tool # heap[hand[h].ref].tool
    /\ entries' = [k \in Keys |-> NoRef]
    /\ heap' = [r \in Refs |-> Blank]
    /\ hand' = [g \in Handlers |-> Idle]
    /\ history' = [id \in SpiffeIds |-> <<>>]
    /\ rateCount' = [id \in SpiffeIds |-> 0]
    /\ rateReset' = [id \in SpiffeIds |-> NoReset]
    /\ windows' = [id \in Identities |-> <<>>]
    /\ UNCHANGED <<clock, received>>

(* CERT_ROTATION_*: stored under the connection's key, without the cap *)
StoreRotation(h, ev) ==
    /\ Receives(h)
    /\ ev.type = "ROTATION"
    /\ FreeRefs # {}
    /\ Store([entries EXCEPT ![connectionKey(ev)] = Fresh],
             [heap EXCEPT ![Fresh] = RotationEntry(ev, ev.class)], hand)
    /\ UNCHANGED <<clock, rotationVars, windows>>

(* STREAM_RESUMED: markStaleFromNode *)
Resumed(h, ev) ==
    /\ Receives(h)
    /\ ev.type = "RESUMED"
    /\ LET active == {entries[k] : k \in {j \in Present : /\ EntryAt(j).node = ev.node
                                                         /\ EntryAt(j).status = "active"}}
       IN  heap' = [r \in Refs |-> IF r \in active THEN [heap[r] EXCEPT !.status = "stale"]
                                   ELSE heap[r]]
    /\ UNCHANGED <<entries, hand, clock, rotationVars, windows>>

(* An event HandleEvent has no case for, and a CLOSE or DATA_EXCHANGE of a *)
(* connection that is not in the map                                       *)
Ignore(h, ev) ==
    /\ Receives(h)
    /\ \/ ev.type = "VIOLATION"
       \/ ev.type \in {"CLOSE", "DATA"} /\ connectionKey(ev) \notin Present
    /\ UNCHANGED <<entries, heap, hand, clock, rotationVars, windows>>

Stamps == {t \in Times : clock - Lag <= t /\ t <= clock + Skew}

HandleEvent(h) ==
    \/ \E s \in Shapes, t \in Stamps :
         LET ev == [s EXCEPT !.at = t]
         IN  \/ Open(h, ev) \/ Close(h, ev) \/ Data(h, ev) \/ StoreRotation(h, ev)
             \/ Resumed(h, ev) \/ Ignore(h, ev)
    \/ OpenObserve(h) \/ TrackCert(h) \/ Relock(h)
    \/ LoadTool(h) \/ DataObserve(h) \/ Crash(h)

-----------------------------------------------------------------------------
(* Variants with a defect: stale entries are never removed; any old entry  *)
(* goes stale                                                              *)
ExpiredClosed(e) == e.status = "closed" /\ e.last < clock - staleTTL
GoesStaleAny(e) == e.last < clock - staleTTL

(* Sweep: what happens to an entry by its status and its age *)
Expired(e) ==
    \/ e.status = "closed" /\ e.last < clock - staleTTL
    \/ e.status = "stale" /\ e.last < clock - 2 * staleTTL

GoesStale(e) == e.status = "active" /\ e.last < clock - staleTTL

Sweep ==
    /\ Store([k \in Keys |-> IF k \in Present /\ Expired(EntryAt(k)) THEN NoRef ELSE entries[k]],
             [r \in Refs |-> IF r \in {entries[k] : k \in Present} /\ GoesStale(heap[r])
                             THEN [heap[r] EXCEPT !.status = "stale"] ELSE heap[r]],
             hand)
    /\ UNCHANGED <<clock, received, rotationVars, windows>>

Tick ==
    /\ clock < MaxTime
    /\ clock' = clock + 1
    /\ UNCHANGED <<entries, heap, hand, received, rotationVars, windows>>

SessionNext == (\E h \in Handlers : HandleEvent(h)) \/ Sweep \/ Tick

SessionSpec == SessionInit /\ [][SessionNext]_sessionVars

=============================================================================
