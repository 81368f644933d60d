---------------------------- MODULE SessionSafety ----------------------------
(* What the session map promises, and what its comments and documents say *)
EXTENDS SessionAPI

Events == {[s EXCEPT !.at = t] : s \in Shapes, t \in Times}

EntryRecords ==
    [node : Nodes, conn : Conns, identity : Identities \cup {NoIdentity},
     kind : IdentityTypes \cup {"unknown", ""}, tool : Tools \cup {NoTool},
     token : Tokens \cup {NoToken}, pid : Nat, last : Times, status : Statuses]

Locals ==
    [pc : {"openObserve", "track", "relock", "args", "observe"}, ev : Events,
     ref : Refs \cup {NoRef}, class : RotationClasses, tool : Tools \cup {NoTool}]

SessionTypeOK ==
    /\ RotationTypeOK
    /\ windows \in [Identities -> Seq(Windows)]
    /\ entries \in [Keys -> Refs \cup {NoRef}]
    /\ heap \in [Refs -> EntryRecords \cup {Blank}]
    /\ hand \in [Handlers -> Locals \cup {Idle}]
    /\ clock \in 0 .. MaxTime
    /\ received \in 0 .. MaxEvents

-----------------------------------------------------------------------------
(* The heap is sound, whatever the interleaving: every key refers to an    *)
(* entry of its own, no two keys share one, and a handler that works on an *)
(* entry outside the mutex still has one, even after the key is gone.      *)
HeapSound ==
    /\ \A k \in Present : EntryAt(k) # Blank
    /\ \A j, k \in Present : entries[j] = entries[k] => j = k
    /\ \A k \in Present \cap ConnKeys : k = <<"conn", EntryAt(k).node, EntryAt(k).conn>>
    /\ \A k \in Present \cap RotationKeys :
          /\ EntryAt(k).status \in RotationStatuses
          /\ k = <<"rotation", EntryAt(k).identity, EntryAt(k).last>>
    /\ \A h \in Handlers : hand[h].pc \in {"track", "relock", "args", "observe"} =>
          heap[hand[h].ref] # Blank

(* A rotation in the audit trail is backed by the tracker: while it is in  *)
(* the map, the identity has an earlier and a later certificate on record  *)
(* (map.go:236-249).                                                       *)
AuditBackedByHistory ==
    \A k \in Present \cap RotationKeys : Len(history[k[2]]) >= 2

(* What GET /attest says and what GET /profile says agree: an identity     *)
(* attested for an active connection as a SPIFFE ID has a profile, unless  *)
(* a handler still holds the event that starts it.  The two come from      *)
(* different trackers with locks of their own (map.go:139-144, 179-184).   *)
AttestedHasProfile ==
    \A c, d \in Conns :
        \A k \in handleAttest(FALSE, 0, SourceOf[c], DestOf[d]).body :
            LET id == EntryAt(k).identity
                onItsWay(h) ==
                    \/ hand[h].pc = "openObserve" /\ pickIdentity(hand[h].ev)[1] = id
                    \/ /\ hand[h].pc \in {"track", "relock", "args", "observe"}
                       /\ heap[hand[h].ref].identity = id
            IN  (EntryAt(k).status = "active" /\ EntryAt(k).kind = "spiffe") =>
                   handleProfile(id).code = 200 \/ \E h \in Handlers : onItsWay(h)

-----------------------------------------------------------------------------
Restarted == \E h \in Handlers : Crash(h)

Removed == {k \in Present : entries'[k] = NoRef}
Inserted == {k \in Keys : entries'[k] \notin {NoRef, entries[k]}}
Kept == {k \in Present : entries'[k] = entries[k]}

(* A handler takes an event off its stream *)
Receiving == \E h \in Handlers : Receives(h)

(* RT-005, as far as it holds: a map at its cap never grows by an OPEN;    *)
(* what takes it past the cap is a rotation entry (map.go:135-138).        *)
OnlyRotationsExceedCap ==
    [][(maxEntries > 0 /\ Size >= maxEntries /\ Size' > Size) =>
          \A k \in Inserted : heap'[entries'[k]].status \in RotationStatuses]_sessionVars

(* Three ways out of the map.  Sweep found the entry dead and too old      *)
(* (map.go:417-441).  An OPEN needed room in a full map and it was the     *)
(* oldest of the dead entries, or of all when none was dead, rotation      *)
(* entries among them (map.go:135, 446-468).  Another entry took its key:  *)
(* for an event of its connection (map.go:138, 215), or, under a synthetic *)
(* key, a rotation of the same identity and instant (map.go:247-248).      *)
Swept(k) ==
    \/ EntryAt(k).status = "closed" /\ EntryAt(k).last + staleTTL < clock
    \/ EntryAt(k).status = "stale" /\ EntryAt(k).last + 2 * staleTTL < clock

Evicted(k) ==
    LET dead(j) == EntryAt(j).status \in {"closed", "stale"}
    IN  /\ maxEntries > 0 /\ Size >= maxEntries
        /\ Receiving /\ \E j \in Inserted : heap'[entries'[j]].status = "active"
        /\ dead(k) \/ \A j \in Present : ~dead(j)
        /\ \A j \in Present : (dead(k) => dead(j)) => EntryAt(k).last <= EntryAt(j).last

Displaced(k) ==
    LET new == heap'[entries'[k]]
    IN  IF k \in ConnKeys THEN Receiving /\ new.status \in {"active"} \cup RotationStatuses
        ELSE new.status \in RotationStatuses /\ k = <<"rotation", new.identity, new.last>>

(* An entry leaves the map only by one of them: no event, sweep or resumed *)
(* stream drops another entry, and whoever inserts one removes at most one *)
(* besides the one whose key it takes.                                     *)
EntriesLeaveForAReason ==
    [][~Restarted =>
          /\ \A k \in Removed : Swept(k) \/ Evicted(k)
          /\ \A k \in Present \cap Inserted : Displaced(k)
          /\ Inserted # {} => \A j, k \in Removed : j = k]_sessionVars

(* An entry of the audit trail is edited by nobody but its connection: a   *)
(* synthetic entry never changes while it is in the map, and one that a    *)
(* CERT_ROTATION_* event left under a connection's key (map.go:215) only   *)
(* by a CLOSE or a DATA_EXCHANGE that is being received, or by a handler   *)
(* that looked it up and waited for the mutex; its identity and PID stay,  *)
(* and its status, unless the connection closes (map.go:146-178).          *)
OnlyItsConnectionEditsAudit ==
    [][\A k \in Kept :
          LET old == heap[entries[k]]
              new == heap'[entries[k]]
          IN  (old.status \in RotationStatuses /\ new # old) =>
                 /\ k \in ConnKeys
                 /\ \/ Receiving
                    \/ \E h \in Handlers : hand[h].pc = "relock" /\ hand[h].ref = entries[k]
                 /\ old.identity # NoIdentity =>
                       new.identity = old.identity /\ new.kind = old.kind
                 /\ new.pid = old.pid
                 /\ new.status \in {old.status, "closed"}]_sessionVars

(* First observation wins, also between handlers that have the same entry  *)
(* in hand: an identity or a Boundary token an entry has is never replaced *)
(* while the entry lives (map.go:160-164, 175-178).                        *)
FirstObservationWins ==
    [][\A k \in Kept :
          LET old == heap[entries[k]]
              new == heap'[entries[k]]
          IN  /\ old.identity # NoIdentity =>
                    new.identity = old.identity /\ new.kind = old.kind
              /\ old.token # NoToken => new.token = old.token]_sessionVars

(* An event that was looked up before its connection was replaced (the     *)
(* port reused, the key re-opened) does not write into the successor: when *)
(* the handler has the mutex again, an entry that took the key over        *)
(* meanwhile stays as it is (map.go:172-178).                              *)
LateEventSparesSuccessor ==
    [][\A h \in Handlers :
          LET k == connectionKey(hand[h].ev)
          IN  (/\ hand[h].pc = "relock"
               /\ hand'[h].pc # "relock"
               /\ k \in Kept
               /\ entries[k] # hand[h].ref)
                 => heap'[entries[k]] = heap[entries[k]]]_sessionVars

-----------------------------------------------------------------------------
(* Statements of the comments and documents that the code does not meet *)

(* map.go:53: "Map is a thread-safe, observation-derived session map": no  *)
(* handler loads half a string that another one is writing.                *)
NoTornLoad ==
    \A h \in Handlers : hand[h].pc = "observe" => hand[h].tool = heap[hand[h].ref].tool
=============================================================================
