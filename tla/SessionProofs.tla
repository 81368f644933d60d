---------------------------- MODULE SessionProofs ----------------------------
(***************************************************************************)
(* Proofs about the session map for any number of handlers, entries,       *)
(* events and heap cells.  The map first: every step but a crash either    *)
(* amends cells it may write or inserts one new cell (MapStep), and MapInv *)
(* is kept by whatever is a MapStep.  The trackers follow: SessionInv adds *)
(* what a handler that waits for the lock again knows of the certificate   *)
(* history, and that whoever named an entry is on its way to its profile.  *)
(* Last come the two modules that work with the map, the sidecar process   *)
(* and the client that reads page by page: both take no step of the map    *)
(* but its own, so they implement SessionSpec and inherit what is shown of *)
(* it.                                                                     *)
(***************************************************************************)
EXTENDS Sidecar, SessionPaging, FiniteSetTheorems, TLAPS

-----------------------------------------------------------------------------
(* The inductive invariant *)

(* A handler that has a cell of the heap in hand *)
Working == {"track", "relock", "args", "observe"}

MapTypeOK ==
    /\ entries \in [Keys -> Refs \cup {NoRef}]
    /\ heap \in [Refs -> EntryRecords \cup {Blank}]
    /\ hand \in [Handlers -> Locals \cup {Idle}]
    /\ clock \in 0 .. MaxTime
    /\ received \in 0 .. MaxEvents

(* What an entry shares with its key *)
Keyed(k, e) ==
    /\ k \in ConnKeys => k = <<"conn", e.node, e.conn>>
    /\ k \in RotationKeys => /\ e.status \in RotationStatuses
                             /\ k = <<"rotation", e.identity, e.last>>

CellsKeyed == \A k \in Present : EntryAt(k) \in EntryRecords /\ Keyed(k, EntryAt(k))
CellsOwned == \A j, k \in Present : entries[j] = entries[k] => j = k
HandsHold ==
    \A h \in Handlers :
        /\ hand[h].pc \in Working => hand[h].ref \in Refs /\ heap[hand[h].ref] \in EntryRecords
        /\ hand[h].pc = "openObserve" => hand[h].ref = NoRef

(* No handler works on a synthetic rotation entry *)
AuditOwned ==
    \A h \in Handlers, k \in Present \cap RotationKeys :
        hand[h].pc \in Working => hand[h].ref # entries[k]

(* Who tracks a certificate has one *)
CertInHand ==
    \A h \in Handlers : hand[h].pc \in {"track", "relock"} => TracksCert(hand[h].ev)

MapInv ==
    /\ MapTypeOK /\ CellsKeyed /\ CellsOwned /\ HandsHold /\ AuditOwned /\ CertInHand
    /\ IsFiniteSet(Present)

-----------------------------------------------------------------------------
(* What a step does to the map, whichever handler or sweep takes it *)

(* A cell that is written keeps its connection, its PID and the identity   *)
(* and the token it has; it does not become active, and a rotation ends    *)
(* only by being closed.                                                   *)
Amended(old, new) ==
    /\ new \in EntryRecords
    /\ new.node = old.node /\ new.conn = old.conn
    /\ old.identity # NoIdentity => new.identity = old.identity /\ new.kind = old.kind
    /\ old.token # NoToken => new.token = old.token
    /\ new.status = "active" => old.status = "active"
    /\ new.pid = old.pid
    /\ old.status \in RotationStatuses => new.status \in {old.status, "closed"}

(* Cells are written for an event of their connection, by a handler that   *)
(* waited for the mutex with the cell in hand, or because they are active. *)
Writable(r) ==
    \/ Receiving /\ \E k \in Present \cap ConnKeys : entries[k] = r
    \/ \E h \in Handlers : hand[h].pc = "relock" /\ hand[h].ref = r
    \/ heap[r].status = "active"

Rewritten(live) ==
    \A r \in live \cap Refs :
        heap'[r] = heap[r] \/ (Writable(r) /\ Amended(heap[r], heap'[r]))

HandsKept ==
    \A h \in Handlers :
        /\ hand'[h].pc \in Working =>
              \/ hand[h].pc \in Working /\ hand'[h].ref = hand[h].ref
              \/ \E k \in Present \cap ConnKeys :
                    entries'[k] = entries[k] /\ hand'[h].ref = entries[k]
        /\ hand'[h].pc = "openObserve" => hand'[h].ref = NoRef

Amends ==
    /\ \A k \in Keys : entries'[k] \in {entries[k], NoRef}
    /\ Rewritten(Reachable(entries', hand'))

Inserts(c, n, e) ==
    /\ c \in FreeRefs /\ n \in Keys /\ e \in EntryRecords /\ Keyed(n, e)
    /\ entries'[n] = c /\ heap'[c] = e
    /\ \A k \in Keys : k # n => entries'[k] \in {entries[k], NoRef}
    /\ Rewritten(Reachable(entries', hand') \ {c})

MapStep ==
    /\ MapTypeOK' /\ HandsKept /\ CertInHand'
    /\ Amends \/ \E c, n, e : Inserts(c, n, e)

-----------------------------------------------------------------------------
LEMMA NoRefIsNone == NoRef \notin Refs
  BY SessionBoundsAssumption DEF NoRef

LEMMA BlankIsNone == Blank \notin EntryRecords /\ \A e \in EntryRecords : e # Blank
  <1>1. \A e \in EntryRecords : e.status \in Statuses
    BY DEF EntryRecords
  <1>2. Blank.status = "blank" /\ "blank" \notin Statuses
    BY DEF Blank, Statuses, RotationStatuses
  <1> QED BY <1>1, <1>2

LEMMA IdleIsNone == Idle.pc = "idle" /\ \A l \in Locals : l.pc # "idle"
  BY DEF Idle, Locals

LEMMA KeysApart == ConnKeys \cap RotationKeys = {}
  BY DEF ConnKeys, RotationKeys

LEMMA CellAt ==
    ASSUME MapTypeOK, NEW k \in Present
    PROVE  k \in Keys /\ entries[k] \in Refs
  BY DEF MapTypeOK, Present

(* Cells in use are entries *)
LEMMA LiveIsEntry ==
    ASSUME MapInv, NEW r \in Reachable(entries, hand) \cap Refs
    PROVE  heap[r] \in EntryRecords
  <1>1. CASE \E k \in Keys : r = entries[k]
    <2>1. PICK k \in Keys : r = entries[k]
      BY <1>1
    <2>2. k \in Present
      BY <2>1, NoRefIsNone DEF Present
    <2> QED BY <2>1, <2>2 DEF MapInv, CellsKeyed, EntryAt
  <1>2. CASE \E h \in Handlers : hand[h].pc # "idle" /\ r = hand[h].ref
    <2>1. PICK h \in Handlers : hand[h].pc # "idle" /\ r = hand[h].ref
      BY <1>2
    <2>2. hand[h] \in Locals
      BY <2>1, IdleIsNone DEF MapInv, MapTypeOK
    <2>3. hand[h].pc \in Working \/ hand[h].pc = "openObserve"
      BY <2>2 DEF Locals, Working
    <2> QED BY <2>1, <2>3, NoRefIsNone DEF MapInv, HandsHold
  <1> QED BY <1>1, <1>2 DEF Reachable, HeldBy

(* After a step, what was in use and still is *)
LEMMA LiveBefore ==
    ASSUME MapInv, MapTypeOK', HandsKept, NEW c,
           \A k \in Keys : entries'[k] \in {entries[k], NoRef, c},
           NEW r \in Reachable(entries', hand') \cap Refs, r # c
    PROVE  r \in Reachable(entries, hand)
  <1>1. CASE \E k \in Keys : r = entries'[k]
    BY <1>1, NoRefIsNone DEF Reachable
  <1>2. CASE \E h \in Handlers : hand'[h].pc # "idle" /\ r = hand'[h].ref
    <2>1. PICK h \in Handlers : hand'[h].pc # "idle" /\ r = hand'[h].ref
      BY <1>2
    <2>2. hand'[h] \in Locals
      BY <2>1, IdleIsNone DEF MapTypeOK
    <2>3. hand'[h].pc \in Working \/ hand'[h].pc = "openObserve"
      BY <2>2 DEF Locals, Working
    <2>4. hand'[h].pc \in Working
      BY <2>1, <2>3, NoRefIsNone DEF HandsKept
    <2>5. CASE hand[h].pc \in Working /\ hand'[h].ref = hand[h].ref
      BY <2>1, <2>5 DEF Reachable, HeldBy, Working
    <2>6. CASE \E k \in Present \cap ConnKeys : hand'[h].ref = entries[k]
      BY <2>1, <2>6 DEF Reachable, Present
    <2> QED BY <2>4, <2>5, <2>6 DEF HandsKept
  <1> QED BY <1>1, <1>2 DEF Reachable, HeldBy

(* A synthetic rotation entry is not written *)
LEMMA AuditNotWritable ==
    ASSUME MapInv, NEW k \in Present \cap RotationKeys
    PROVE  ~Writable(entries[k])
  <1>1. EntryAt(k).status \in RotationStatuses
    BY DEF MapInv, CellsKeyed, Keyed
  <1>2. heap[entries[k]].status # "active"
    BY <1>1 DEF EntryAt, RotationStatuses
  <1>3. ~\E j \in Present \cap ConnKeys : entries[j] = entries[k]
    BY KeysApart DEF MapInv, CellsOwned
  <1>4. ~\E h \in Handlers : hand[h].pc = "relock" /\ hand[h].ref = entries[k]
    BY DEF MapInv, AuditOwned, Working
  <1> QED BY <1>2, <1>3, <1>4 DEF Writable

(* A key that keeps its cell keeps an entry that belongs to it *)
LEMMA KeptIsKeyed ==
    ASSUME MapInv, NEW k \in Present, entries'[k] = entries[k],
           \/ heap'[entries[k]] = heap[entries[k]]
           \/ Writable(entries[k]) /\ Amended(heap[entries[k]], heap'[entries[k]])
    PROVE  heap'[entries'[k]] \in EntryRecords /\ Keyed(k, heap'[entries'[k]])
  <1>0. heap[entries[k]] \in EntryRecords /\ Keyed(k, heap[entries[k]])
    BY DEF MapInv, CellsKeyed, EntryAt
  <1>1. CASE heap'[entries[k]] = heap[entries[k]]
    BY <1>0, <1>1
  <1>2. CASE Writable(entries[k]) /\ Amended(heap[entries[k]], heap'[entries[k]])
    <2>1. k \notin RotationKeys
      BY <1>2, AuditNotWritable
    <2> QED BY <1>0, <1>2, <2>1 DEF Amended, Keyed
  <1> QED BY <1>1, <1>2

LEMMA PresentAfter ==
    ASSUME MapInv, NEW n, \A k \in Keys : k # n => entries'[k] \in {entries[k], NoRef}
    PROVE  Present' \subseteq Present \cup {n} /\ IsFiniteSet(Present')
  <1>1. Present' \subseteq Present \cup {n}
    BY DEF Present
  <1>2. IsFiniteSet(Present \cup {n})
    BY FS_AddElement DEF MapInv
  <1>3. IsFiniteSet(Present')
    BY <1>1, <1>2, FS_Subset
  <1> QED BY <1>1, <1>3

LEMMA AmendsKeepsInv ==
    ASSUME MapInv, MapStep, Amends
    PROVE  MapInv'
  <1>0. MapTypeOK' /\ HandsKept /\ CertInHand' /\ MapTypeOK
    BY DEF MapStep, MapInv
  <1>1. ASSUME NEW r \in Reachable(entries', hand') \cap Refs
        PROVE  /\ r \in Reachable(entries, hand) /\ heap'[r] \in EntryRecords
               /\ \/ heap'[r] = heap[r]
                  \/ Writable(r) /\ Amended(heap[r], heap'[r])
    <2>1. \A k \in Keys : entries'[k] \in {entries[k], NoRef, NoRef}
      BY DEF Amends
    <2>2. r \in Reachable(entries, hand)
      BY <1>0, <2>1, NoRefIsNone, LiveBefore
    <2>3. heap'[r] = heap[r] \/ (Writable(r) /\ Amended(heap[r], heap'[r]))
      BY DEF Amends, Rewritten
    <2> QED BY <2>2, <2>3, LiveIsEntry DEF Amended
  <1>2. \A k \in Present' : /\ k \in Present /\ k \in Keys /\ entries'[k] = entries[k]
                            /\ entries[k] \in Refs /\ entries[k] \in Reachable(entries', hand')
    BY <1>0 DEF Amends, Present, MapTypeOK, Reachable
  <1>3. CellsKeyed'
    <2> SUFFICES ASSUME NEW k \in Present'
                 PROVE  heap'[entries'[k]] \in EntryRecords /\ Keyed(k, heap'[entries'[k]])
      BY DEF CellsKeyed, EntryAt, Keyed
    <2> QED BY <1>1, <1>2, KeptIsKeyed
  <1>4. CellsOwned'
    BY <1>2 DEF MapInv, CellsOwned
  <1>5. HandsHold'
    <2> SUFFICES ASSUME NEW h \in Handlers
                 PROVE  /\ hand'[h].pc \in Working =>
                             hand'[h].ref \in Refs /\ heap'[hand'[h].ref] \in EntryRecords
                        /\ hand'[h].pc = "openObserve" => hand'[h].ref = NoRef
      BY DEF HandsHold, Working
    <2>1. ASSUME hand'[h].pc \in Working PROVE hand'[h].ref \in Refs
      BY <1>0, <2>1, CellAt DEF HandsKept, MapInv, HandsHold
    <2>2. ASSUME hand'[h].pc \in Working PROVE hand'[h].ref \in Reachable(entries', hand')
      BY <2>2 DEF Reachable, HeldBy, Working
    <2> QED BY <1>0, <1>1, <2>1, <2>2 DEF HandsKept
  <1>6. AuditOwned'
    <2> SUFFICES ASSUME NEW h \in Handlers, NEW k \in Present' \cap RotationKeys,
                        hand'[h].pc \in Working
                 PROVE  hand'[h].ref # entries'[k]
      BY DEF AuditOwned, Working, RotationKeys, Times
    <2>1. k \in Present \cap RotationKeys /\ entries'[k] = entries[k]
      BY <1>2
    <2>2. CASE hand[h].pc \in Working /\ hand'[h].ref = hand[h].ref
      BY <2>1, <2>2 DEF MapInv, AuditOwned
    <2>3. CASE \E j \in Present \cap ConnKeys : hand'[h].ref = entries[j]
      BY <2>1, <2>3, KeysApart DEF MapInv, CellsOwned
    <2> QED BY <1>0, <2>2, <2>3 DEF HandsKept
  <1>7. IsFiniteSet(Present')
    <2>1. Present' \subseteq Present
      BY <1>2
    <2> QED BY <2>1, FS_Subset DEF MapInv
  <1> QED BY <1>0, <1>3, <1>4, <1>5, <1>6, <1>7 DEF MapInv

LEMMA InsertsKeepsInv ==
    ASSUME MapInv, MapStep, NEW c, NEW n, NEW e, Inserts(c, n, e)
    PROVE  MapInv'
  <1>0. MapTypeOK' /\ HandsKept /\ CertInHand' /\ MapTypeOK
    BY DEF MapStep, MapInv
  <1>c. /\ c \in Refs /\ c # NoRef
        /\ \A k \in Keys : entries[k] # c
        /\ \A h \in Handlers : hand[h].pc \in Working => hand[h].ref # c
    BY NoRefIsNone DEF Inserts, FreeRefs, Reachable, HeldBy, Working
  <1>1. ASSUME NEW r \in Reachable(entries', hand') \cap Refs, r # c
        PROVE  /\ r \in Reachable(entries, hand) /\ heap'[r] \in EntryRecords
               /\ \/ heap'[r] = heap[r]
                  \/ Writable(r) /\ Amended(heap[r], heap'[r])
    <2>1. \A k \in Keys : entries'[k] \in {entries[k], NoRef, c}
      BY DEF Inserts
    <2>2. r \in Reachable(entries, hand)
      BY <1>0, <1>1, <2>1, LiveBefore
    <2>3. heap'[r] = heap[r] \/ (Writable(r) /\ Amended(heap[r], heap'[r]))
      BY <1>1 DEF Inserts, Rewritten
    <2> QED BY <2>2, <2>3, LiveIsEntry DEF Amended
  <1>2. \A k \in Present' : k # n =>
            /\ k \in Present /\ k \in Keys /\ entries'[k] = entries[k] /\ entries[k] # c
            /\ entries[k] \in Refs /\ entries[k] \in Reachable(entries', hand')
    BY <1>0, <1>c DEF Inserts, Present, MapTypeOK, Reachable
  <1>n. entries'[n] = c /\ heap'[c] = e /\ e \in EntryRecords /\ Keyed(n, e)
    BY DEF Inserts
  <1>3. CellsKeyed'
    <2> SUFFICES ASSUME NEW k \in Present'
                 PROVE  heap'[entries'[k]] \in EntryRecords /\ Keyed(k, heap'[entries'[k]])
      BY DEF CellsKeyed, EntryAt, Keyed
    <2>1. CASE k = n
      BY <1>n, <2>1
    <2>2. CASE k # n
      BY <1>1, <1>2, <2>2, KeptIsKeyed
    <2> QED BY <2>1, <2>2
  <1>4. CellsOwned'
    <2> SUFFICES ASSUME NEW j \in Present', NEW k \in Present', entries'[j] = entries'[k]
                 PROVE  j = k
      BY DEF CellsOwned
    <2> QED BY <1>2, <1>n DEF MapInv, CellsOwned
  <1>h. ASSUME NEW h \in Handlers, hand'[h].pc \in Working
        PROVE  /\ hand'[h].ref \in Refs /\ hand'[h].ref # c
               /\ hand'[h].ref \in Reachable(entries', hand')
    <2>1. hand'[h].ref \in Refs /\ hand'[h].ref # c
      <3>1. CASE hand[h].pc \in Working /\ hand'[h].ref = hand[h].ref
        BY <1>c, <3>1 DEF MapInv, HandsHold
      <3>2. CASE \E k \in Present \cap ConnKeys : hand'[h].ref = entries[k]
        BY <1>0, <1>c, <3>2, CellAt
      <3> QED BY <1>0, <1>h, <3>1, <3>2 DEF HandsKept
    <2>2. hand'[h].ref \in Reachable(entries', hand')
      BY <1>h DEF Reachable, HeldBy, Working
    <2> QED BY <2>1, <2>2
  <1>5. HandsHold'
    <2> SUFFICES ASSUME NEW h \in Handlers
                 PROVE  /\ hand'[h].pc \in Working =>
                             hand'[h].ref \in Refs /\ heap'[hand'[h].ref] \in EntryRecords
                        /\ hand'[h].pc = "openObserve" => hand'[h].ref = NoRef
      BY DEF HandsHold, Working
    <2> QED BY <1>0, <1>1, <1>h DEF HandsKept
  <1>6. AuditOwned'
    <2> SUFFICES ASSUME NEW h \in Handlers, NEW k \in Present' \cap RotationKeys,
                        hand'[h].pc \in Working
                 PROVE  hand'[h].ref # entries'[k]
      BY DEF AuditOwned, Working, RotationKeys, Times
    <2>0. CASE k = n
      BY <1>h, <1>n, <2>0
    <2>1. CASE k # n
      <3>1. k \in Present \cap RotationKeys /\ entries'[k] = entries[k]
        BY <1>2, <2>1
      <3>2. CASE hand[h].pc \in Working /\ hand'[h].ref = hand[h].ref
        BY <3>1, <3>2 DEF MapInv, AuditOwned
      <3>3. CASE \E j \in Present \cap ConnKeys : hand'[h].ref = entries[j]
        BY <3>1, <3>3, KeysApart DEF MapInv, CellsOwned
      <3> QED BY <1>0, <3>2, <3>3 DEF HandsKept
    <2> QED BY <2>0, <2>1
  <1>7. IsFiniteSet(Present')
    BY PresentAfter DEF Inserts
  <1> QED BY <1>0, <1>3, <1>4, <1>5, <1>6, <1>7 DEF MapInv

LEMMA MapStepKeepsInv == MapInv /\ MapStep => MapInv'
  BY AmendsKeepsInv, InsertsKeepsInv DEF MapStep

(* A cell whose key stays is the same or was amended *)
LEMMA KeptCell ==
    ASSUME MapInv, MapStep, NEW k \in Kept
    PROVE  /\ k \in Present
           /\ \/ heap'[entries[k]] = heap[entries[k]]
              \/ Writable(entries[k]) /\ Amended(heap[entries[k]], heap'[entries[k]])
  <1>1. k \in Present /\ k \in Keys /\ entries'[k] = entries[k] /\ entries[k] \in Refs
    BY DEF Kept, Present, MapInv, MapTypeOK
  <1>2. entries[k] \in Reachable(entries', hand') /\ entries[k] \in Reachable(entries, hand)
    BY <1>1 DEF Reachable
  <1>3. CASE Amends
    BY <1>1, <1>2, <1>3 DEF Amends, Rewritten
  <1>4. CASE \E c, n, e : Inserts(c, n, e)
    <2>1. PICK c, n, e : Inserts(c, n, e)
      BY <1>4
    <2>2. entries[k] # c
      BY <1>2, <2>1 DEF Inserts, FreeRefs
    <2> QED BY <1>1, <1>2, <2>1, <2>2 DEF Inserts, Rewritten
  <1> QED BY <1>1, <1>3, <1>4 DEF MapStep

-----------------------------------------------------------------------------
(* Events and the entries made from them *)

LEMMA EventFields ==
    ASSUME NEW ev \in Events
    PROVE  /\ ev.node \in Nodes /\ ev.conn \in Conns
           /\ ev.identity \in Identities \cup {NoIdentity}
           /\ ev.service \in Identities \cup {NoIdentity}
           /\ ev.kind \in IdentityTypes /\ ev.class \in RotationClasses
           /\ ev.tool \in Tools /\ ev.token \in Tokens
           /\ ev.pid \in Nat /\ ev.bytes \in Nat /\ ev.at \in Times
           /\ TracksCert(ev) => /\ ev.identity \in SpiffeIds
                                /\ Observation(ev) \in CertObservations
  <1>1. PICK s \in Shapes, t \in Times : ev = [s EXCEPT !.at = t]
    BY DEF Events
  <1>2. /\ DOMAIN s = {"type", "node", "conn", "identity", "service", "kind", "tool",
                       "token", "cert", "class", "pid", "bytes", "at"}
        /\ s.node \in Nodes /\ s.conn \in Conns
        /\ s.identity \in Identities \cup {NoIdentity}
        /\ s.service \in Identities \cup {NoIdentity}
        /\ s.kind \in IdentityTypes /\ s.class \in RotationClasses
        /\ s.pid \in Nat /\ s.bytes \in Nat
        /\ s.kind = "spiffe" /\ s.cert # NoCert => s.identity \in SpiffeIds
    BY ShapesAssumption
  <1>3. /\ ev.node = s.node /\ ev.conn = s.conn /\ ev.identity = s.identity
        /\ ev.service = s.service /\ ev.kind = s.kind /\ ev.class = s.class
        /\ ev.tool = s.tool /\ ev.token = s.token /\ ev.pid = s.pid /\ ev.bytes = s.bytes
        /\ ev.cert = s.cert /\ ev.at = t
    BY <1>1, <1>2
  <1>4. s.tool \in Tools /\ s.token \in Tokens
    BY DEF Tools, Tokens
  <1>5. TracksCert(ev) => Observation(ev) \in CertObservations
    BY <1>1, <1>3, CertsAssumption DEF TracksCert
  <1> QED BY <1>2, <1>3, <1>4, <1>5 DEF TracksCert

LEMMA PickedIdentity ==
    ASSUME NEW ev \in Events
    PROVE  /\ pickIdentity(ev)[1] \in Identities \cup {NoIdentity}
           /\ pickIdentity(ev)[2] \in IdentityTypes \cup {"unknown", ""}
           /\ pickIdentity(ev)[2] = "spiffe" => pickIdentity(ev)[1] \in Identities
  BY EventFields DEF pickIdentity, IdentityTypes

LEMMA ConnectionKeys ==
    ASSUME NEW ev \in Events
    PROVE  connectionKey(ev) \in ConnKeys /\ connectionKey(ev) \in Keys
  BY EventFields DEF connectionKey, ConnKeys, Keys

LEMMA OpenEntryFacts ==
    ASSUME NEW ev \in Events
    PROVE  /\ OpenEntry(ev) \in EntryRecords
           /\ Keyed(connectionKey(ev), OpenEntry(ev))
  <1>1. OpenEntry(ev) \in EntryRecords
    BY EventFields, PickedIdentity DEF OpenEntry, EntryRecords, Statuses
  <1>2. connectionKey(ev) \notin RotationKeys
    BY ConnectionKeys, KeysApart
  <1> QED BY <1>1, <1>2 DEF Keyed, OpenEntry, connectionKey

LEMMA RotationStatusFacts ==
    ASSUME NEW class \in RotationClasses
    PROVE  rotationStatus(class) \in RotationStatuses /\ rotationStatus(class) \in Statuses
  BY DEF rotationStatus, RotationStatuses, Statuses, RotationClasses

LEMMA RotationEntryFacts ==
    ASSUME NEW ev \in Events, NEW class \in RotationClasses
    PROVE  /\ RotationEntry(ev, class) \in EntryRecords
           /\ RotationEntry(ev, class).status \in RotationStatuses
           /\ Keyed(connectionKey(ev), RotationEntry(ev, class))
           /\ TracksCert(ev) => /\ syntheticKey(ev) \in RotationKeys
                                /\ syntheticKey(ev) \in Keys
                                /\ Keyed(syntheticKey(ev), RotationEntry(ev, class))
  <1>1. RotationEntry(ev, class) \in EntryRecords
    BY EventFields, RotationStatusFacts DEF RotationEntry, EntryRecords, IdentityTypes
  <1>2. connectionKey(ev) \notin RotationKeys
    BY ConnectionKeys, KeysApart
  <1>3. RotationEntry(ev, class).status \in RotationStatuses
    BY RotationStatusFacts DEF RotationEntry
  <1>4. TracksCert(ev) => syntheticKey(ev) \in RotationKeys
    BY EventFields DEF syntheticKey, RotationKeys
  <1>5. TracksCert(ev) => syntheticKey(ev) \in Keys /\ syntheticKey(ev) \notin ConnKeys
    BY <1>4, KeysApart DEF Keys
  <1> QED BY <1>1, <1>2, <1>3, <1>4, <1>5 DEF Keyed, RotationEntry, connectionKey, syntheticKey

LEMMA DataEntryAmends ==
    ASSUME NEW e \in EntryRecords, NEW ev \in Events
    PROVE  /\ Amended(e, DataEntry(e, ev))
           /\ Amended(e, WithToken(DataEntry(e, ev), ev))
           /\ Amended(e, WithToken(e, ev))
           /\ WithToken(DataEntry(e, ev), ev).identity = DataEntry(e, ev).identity
           /\ WithToken(DataEntry(e, ev), ev).kind = DataEntry(e, ev).kind
           /\ WithToken(DataEntry(e, ev), ev).status = e.status
           /\ DataEntry(e, ev).status = e.status
           /\ WithToken(e, ev).identity = e.identity
           /\ WithToken(e, ev).kind = e.kind
           /\ e.identity = NoIdentity => /\ DataEntry(e, ev).identity = pickIdentity(ev)[1]
                                         /\ DataEntry(e, ev).kind = pickIdentity(ev)[2]
  <1> DEFINE d == DataEntry(e, ev)
             f == WithToken(d, ev)
             g == WithToken(e, ev)
  <1>1. /\ d \in EntryRecords /\ d.node = e.node /\ d.conn = e.conn /\ d.token = e.token
        /\ d.status = e.status /\ d.pid = e.pid
        /\ e.identity # NoIdentity => d.identity = e.identity /\ d.kind = e.kind
        /\ e.identity = NoIdentity => /\ d.identity = pickIdentity(ev)[1]
                                      /\ d.kind = pickIdentity(ev)[2]
    BY EventFields, PickedIdentity DEF DataEntry, EntryRecords
  <1>2. ASSUME NEW x \in EntryRecords
        PROVE  LET y == WithToken(x, ev)
               IN  /\ y \in EntryRecords /\ y.node = x.node /\ y.conn = x.conn
                   /\ y.status = x.status /\ y.identity = x.identity /\ y.kind = x.kind
                   /\ y.pid = x.pid
                   /\ x.token # NoToken => y.token = x.token
    BY EventFields DEF WithToken, EntryRecords
  <1> HIDE DEF d
  <1>3. /\ f \in EntryRecords /\ f.node = d.node /\ f.conn = d.conn
        /\ f.status = d.status /\ f.identity = d.identity /\ f.kind = d.kind /\ f.pid = d.pid
        /\ d.token # NoToken => f.token = d.token
    BY <1>1, <1>2
  <1>4. /\ g \in EntryRecords /\ g.node = e.node /\ g.conn = e.conn
        /\ g.status = e.status /\ g.identity = e.identity /\ g.kind = e.kind /\ g.pid = e.pid
        /\ e.token # NoToken => g.token = e.token
    BY <1>2
  <1> HIDE DEF f, g
  <1>5. Amended(e, d) /\ Amended(e, f) /\ Amended(e, g)
    BY <1>1, <1>3, <1>4 DEF Amended
  <1> QED BY <1>1, <1>3, <1>4, <1>5 DEF d, f, g

-----------------------------------------------------------------------------
(* Every action but a crash is a MapStep *)

LEMMA StoreFacts ==
    ASSUME MapTypeOK, NEW ents \in [Keys -> Refs \cup {NoRef}],
           NEW cells \in [Refs -> EntryRecords \cup {Blank}],
           NEW hd \in [Handlers -> Locals \cup {Idle}], Store(ents, cells, hd),
           clock' \in 0 .. MaxTime, received' \in 0 .. MaxEvents
    PROVE  /\ MapTypeOK'
           /\ entries' = ents /\ hand' = hd
           /\ \A r \in Reachable(entries', hand') \cap Refs : heap'[r] = cells[r]
  <1>1. entries' = ents /\ hand' = hd /\ heap' = Collected(cells, ents, hd)
    BY DEF Store
  <1>2. /\ heap' \in [Refs -> EntryRecords \cup {Blank}]
        /\ \A r \in Reachable(ents, hd) \cap Refs : heap'[r] = cells[r]
    BY <1>1 DEF Collected
  <1> QED BY <1>1, <1>2 DEF MapTypeOK

LEMMA PutTyped ==
    ASSUME MapTypeOK, NEW h \in Handlers, NEW l \in Locals \cup {Idle}
    PROVE  /\ Put(h, l) \in [Handlers -> Locals \cup {Idle}]
           /\ Put(h, l)[h] = l
           /\ \A g \in Handlers : g # h => Put(h, l)[g] = hand[g]
  BY DEF Put, MapTypeOK

LEMMA LocalTyped ==
    ASSUME NEW ev \in Events, NEW ref \in Refs \cup {NoRef},
           NEW pc \in {"openObserve", "track", "relock", "args", "observe"}
    PROVE  /\ Local(pc, ev, ref) \in Locals
           /\ Local(pc, ev, ref).pc = pc /\ Local(pc, ev, ref).ev = ev
           /\ Local(pc, ev, ref).ref = ref /\ Local(pc, ev, ref).class = "first_seen"
  BY DEF Local, Locals, RotationClasses

LEMMA ReceivesTyped ==
    ASSUME MapTypeOK, NEW h \in Handlers, Receives(h)
    PROVE  received' \in 0 .. MaxEvents
  BY SessionBoundsAssumption DEF Receives, MapTypeOK

LEMMA FreshIsFree ==
    ASSUME FreeRefs # {}
    PROVE  Fresh \in FreeRefs /\ Fresh \in Refs
  BY DEF Fresh, FreeRefs

(* Steps in which at most one handler moves on and keeps what it has       *)
LEMMA HandsStay ==
    ASSUME MapInv, hand' = hand
    PROVE  HandsKept /\ CertInHand'
  BY DEF HandsKept, MapInv, HandsHold, CertInHand, TracksCert

LEMMA HandMoves ==
    ASSUME MapInv, NEW h \in Handlers, NEW l \in Locals \cup {Idle}, hand' = Put(h, l),
           \/ l.pc = "idle"
           \/ l.pc = "openObserve" /\ l.ref = NoRef
           \/ l.pc \in Working /\ hand[h].pc \in Working /\ l.ref = hand[h].ref
           \/ /\ l.pc \in Working
              /\ \E k \in Present \cap ConnKeys : entries'[k] = entries[k] /\ l.ref = entries[k],
           l.pc \in {"track", "relock"} => TracksCert(l.ev)
    PROVE  HandsKept /\ CertInHand'
  <1>1. hand'[h] = l /\ \A g \in Handlers : g # h => hand'[g] = hand[g]
    BY PutTyped DEF MapInv
  <1>2. ASSUME NEW g \in Handlers
        PROVE  /\ hand'[g].pc \in Working =>
                    \/ hand[g].pc \in Working /\ hand'[g].ref = hand[g].ref
                    \/ \E k \in Present \cap ConnKeys :
                          entries'[k] = entries[k] /\ hand'[g].ref = entries[k]
               /\ hand'[g].pc = "openObserve" => hand'[g].ref = NoRef
               /\ hand'[g].pc \in {"track", "relock"} => TracksCert(hand'[g].ev)
    <2>1. CASE g = h
      BY <1>1, <2>1 DEF Working
    <2>2. CASE g # h
      BY <1>1, <2>2 DEF MapInv, HandsHold, CertInHand
    <2> QED BY <2>1, <2>2
  <1>3. HandsKept
    BY <1>2 DEF HandsKept
  <1>4. CertInHand'
    BY <1>2 DEF CertInHand, TracksCert
  <1> QED BY <1>3, <1>4

LEMMA OpenIsMapStep ==
    ASSUME MapInv, NEW h \in Handlers, NEW ev \in Events, Open(h, ev)
    PROVE  MapStep
  <1> DEFINE key == connectionKey(ev)
             c == Fresh
  <1>0. MapTypeOK
    BY DEF MapInv
  <1>1. PICK evicted : Store([k \in Keys |-> IF k = key THEN c
                                             ELSE IF k \in evicted THEN NoRef ELSE entries[k]],
                             [heap EXCEPT ![c] = OpenEntry(ev)],
                             IF FeedsProfile(ev)
                             THEN Put(h, Local("openObserve", ev, NoRef)) ELSE hand)
    BY DEF Open
  <1>2. c \in FreeRefs /\ c \in Refs
    BY FreshIsFree DEF Open
  <1>3. key \in Keys /\ OpenEntry(ev) \in EntryRecords /\ Keyed(key, OpenEntry(ev))
    BY ConnectionKeys, OpenEntryFacts
  <1> HIDE DEF key, c
  <1> DEFINE ents == [k \in Keys |-> IF k = key THEN c
                                     ELSE IF k \in evicted THEN NoRef ELSE entries[k]]
             cells == [heap EXCEPT ![c] = OpenEntry(ev)]
             hd == IF FeedsProfile(ev) THEN Put(h, Local("openObserve", ev, NoRef)) ELSE hand
  <1>4. /\ ents \in [Keys -> Refs \cup {NoRef}] /\ ents[key] = c
        /\ \A k \in Keys : k # key => ents[k] \in {entries[k], NoRef}
    BY <1>0, <1>2, <1>3 DEF MapTypeOK
  <1>5. /\ cells \in [Refs -> EntryRecords \cup {Blank}] /\ cells[c] = OpenEntry(ev)
        /\ \A r \in Refs : r # c => cells[r] = heap[r]
    BY <1>0, <1>2, <1>3 DEF MapTypeOK
  <1>l. /\ Local("openObserve", ev, NoRef) \in Locals
        /\ Local("openObserve", ev, NoRef).pc = "openObserve"
        /\ Local("openObserve", ev, NoRef).ref = NoRef
    BY LocalTyped
  <1>6. hd \in [Handlers -> Locals \cup {Idle}]
    <2>1. Put(h, Local("openObserve", ev, NoRef)) \in [Handlers -> Locals \cup {Idle}]
      BY <1>0, <1>l, PutTyped
    <2> QED BY <1>0, <2>1 DEF MapTypeOK
  <1>7. Store(ents, cells, hd)
    BY <1>1
  <1>8. clock' \in 0 .. MaxTime /\ received' \in 0 .. MaxEvents
    BY <1>0, ReceivesTyped DEF Open, MapTypeOK
  <1>h. hd = Put(h, Local("openObserve", ev, NoRef)) \/ hd = hand
    OBVIOUS
  <1> HIDE DEF ents, cells, hd
  <1>9. /\ MapTypeOK' /\ entries' = ents /\ hand' = hd
        /\ \A r \in Reachable(entries', hand') \cap Refs : heap'[r] = cells[r]
    BY <1>0, <1>4, <1>5, <1>6, <1>7, <1>8, StoreFacts
  <1>10. HandsKept /\ CertInHand'
    <2>1. CASE hd = hand
      BY <1>9, <2>1, HandsStay
    <2>2. CASE hd = Put(h, Local("openObserve", ev, NoRef))
      BY <1>9, <1>l, <2>2, HandMoves
    <2> QED BY <1>h, <2>1, <2>2
  <1>11. c \in Reachable(entries', hand')
    BY <1>3, <1>4, <1>9 DEF Reachable
  <1>12. Inserts(c, key, OpenEntry(ev))
    BY <1>2, <1>3, <1>4, <1>5, <1>9, <1>11 DEF Inserts, Rewritten
  <1> QED BY <1>9, <1>10, <1>12 DEF MapStep

LEMMA InsertedCell ==
    ASSUME NEW c, NEW n, NEW e, Inserts(c, n, e), NEW k \in Inserted
    PROVE  heap'[entries'[k]] = e
  BY DEF Inserts, Inserted

(* What a rotation inserts is a rotation entry *)
RotationsInserted == \A k \in Inserted : heap'[entries'[k]].status \in RotationStatuses

LEMMA StoreRotationIsMapStep ==
    ASSUME MapInv, NEW h \in Handlers, NEW ev \in Events, StoreRotation(h, ev)
    PROVE  MapStep /\ RotationsInserted
  <1> DEFINE key == connectionKey(ev)
             c == Fresh
             e == RotationEntry(ev, ev.class)
  <1>0. MapTypeOK
    BY DEF MapInv
  <1>2. c \in FreeRefs /\ c \in Refs
    BY FreshIsFree DEF StoreRotation
  <1>3. key \in Keys /\ e \in EntryRecords /\ Keyed(key, e) /\ e.status \in RotationStatuses
    BY EventFields, ConnectionKeys, RotationEntryFacts
  <1> DEFINE ents == [entries EXCEPT ![key] = c]
             cells == [heap EXCEPT ![c] = e]
  <1>7. Store(ents, cells, hand)
    BY DEF StoreRotation
  <1> HIDE DEF key, c, e
  <1>4. /\ ents \in [Keys -> Refs \cup {NoRef}] /\ ents[key] = c
        /\ \A k \in Keys : k # key => ents[k] \in {entries[k], NoRef}
    BY <1>0, <1>2, <1>3 DEF MapTypeOK
  <1>5. /\ cells \in [Refs -> EntryRecords \cup {Blank}] /\ cells[c] = e
        /\ \A r \in Refs : r # c => cells[r] = heap[r]
    BY <1>0, <1>2, <1>3 DEF MapTypeOK
  <1>8. /\ clock' \in 0 .. MaxTime /\ received' \in 0 .. MaxEvents
        /\ hand \in [Handlers -> Locals \cup {Idle}]
    BY <1>0, ReceivesTyped DEF StoreRotation, MapTypeOK
  <1> HIDE DEF ents, cells
  <1>9. /\ MapTypeOK' /\ entries' = ents /\ hand' = hand
        /\ \A r \in Reachable(entries', hand') \cap Refs : heap'[r] = cells[r]
    BY <1>0, <1>4, <1>5, <1>7, <1>8, StoreFacts
  <1>10. HandsKept /\ CertInHand'
    BY <1>9, HandsStay
  <1>11. c \in Reachable(entries', hand')
    BY <1>3, <1>4, <1>9 DEF Reachable
  <1>12. Inserts(c, key, e)
    BY <1>2, <1>3, <1>4, <1>5, <1>9, <1>11 DEF Inserts, Rewritten
  <1> QED BY <1>3, <1>9, <1>10, <1>12, InsertedCell DEF MapStep, RotationsInserted

(* A step that only writes into cells in place *)
LEMMA InPlaceIsMapStep ==
    ASSUME MapInv, MapTypeOK', entries' = entries, HandsKept, CertInHand',
           \A r \in Refs : heap'[r] = heap[r] \/ (Writable(r) /\ Amended(heap[r], heap'[r]))
    PROVE  MapStep
  BY DEF MapStep, Amends, Rewritten

LEMMA CloseIsMapStep ==
    ASSUME MapInv, NEW h \in Handlers, NEW ev \in Events, Close(h, ev)
    PROVE  MapStep
  <1> DEFINE key == connectionKey(ev)
  <1>0. MapTypeOK
    BY DEF MapInv
  <1>1. key \in Present \cap ConnKeys
    BY ConnectionKeys DEF Close
  <1>2. PICK r \in Refs : r = entries[key]
    BY <1>0, <1>1, CellAt
  <1>3. heap[r] \in EntryRecords
    BY <1>1, <1>2 DEF MapInv, CellsKeyed, EntryAt
  <1>4. PICK e : e = [heap[r] EXCEPT !.status = "closed", !.last = ev.at]
    OBVIOUS
  <1>5. e \in EntryRecords /\ Amended(heap[r], e)
    BY <1>3, <1>4, EventFields DEF Amended, EntryRecords, Statuses
  <1>6. heap' = [heap EXCEPT ![r] = e]
    BY <1>2, <1>4 DEF Close
  <1>7. MapTypeOK'
    BY <1>0, <1>5, <1>6, ReceivesTyped DEF Close, MapTypeOK
  <1>8. \A q \in Refs : heap'[q] = IF q = r THEN e ELSE heap[q]
    BY <1>0, <1>6 DEF MapTypeOK
  <1>9. Writable(r)
    BY <1>1, <1>2 DEF Writable, Receiving, Close
  <1>10. HandsKept /\ CertInHand' /\ entries' = entries
    BY HandsStay DEF Close
  <1> QED BY <1>5, <1>7, <1>8, <1>9, <1>10, InPlaceIsMapStep

LEMMA ResumedIsMapStep ==
    ASSUME MapInv, NEW h \in Handlers, NEW ev \in Events, Resumed(h, ev)
    PROVE  MapStep
  <1>0. MapTypeOK
    BY DEF MapInv
  <1>1. PICK active : /\ heap' = [r \in Refs |-> IF r \in active
                                               THEN [heap[r] EXCEPT !.status = "stale"]
                                               ELSE heap[r]]
                      /\ \A r \in active : \E k \in Present : /\ r = entries[k]
                                                             /\ EntryAt(k).status = "active"
    <2> DEFINE act == {entries[k] : k \in {j \in Present : /\ EntryAt(j).node = ev.node
                                                          /\ EntryAt(j).status = "active"}}
    <2>1. heap' = [r \in Refs |-> IF r \in act THEN [heap[r] EXCEPT !.status = "stale"]
                                                ELSE heap[r]]
      BY DEF Resumed
    <2>2. \A r \in act : \E k \in Present : r = entries[k] /\ EntryAt(k).status = "active"
      OBVIOUS
    <2> HIDE DEF act
    <2> QED BY <2>1, <2>2
  <1>2. ASSUME NEW r \in active
        PROVE  /\ heap[r] \in EntryRecords /\ Writable(r)
               /\ Amended(heap[r], [heap[r] EXCEPT !.status = "stale"])
    <2>1. heap[r] \in EntryRecords /\ heap[r].status = "active"
      BY <1>1 DEF MapInv, CellsKeyed, EntryAt
    <2> QED BY <2>1 DEF Writable, Amended, EntryRecords, Statuses, RotationStatuses
  <1>3. \A r \in Refs : heap'[r] = heap[r] \/ (Writable(r) /\ Amended(heap[r], heap'[r]))
    BY <1>1, <1>2
  <1>4. heap' \in [Refs -> EntryRecords \cup {Blank}]
    BY <1>0, <1>1, <1>2 DEF MapTypeOK, Amended
  <1>5. MapTypeOK'
    BY <1>0, <1>4, ReceivesTyped DEF Resumed, MapTypeOK
  <1>6. HandsKept /\ CertInHand' /\ entries' = entries
    BY HandsStay DEF Resumed
  <1> QED BY <1>3, <1>5, <1>6, InPlaceIsMapStep

LEMMA StillIsMapStep ==
    ASSUME MapInv, UNCHANGED <<entries, heap, hand>>,
           clock' \in 0 .. MaxTime, received' \in 0 .. MaxEvents
    PROVE  MapStep
  <1>1. MapTypeOK'
    BY DEF MapInv, MapTypeOK
  <1> QED BY <1>1, HandsStay, InPlaceIsMapStep

(* A step in which a handler writes one cell and moves on *)
LEMMA HandlerWrites ==
    ASSUME MapInv, NEW h \in Handlers, NEW r \in Refs, Writable(r),
           NEW e, Amended(heap[r], e), NEW l \in Locals \cup {Idle},
           Store(entries, [heap EXCEPT ![r] = e], Put(h, l)),
           clock' \in 0 .. MaxTime, received' \in 0 .. MaxEvents,
           HandsKept, CertInHand'
    PROVE  MapStep
  <1>0. MapTypeOK
    BY DEF MapInv
  <1> DEFINE cells == [heap EXCEPT ![r] = e]
  <1>1. /\ cells \in [Refs -> EntryRecords \cup {Blank}]
        /\ \A q \in Refs : cells[q] = IF q = r THEN e ELSE heap[q]
    BY <1>0 DEF MapTypeOK, Amended
  <1>2. entries \in [Keys -> Refs \cup {NoRef}] /\ Put(h, l) \in [Handlers -> Locals \cup {Idle}]
    BY <1>0, PutTyped DEF MapTypeOK
  <1>3. Store(entries, cells, Put(h, l))
    OBVIOUS
  <1> HIDE DEF cells
  <1>4. /\ MapTypeOK' /\ entries' = entries
        /\ \A q \in Reachable(entries', hand') \cap Refs : heap'[q] = cells[q]
    BY <1>0, <1>1, <1>2, <1>3, StoreFacts
  <1>5. Amends
    BY <1>1, <1>4 DEF Amends, Rewritten
  <1> QED BY <1>4, <1>5 DEF MapStep

LEMMA AfterTokenFacts ==
    ASSUME NEW e, NEW ev \in Events, NEW r \in Refs \cup {NoRef}
    PROVE  /\ AfterToken(e, ev, r) \in Locals \cup {Idle}
           /\ \/ AfterToken(e, ev, r) = Idle /\ e.identity = NoIdentity
              \/ /\ AfterToken(e, ev, r).pc = "args" /\ AfterToken(e, ev, r).ref = r
                 /\ AfterToken(e, ev, r).ev = ev
  BY LocalTyped DEF AfterToken

LEMMA DataIsMapStep ==
    ASSUME MapInv, NEW h \in Handlers, NEW ev \in Events, Data(h, ev)
    PROVE  MapStep
  <1>0. MapTypeOK
    BY DEF MapInv
  <1>k. PICK key \in Present \cap ConnKeys : key = connectionKey(ev)
    BY ConnectionKeys DEF Data
  <1>1. PICK r \in Refs : r = entries[key]
    BY <1>0, <1>k, CellAt
  <1>2. heap[r] \in EntryRecords /\ Writable(r)
    BY <1>1, <1>k DEF MapInv, CellsKeyed, EntryAt, Writable, Receiving, Data
  <1>3. /\ Amended(heap[r], DataEntry(heap[r], ev))
        /\ Amended(heap[r], WithToken(DataEntry(heap[r], ev), ev))
    BY <1>2, DataEntryAmends
  <1>4. clock' \in 0 .. MaxTime /\ received' \in 0 .. MaxEvents
    BY <1>0, ReceivesTyped DEF Data, MapTypeOK
  <1>5. CASE TracksCert(ev)
    <2>1. PICK l \in Locals : /\ l = Local("track", ev, r)
                              /\ l.pc = "track" /\ l.ref = r /\ l.ev = ev
      BY LocalTyped
    <2>2. Store(entries, [heap EXCEPT ![r] = DataEntry(heap[r], ev)], Put(h, l))
      BY <1>1, <1>k, <1>5, <2>1 DEF Data
    <2>3. entries' = entries /\ hand' = Put(h, l)
      BY <2>2 DEF Store
    <2>4. HandsKept /\ CertInHand'
      BY <1>1, <1>5, <2>1, <2>3, HandMoves DEF Working
    <2> QED BY <1>2, <1>3, <1>4, <2>2, <2>4, HandlerWrites
  <1>6. CASE ~TracksCert(ev)
    <2> DEFINE final == WithToken(DataEntry(heap[r], ev), ev)
    <2>1. PICK l \in Locals \cup {Idle} : /\ l = AfterToken(final, ev, r)
                                          /\ l = Idle \/ (l.pc = "args" /\ l.ref = r)
      BY AfterTokenFacts
    <2>2. Store(entries, [heap EXCEPT ![r] = final], Put(h, l))
      BY <1>1, <1>k, <1>6, <2>1 DEF Data
    <2>3. entries' = entries /\ hand' = Put(h, l)
      BY <2>2 DEF Store
    <2> HIDE DEF final
    <2>4. l.pc = "idle" \/ (l.pc \in Working /\ l.pc \notin {"track", "relock"} /\ l.ref = r)
      BY <2>1, IdleIsNone DEF Working
    <2>5. HandsKept /\ CertInHand'
      BY <1>1, <2>3, <2>4, HandMoves
    <2> QED BY <1>2, <1>3, <1>4, <2>2, <2>5, HandlerWrites DEF final
  <1> QED BY <1>5, <1>6

(* A handler that holds a cell *)
LEMMA HeldFacts ==
    ASSUME MapInv, NEW h \in Handlers, hand[h].pc \in Working
    PROVE  /\ hand[h] \in Locals /\ hand[h].ev \in Events /\ hand[h].class \in RotationClasses
           /\ hand[h].ref \in Refs
           /\ heap[hand[h].ref] \in EntryRecords
  <1>1. hand[h] \in Locals
    BY IdleIsNone DEF MapInv, MapTypeOK, Working
  <1>2. hand[h].ev \in Events /\ hand[h].class \in RotationClasses
    BY <1>1 DEF Locals
  <1> QED BY <1>1, <1>2 DEF MapInv, HandsHold

LEMMA RelockIsMapStep ==
    ASSUME MapInv, NEW h \in Handlers, Relock(h)
    PROVE  MapStep /\ RotationsInserted
  <1>0. MapTypeOK /\ hand[h].pc = "relock" /\ hand[h].pc \in Working
    BY DEF MapInv, Relock, Working
  <1>1. PICK r \in Refs, ev \in Events, class \in RotationClasses :
            r = hand[h].ref /\ ev = hand[h].ev /\ class = hand[h].class
    BY <1>0, HeldFacts
  <1>2. heap[r] \in EntryRecords /\ Writable(r) /\ TracksCert(ev)
    BY <1>0, <1>1, HeldFacts DEF MapInv, CertInHand, Writable
  <1>3. PICK final : final = WithToken(heap[r], ev) /\ Amended(heap[r], final)
    BY <1>2, DataEntryAmends
  <1>4. clock' \in 0 .. MaxTime /\ received' \in 0 .. MaxEvents
    BY <1>0 DEF Relock, MapTypeOK
  <1>5. PICK l \in Locals \cup {Idle} : /\ l = AfterToken(final, ev, r)
                                        /\ l = Idle \/ (l.pc = "args" /\ l.ref = r)
    BY AfterTokenFacts
  <1>6. \/ Store(entries, [heap EXCEPT ![r] = final], Put(h, l))
        \/ /\ FreeRefs # {}
           /\ Store([entries EXCEPT ![syntheticKey(ev)] = Fresh],
                    [heap EXCEPT ![r] = final, ![Fresh] = RotationEntry(ev, class)], Put(h, l))
    BY <1>1, <1>3, <1>5 DEF Relock, HeldCell
  <1>7. hand' = Put(h, l)
    BY <1>6 DEF Store
  <1>8. l.pc = "idle" \/ (l.pc \in Working /\ l.pc \notin {"track", "relock"} /\ l.ref = r)
    BY <1>5, IdleIsNone DEF Working
  <1>9. HandsKept /\ CertInHand'
    BY <1>0, <1>1, <1>7, <1>8, HandMoves
  <1>10. CASE Store(entries, [heap EXCEPT ![r] = final], Put(h, l))
    <2>1. MapStep
      BY <1>2, <1>3, <1>4, <1>9, <1>10, HandlerWrites
    <2>2. Inserted = {}
      BY <1>10 DEF Store, Inserted
    <2> QED BY <2>1, <2>2 DEF RotationsInserted
  <1>11. CASE /\ FreeRefs # {}
              /\ Store([entries EXCEPT ![syntheticKey(ev)] = Fresh],
                       [heap EXCEPT ![r] = final, ![Fresh] = RotationEntry(ev, class)], Put(h, l))
    <2> DEFINE c == Fresh
               key == syntheticKey(ev)
               e == RotationEntry(ev, class)
    <2>1. c \in FreeRefs /\ c \in Refs /\ c # r
      <3>1. c \in FreeRefs /\ c \in Refs
        BY <1>11, FreshIsFree
      <3>2. r \in Reachable(entries, hand)
        BY <1>0, <1>1 DEF Reachable, HeldBy
      <3> QED BY <3>1, <3>2 DEF FreeRefs
    <2>2. key \in Keys /\ e \in EntryRecords /\ Keyed(key, e) /\ e.status \in RotationStatuses
      BY <1>2, RotationEntryFacts
    <2> DEFINE ents == [entries EXCEPT ![key] = c]
               cells == [heap EXCEPT ![r] = final, ![c] = e]
    <2>3. Store(ents, cells, Put(h, l))
      BY <1>11
    <2> HIDE DEF key, c, e
    <2>4. /\ ents \in [Keys -> Refs \cup {NoRef}] /\ ents[key] = c
          /\ \A k \in Keys : k # key => ents[k] \in {entries[k], NoRef}
      BY <1>0, <2>1, <2>2 DEF MapTypeOK
    <2>5. /\ cells \in [Refs -> EntryRecords \cup {Blank}] /\ cells[c] = e /\ cells[r] = final
          /\ \A q \in Refs : q # c /\ q # r => cells[q] = heap[q]
      BY <1>0, <1>3, <2>1, <2>2 DEF MapTypeOK, Amended
    <2>6. Put(h, l) \in [Handlers -> Locals \cup {Idle}]
      BY <1>0, PutTyped
    <2> HIDE DEF ents, cells
    <2>7. /\ MapTypeOK' /\ entries' = ents
          /\ \A q \in Reachable(entries', hand') \cap Refs : heap'[q] = cells[q]
      BY <1>0, <1>4, <2>3, <2>4, <2>5, <2>6, StoreFacts
    <2>8. c \in Reachable(entries', hand')
      BY <2>2, <2>4, <2>7 DEF Reachable
    <2>9. Inserts(c, key, e)
      BY <1>2, <1>3, <2>1, <2>2, <2>4, <2>5, <2>7, <2>8 DEF Inserts, Rewritten
    <2> QED BY <1>9, <2>2, <2>7, <2>9, InsertedCell DEF MapStep, RotationsInserted
  <1> QED BY <1>6, <1>10, <1>11

(* A handler moves on and writes nothing *)
LEMMA MoveIsMapStep ==
    ASSUME MapInv, NEW h \in Handlers, NEW l \in Locals \cup {Idle}, hand' = Put(h, l),
           entries' = entries, clock' \in 0 .. MaxTime, received' \in 0 .. MaxEvents,
           heap' = heap \/ heap' = Collected(heap, entries, hand'),
           l.pc = "idle" \/ (l.pc \in Working /\ hand[h].pc \in Working /\ l.ref = hand[h].ref),
           l.pc \in {"track", "relock"} => TracksCert(l.ev)
    PROVE  MapStep
  <1>0. MapTypeOK
    BY DEF MapInv
  <1>1. HandsKept /\ CertInHand'
    BY HandMoves
  <1>2. hand' \in [Handlers -> Locals \cup {Idle}]
    BY <1>0, PutTyped
  <1>3. /\ heap' \in [Refs -> EntryRecords \cup {Blank}]
        /\ \A r \in Reachable(entries', hand') \cap Refs : heap'[r] = heap[r]
    BY <1>0 DEF MapTypeOK, Collected
  <1>4. MapTypeOK'
    BY <1>0, <1>2, <1>3 DEF MapTypeOK
  <1>5. Amends
    BY <1>3 DEF Amends, Rewritten
  <1> QED BY <1>1, <1>4, <1>5 DEF MapStep

LEMMA TrackClassType ==
    ASSUME NEW id, NEW obs
    PROVE  TrackClass(id, obs) \in RotationClasses
  BY DEF TrackClass, Classify, RotationClasses

LEMMA MovesAreMapSteps ==
    ASSUME MapInv, NEW h \in Handlers,
           OpenObserve(h) \/ TrackCert(h) \/ LoadTool(h) \/ DataObserve(h)
    PROVE  MapStep
  <1>0. MapTypeOK /\ clock \in 0 .. MaxTime /\ received \in 0 .. MaxEvents
    BY DEF MapInv, MapTypeOK
  <1>1. CASE OpenObserve(h) \/ DataObserve(h)
    BY <1>0, <1>1, IdleIsNone, MoveIsMapStep DEF OpenObserve, DataObserve, Store
  <1>2. CASE TrackCert(h)
    <2>0. hand[h].pc = "track" /\ hand[h].pc \in Working
      BY <1>2 DEF TrackCert, Working
    <2> DEFINE l == [hand[h] EXCEPT !.pc = "relock",
                        !.class = TrackClass(hand[h].ev.identity, Observation(hand[h].ev))]
    <2>1. hand[h] \in Locals
      BY <2>0, HeldFacts
    <2>2. /\ l \in Locals /\ l.pc = "relock" /\ l.ref = hand[h].ref /\ l.ev = hand[h].ev
      BY <2>1, TrackClassType DEF Locals
    <2>3. hand' = Put(h, l)
      BY <1>2 DEF TrackCert
    <2> HIDE DEF l
    <2>4. UNCHANGED <<entries, heap, clock, received>>
      BY <1>2 DEF TrackCert
    <2>5. l.pc \in Working /\ TracksCert(l.ev)
      BY <2>0, <2>2 DEF Working, MapInv, CertInHand
    <2> QED BY <1>0, <2>0, <2>2, <2>3, <2>4, <2>5, MoveIsMapStep
  <1>3. CASE LoadTool(h)
    <2>0. hand[h].pc = "args" /\ hand[h].pc \in Working
      BY <1>3 DEF LoadTool, Working
    <2> DEFINE l == [hand[h] EXCEPT !.pc = "observe", !.tool = heap[hand[h].ref].tool]
    <2>1. hand[h] \in Locals /\ heap[hand[h].ref].tool \in Tools \cup {NoTool}
      BY <2>0, HeldFacts DEF EntryRecords
    <2>2. /\ l \in Locals /\ l.pc = "observe" /\ l.ref = hand[h].ref
      BY <2>1 DEF Locals
    <2>3. hand' = Put(h, l)
      BY <1>3 DEF LoadTool
    <2> HIDE DEF l
    <2>4. UNCHANGED <<entries, heap, clock, received>>
      BY <1>3 DEF LoadTool
    <2>5. l.pc \in Working
      BY <2>2 DEF Working
    <2> QED BY <1>0, <2>0, <2>2, <2>3, <2>4, <2>5, MoveIsMapStep
  <1> QED BY <1>1, <1>2, <1>3

LEMMA SweepIsMapStep ==
    ASSUME MapInv, Sweep
    PROVE  MapStep
  <1>0. MapTypeOK
    BY DEF MapInv
  <1> DEFINE ents == [k \in Keys |-> IF k \in Present /\ Expired(EntryAt(k)) THEN NoRef
                                     ELSE entries[k]]
             cells == [r \in Refs |->
                          IF r \in {entries[k] : k \in Present} /\ GoesStale(heap[r])
                          THEN [heap[r] EXCEPT !.status = "stale"] ELSE heap[r]]
  <1>1. ents \in [Keys -> Refs \cup {NoRef}] /\ \A k \in Keys : ents[k] \in {entries[k], NoRef}
    BY <1>0 DEF MapTypeOK
  <1>2. ASSUME NEW r \in Refs
        PROVE  cells[r] = heap[r] \/ (Writable(r) /\ Amended(heap[r], cells[r]))
    <2>1. CASE r \in {entries[k] : k \in Present} /\ GoesStale(heap[r])
      <3>1. heap[r] \in EntryRecords /\ heap[r].status = "active"
        BY <2>1 DEF MapInv, CellsKeyed, EntryAt, GoesStale
      <3>2. cells[r] = [heap[r] EXCEPT !.status = "stale"]
        BY <2>1
      <3> HIDE DEF cells
      <3> QED BY <3>1, <3>2 DEF Writable, Amended, EntryRecords, Statuses, RotationStatuses
    <2>2. CASE ~(r \in {entries[k] : k \in Present} /\ GoesStale(heap[r]))
      BY <2>2
    <2> QED BY <2>1, <2>2
  <1>3. cells \in [Refs -> EntryRecords \cup {Blank}]
    <2>1. \A r \in Refs : cells[r] \in EntryRecords \cup {Blank}
      <3> HIDE DEF cells
      <3> QED BY <1>0, <1>2 DEF MapTypeOK, Amended
    <2> QED BY <2>1
  <1>4. Store(ents, cells, hand)
    BY DEF Sweep
  <1>5. /\ clock' \in 0 .. MaxTime /\ received' \in 0 .. MaxEvents
        /\ hand \in [Handlers -> Locals \cup {Idle}]
    BY <1>0 DEF Sweep, MapTypeOK
  <1> HIDE DEF ents, cells
  <1>6. /\ MapTypeOK' /\ entries' = ents /\ hand' = hand
        /\ \A r \in Reachable(entries', hand') \cap Refs : heap'[r] = cells[r]
    BY <1>0, <1>1, <1>3, <1>4, <1>5, StoreFacts
  <1>7. Amends
    BY <1>1, <1>2, <1>6 DEF Amends, Rewritten
  <1> QED BY <1>6, <1>7, HandsStay DEF MapStep

LEMMA StampIsTime ==
    ASSUME NEW s \in Shapes, NEW t \in Stamps
    PROVE  [s EXCEPT !.at = t] \in Events
  BY DEF Stamps, Events

(* Every step of the map that is not a crash is one of these *)
LEMMA EveryStepIsMapStep ==
    ASSUME MapInv, [SessionNext]_sessionVars, ~Restarted
    PROVE  MapStep
  <1>0. clock \in 0 .. MaxTime /\ received \in 0 .. MaxEvents
    BY DEF MapInv, MapTypeOK
  <1>1. ASSUME NEW h \in Handlers, HandleEvent(h) PROVE MapStep
    <2>1. ASSUME NEW ev \in Events,
                 \/ Open(h, ev) \/ Close(h, ev) \/ Data(h, ev) \/ StoreRotation(h, ev)
                 \/ Resumed(h, ev) \/ Ignore(h, ev)
          PROVE  MapStep
      <3>1. CASE Ignore(h, ev)
        <4>1. UNCHANGED <<entries, heap, hand>> /\ clock' = clock /\ Receives(h)
          BY <3>1 DEF Ignore
        <4>2. received' \in 0 .. MaxEvents
          BY <4>1, ReceivesTyped DEF MapInv
        <4> QED BY <1>0, <4>1, <4>2, StillIsMapStep
      <3> QED BY <2>1, <3>1, OpenIsMapStep, CloseIsMapStep, DataIsMapStep,
                 StoreRotationIsMapStep, ResumedIsMapStep
    <2>2. CASE \E s \in Shapes, t \in Stamps :
                 LET ev == [s EXCEPT !.at = t]
                 IN  \/ Open(h, ev) \/ Close(h, ev) \/ Data(h, ev) \/ StoreRotation(h, ev)
                     \/ Resumed(h, ev) \/ Ignore(h, ev)
      <3>1. PICK ev \in Events :
                 \/ Open(h, ev) \/ Close(h, ev) \/ Data(h, ev) \/ StoreRotation(h, ev)
                 \/ Resumed(h, ev) \/ Ignore(h, ev)
        BY <2>2, StampIsTime
      <3> QED BY <2>1, <3>1
    <2>3. ~Crash(h)
      BY DEF Restarted
    <2> QED BY <1>1, <2>2, <2>3, MovesAreMapSteps, RelockIsMapStep DEF HandleEvent
  <1>2. CASE Tick
    <2>1. clock' \in 0 .. MaxTime
      BY <1>0, <1>2, SessionBoundsAssumption DEF Tick
    <2> QED BY <1>0, <1>2, <2>1, StillIsMapStep DEF Tick
  <1>3. CASE UNCHANGED sessionVars
    BY <1>0, <1>3, StillIsMapStep DEF sessionVars
  <1> QED BY <1>1, <1>2, <1>3, SweepIsMapStep DEF SessionNext

(* A crash leaves an empty map *)
LEMMA CrashKeepsInv ==
    ASSUME MapInv, Restarted
    PROVE  MapInv'
  <1>1. /\ entries' = [k \in Keys |-> NoRef] /\ heap' = [r \in Refs |-> Blank]
        /\ hand' = [g \in Handlers |-> Idle] /\ UNCHANGED <<clock, received>>
    BY DEF Restarted, Crash
  <1>2. Present' = {}
    BY <1>1 DEF Present
  <1>3. \A h \in Handlers : hand'[h].pc = "idle"
    BY <1>1, IdleIsNone
  <1>4. MapTypeOK'
    BY <1>1 DEF MapInv, MapTypeOK
  <1>5. IsFiniteSet(Present')
    BY <1>2, FS_EmptySet
  <1>6. CellsKeyed' /\ CellsOwned' /\ AuditOwned'
    BY <1>2 DEF CellsKeyed, CellsOwned, AuditOwned
  <1>7. HandsHold' /\ CertInHand'
    BY <1>3 DEF HandsHold, CertInHand, Working
  <1> QED BY <1>4, <1>5, <1>6, <1>7 DEF MapInv

LEMMA MapInit == SessionInit => MapInv
  <1> SUFFICES ASSUME SessionInit PROVE MapInv
    OBVIOUS
  <1>1. MapTypeOK
    BY SessionBoundsAssumption DEF SessionInit, MapTypeOK
  <1>2. Present = {}
    BY DEF Present, SessionInit
  <1>3. \A h \in Handlers : hand[h].pc = "idle"
    BY IdleIsNone DEF SessionInit
  <1>4. IsFiniteSet(Present)
    BY <1>2, FS_EmptySet
  <1>5. CellsKeyed /\ CellsOwned /\ AuditOwned
    BY <1>2 DEF CellsKeyed, CellsOwned, AuditOwned
  <1>6. HandsHold /\ CertInHand
    BY <1>3 DEF HandsHold, CertInHand, Working
  <1> QED BY <1>1, <1>4, <1>5, <1>6 DEF MapInv

LEMMA MapInvStep == MapInv /\ [SessionNext]_sessionVars => MapInv'
  BY EveryStepIsMapStep, CrashKeepsInv, MapStepKeepsInv

(* Facts of a step that is a crash *)
LEMMA CrashEmpties ==
    ASSUME Restarted
    PROVE  Kept = {} /\ Inserted = {} /\ Present' = {}
  <1>1. entries' = [k \in Keys |-> NoRef]
    BY DEF Restarted, Crash
  <1> QED BY <1>1 DEF Kept, Inserted, Present

(* The heap stays sound (HeapSound) *)
THEOREM HeapSoundCorrect == SessionSpec => []HeapSound
  <1>1. MapInv => HeapSound
    <2> SUFFICES ASSUME MapInv PROVE HeapSound
      OBVIOUS
    <2>1. \A k \in Present : EntryAt(k) # Blank
      BY BlankIsNone DEF MapInv, CellsKeyed
    <2>2. \A j, k \in Present : entries[j] = entries[k] => j = k
      BY DEF MapInv, CellsOwned
    <2>3. /\ \A k \in Present \cap ConnKeys : k = <<"conn", EntryAt(k).node, EntryAt(k).conn>>
          /\ \A k \in Present \cap RotationKeys :
                /\ EntryAt(k).status \in RotationStatuses
                /\ k = <<"rotation", EntryAt(k).identity, EntryAt(k).last>>
      BY DEF MapInv, CellsKeyed, Keyed
    <2>4. \A h \in Handlers : hand[h].pc \in {"track", "relock", "args", "observe"} =>
             heap[hand[h].ref] # Blank
      BY BlankIsNone DEF MapInv, HandsHold, Working
    <2> QED BY <2>1, <2>2, <2>3, <2>4 DEF HeapSound
  <1> QED BY <1>1, MapInit, MapInvStep, PTL DEF SessionSpec

(* Only its connection edits an entry of the audit trail                   *)
(* (OnlyItsConnectionEditsAudit)                                           *)
THEOREM AuditEditsCorrect == SessionSpec => OnlyItsConnectionEditsAudit
  <1> DEFINE Edited(k) ==
                LET old == heap[entries[k]]
                    new == heap'[entries[k]]
                IN  (old.status \in RotationStatuses /\ new # old) =>
                       /\ k \in ConnKeys
                       /\ \/ Receiving
                          \/ \E h \in Handlers : hand[h].pc = "relock" /\ hand[h].ref = entries[k]
                       /\ old.identity # NoIdentity =>
                             new.identity = old.identity /\ new.kind = old.kind
                       /\ new.pid = old.pid
                       /\ new.status \in {old.status, "closed"}
  <1>1. ASSUME MapInv, [SessionNext]_sessionVars, NEW k \in Kept PROVE Edited(k)
    <2> SUFFICES ASSUME heap[entries[k]].status \in RotationStatuses,
                        heap'[entries[k]] # heap[entries[k]]
                 PROVE  /\ k \in ConnKeys /\ Writable(entries[k])
                        /\ heap[entries[k]].status # "active"
                        /\ Amended(heap[entries[k]], heap'[entries[k]])
      BY DEF Writable, Amended
    <2>1. MapStep
      BY <1>1, EveryStepIsMapStep, CrashEmpties
    <2>2. k \in Present /\ Writable(entries[k]) /\ Amended(heap[entries[k]], heap'[entries[k]])
      BY <1>1, <2>1, KeptCell
    <2>3. k \notin RotationKeys
      BY <1>1, <2>2, AuditNotWritable
    <2> QED BY <2>2, <2>3 DEF Present, Keys, RotationStatuses
  <1>2. MapInv /\ [SessionNext]_sessionVars => [\A k \in Kept : Edited(k)]_sessionVars
    BY <1>1
  <1> QED BY <1>2, MapInit, MapInvStep, PTL DEF SessionSpec, OnlyItsConnectionEditsAudit

(* The first identity and the first token stay (FirstObservationWins) *)
THEOREM FirstObservationCorrect == SessionSpec => FirstObservationWins
  <1> DEFINE Wins == \A k \in Kept :
                        LET old == heap[entries[k]]
                            new == heap'[entries[k]]
                        IN  /\ old.identity # NoIdentity =>
                                  new.identity = old.identity /\ new.kind = old.kind
                            /\ old.token # NoToken => new.token = old.token
  <1>1. MapInv /\ [SessionNext]_sessionVars => [Wins]_sessionVars
    <2> SUFFICES ASSUME MapInv, [SessionNext]_sessionVars, NEW k \in Kept
                 PROVE  LET old == heap[entries[k]]
                            new == heap'[entries[k]]
                        IN  /\ old.identity # NoIdentity =>
                                  new.identity = old.identity /\ new.kind = old.kind
                            /\ old.token # NoToken => new.token = old.token
      OBVIOUS
    <2>1. MapStep
      BY EveryStepIsMapStep, CrashEmpties
    <2> QED BY <2>1, KeptCell DEF Amended
  <1> QED BY <1>1, MapInit, MapInvStep, PTL DEF SessionSpec, FirstObservationWins

-----------------------------------------------------------------------------
(* A handler leaves "relock" by Relock or with a crash only *)
LEMMA OthersWait ==
    ASSUME MapInv, [SessionNext]_sessionVars, ~Restarted, NEW h \in Handlers,
           hand[h].pc = "relock", hand'[h].pc # "relock"
    PROVE  Relock(h)
  <1>2. CASE hand' = hand
    BY <1>2
  <1>3. ASSUME NEW g \in Handlers, HandleEvent(g) PROVE Relock(h)
    <2>1. PICK l : hand' = Put(g, l) \/ hand' = hand
      <3>1. CASE Relock(g)
        BY <3>1 DEF Relock, Store
      <3>2. CASE OpenObserve(g) \/ TrackCert(g) \/ LoadTool(g) \/ DataObserve(g)
        BY <3>2 DEF OpenObserve, TrackCert, LoadTool, DataObserve, Store
      <3>3. ASSUME NEW ev,
                   \/ Open(g, ev) \/ Close(g, ev) \/ Data(g, ev) \/ StoreRotation(g, ev)
                   \/ Resumed(g, ev) \/ Ignore(g, ev)
            PROVE  \E l : hand' = Put(g, l) \/ hand' = hand
        BY <3>3 DEF Open, Close, Data, StoreRotation, Resumed, Ignore, Store
      <3> QED BY <1>3, <3>1, <3>2, <3>3 DEF HandleEvent, Restarted
    <2>2. g = h
      <3>1. ASSUME g # h PROVE hand'[h] = hand[h]
        BY <2>1, <3>1 DEF Put, MapInv, MapTypeOK
      <3> QED BY <3>1
    <2>3. \A ev : ~(\/ Open(h, ev) \/ Close(h, ev) \/ Data(h, ev) \/ StoreRotation(h, ev)
                   \/ Resumed(h, ev) \/ Ignore(h, ev))
      BY DEF Open, Close, Data, StoreRotation, Resumed, Ignore, Receives
    <2>4. ~(OpenObserve(h) \/ TrackCert(h) \/ LoadTool(h) \/ DataObserve(h) \/ Crash(h))
      BY DEF OpenObserve, TrackCert, LoadTool, DataObserve, Crash
    <2>5. HandleEvent(h)
      BY <1>3, <2>2
    <2> QED BY <2>3, <2>4, <2>5 DEF HandleEvent
  <1> QED BY <1>2, <1>3 DEF SessionNext, Sweep, Store, Tick, sessionVars

(* Relock writes the cell the handler holds and the new rotation entry *)
LEMMA RelockSparesOthers ==
    ASSUME MapInv, NEW h \in Handlers, Relock(h), NEW k \in Kept, entries[k] # hand[h].ref
    PROVE  heap'[entries[k]] = heap[entries[k]]
  <1>0. MapTypeOK /\ k \in Keys /\ entries'[k] = entries[k] /\ entries[k] \in Refs
    BY DEF MapInv, Kept, Present, MapTypeOK
  <1>1. PICK cells, ents, hd : Store(ents, cells, hd) /\ cells[entries[k]] = heap[entries[k]]
    <2> DEFINE ev == hand[h].ev
               r == hand[h].ref
               final == WithToken(heap[r], ev)
               next == Put(h, AfterToken(final, ev, r))
    <2>1. CASE Store(entries, [heap EXCEPT ![r] = final], next)
      <3>1. [heap EXCEPT ![r] = final][entries[k]] = heap[entries[k]]
        BY <1>0 DEF MapTypeOK
      <3> QED BY <2>1, <3>1
    <2>2. CASE /\ FreeRefs # {}
               /\ Store([entries EXCEPT ![syntheticKey(ev)] = Fresh],
                        [heap EXCEPT ![r] = final, ![Fresh] = RotationEntry(ev, hand[h].class)],
                        next)
      <3>1. entries[k] # Fresh
        BY <1>0, <2>2, FreshIsFree DEF FreeRefs, Reachable
      <3>2. [heap EXCEPT ![r] = final, ![Fresh] = RotationEntry(ev, hand[h].class)][entries[k]]
              = heap[entries[k]]
        BY <1>0, <3>1 DEF MapTypeOK
      <3> QED BY <2>2, <3>2
    <2> QED BY <2>1, <2>2 DEF Relock, HeldCell
  <1>2. entries' = ents /\ heap' = Collected(cells, ents, hd)
    BY <1>1 DEF Store
  <1>3. entries[k] \in Reachable(ents, hd)
    BY <1>0, <1>2 DEF Reachable
  <1> QED BY <1>0, <1>1, <1>2, <1>3 DEF Collected

(* A late event does not write into a successor of its connection          *)
(* (LateEventSparesSuccessor)                                              *)
THEOREM LateEventCorrect == SessionSpec => LateEventSparesSuccessor
  <1> DEFINE Spares == \A h \in Handlers :
                          LET k == connectionKey(hand[h].ev)
                          IN  (/\ hand[h].pc = "relock"
                               /\ hand'[h].pc # "relock"
                               /\ k \in Kept
                               /\ entries[k] # hand[h].ref)
                                 => heap'[entries[k]] = heap[entries[k]]
  <1>1. MapInv /\ [SessionNext]_sessionVars => [Spares]_sessionVars
    <2> SUFFICES ASSUME MapInv, [SessionNext]_sessionVars, NEW h \in Handlers, NEW k,
                        hand[h].pc = "relock", hand'[h].pc # "relock",
                        k \in Kept, entries[k] # hand[h].ref
                 PROVE  heap'[entries[k]] = heap[entries[k]]
      OBVIOUS
    <2>1. ~Restarted
      BY CrashEmpties
    <2> QED BY <2>1, OthersWait, RelockSparesOthers
  <1> QED BY <1>1, MapInit, MapInvStep, PTL DEF SessionSpec, LateEventSparesSuccessor

-----------------------------------------------------------------------------
(* Which steps remove keys and which insert them *)

LEMMA EntriesChange ==
    ASSUME [SessionNext]_sessionVars, ~Restarted, entries' # entries
    PROVE  \/ Sweep
           \/ \E h \in Handlers, ev \in Events : Open(h, ev) \/ StoreRotation(h, ev)
           \/ \E h \in Handlers : Relock(h)
  <1>1. ASSUME NEW h \in Handlers, HandleEvent(h)
        PROVE  \/ \E ev \in Events : Open(h, ev) \/ StoreRotation(h, ev)
               \/ Relock(h)
    <2>1. \A ev : ~(Close(h, ev) \/ Data(h, ev) \/ Resumed(h, ev) \/ Ignore(h, ev))
      BY DEF Close, Data, Resumed, Ignore, Store
    <2>2. ~(OpenObserve(h) \/ TrackCert(h) \/ LoadTool(h) \/ DataObserve(h))
      BY DEF OpenObserve, TrackCert, LoadTool, DataObserve, Store
    <2>3. ~Crash(h)
      BY DEF Restarted
    <2> QED BY <1>1, <2>1, <2>2, <2>3, StampIsTime DEF HandleEvent
  <1>2. ~Tick /\ ~UNCHANGED sessionVars
    BY DEF Tick, sessionVars
  <1> QED BY <1>1, <1>2 DEF SessionNext

(* An OPEN removes at most one key, and only when the map is full *)
LEMMA OpenEvicts ==
    ASSUME MapInv, NEW h \in Handlers, NEW ev \in Events, Open(h, ev)
    PROVE  \E evicted : /\ IF Full THEN \E v \in Victims : evicted = {v} ELSE evicted = {}
                        /\ \A k \in Keys : entries'[k] = IF k = connectionKey(ev) THEN Fresh
                                                         ELSE IF k \in evicted THEN NoRef
                                                         ELSE entries[k]
  <1>1. PICK evicted \in (IF Full THEN {{k} : k \in Victims} ELSE {{}}) :
            entries' = [k \in Keys |-> IF k = connectionKey(ev) THEN Fresh
                                       ELSE IF k \in evicted THEN NoRef ELSE entries[k]]
    BY DEF Open, Store
  <1>2. CASE Full
    <2>1. PICK v \in Victims : evicted = {v}
      BY <1>1, <1>2
    <2> QED BY <1>1, <1>2, <2>1
  <1>3. CASE ~Full
    BY <1>1, <1>3
  <1> QED BY <1>2, <1>3

LEMMA VictimFacts ==
    ASSUME NEW k \in Victims
    PROVE  /\ k \in Present
           /\ EntryAt(k).status \in {"closed", "stale"}
                \/ \A j \in Present : EntryAt(j).status \notin {"closed", "stale"}
           /\ \A j \in Present :
                (EntryAt(k).status \in {"closed", "stale"}
                    => EntryAt(j).status \in {"closed", "stale"})
                  => EntryAt(k).last <= EntryAt(j).last
  BY DEF Victims, OldestOf, Evictable, Dead

(* What EntriesLeaveForAReason asks of a step that is not a crash *)
Departs ==
    /\ \A k \in Removed : Swept(k) \/ Evicted(k)
    /\ \A k \in Present \cap Inserted : Displaced(k)
    /\ Inserted # {} => \A j, k \in Removed : j = k

LEMMA SweepDeparts ==
    ASSUME MapInv, Sweep
    PROVE  Departs
  <1>1. Inserted = {}
    BY DEF Sweep, Store, Inserted
  <1>2. ASSUME NEW k \in Removed PROVE Swept(k)
    <2>1. k \in Present /\ Expired(EntryAt(k))
      BY <1>2 DEF Sweep, Store, Removed, Present
    <2>2. EntryAt(k).last \in Int /\ clock \in Int /\ staleTTL \in Int
      <3>1. EntryAt(k).last \in Times
        BY <2>1 DEF MapInv, CellsKeyed, EntryRecords
      <3> QED BY <3>1, SessionBoundsAssumption DEF Times, MapInv, MapTypeOK
    <2>3. CASE EntryAt(k).status = "closed" /\ EntryAt(k).last < clock - staleTTL
      BY <2>2, <2>3 DEF Swept
    <2>4. CASE EntryAt(k).status = "stale" /\ EntryAt(k).last < clock - 2 * staleTTL
      BY <2>2, <2>4 DEF Swept
    <2> QED BY <2>1, <2>3, <2>4 DEF Expired
  <1> QED BY <1>1, <1>2 DEF Departs

LEMMA OpenDeparts ==
    ASSUME MapInv, NEW h \in Handlers, NEW ev \in Events, Open(h, ev)
    PROVE  Departs
  <1>1. PICK evicted :
            /\ IF Full THEN \E v \in Victims : evicted = {v} ELSE evicted = {}
            /\ \A j \in Keys : entries'[j] = IF j = connectionKey(ev) THEN Fresh
                                             ELSE IF j \in evicted THEN NoRef
                                             ELSE entries[j]
    BY OpenEvicts
  <1>2. /\ Fresh \in FreeRefs /\ Fresh \in Refs /\ Fresh # NoRef
        /\ Fresh \notin {entries[k] : k \in Keys}
    BY FreshIsFree, NoRefIsNone DEF Open, FreeRefs, Reachable
  <1>3. connectionKey(ev) \in Keys /\ connectionKey(ev) \in ConnKeys
    BY ConnectionKeys
  <1>4. Receiving
    BY DEF Receiving, Open
  <1>5. heap'[Fresh] = OpenEntry(ev)
    <2>1. PICK ents, hd : /\ Store(ents, [heap EXCEPT ![Fresh] = OpenEntry(ev)], hd)
                          /\ ents[connectionKey(ev)] = Fresh
      BY <1>3 DEF Open
    <2>2. Fresh \in Reachable(ents, hd)
      BY <1>3, <2>1 DEF Reachable
    <2> QED BY <1>2, <2>1, <2>2 DEF Store, Collected, MapInv, MapTypeOK
  <1>6. heap'[entries'[connectionKey(ev)]].status = "active"
    BY <1>1, <1>3, <1>5 DEF OpenEntry
  <1>7. connectionKey(ev) \in Inserted /\ Inserted \subseteq {connectionKey(ev)}
    BY <1>1, <1>2, <1>3 DEF Inserted
  <1>8. \A k \in Removed : k \in evicted
    BY <1>1, <1>2 DEF Removed, Present
  <1>9. \A j, k \in Removed : j = k
    BY <1>1, <1>8
  <1>10. ASSUME NEW k \in Removed PROVE Evicted(k)
    <2>1. Full /\ k \in Victims
      BY <1>1, <1>8
    <2> QED BY <1>4, <1>6, <1>7, <2>1, VictimFacts DEF Evicted, Full
  <1>11. ASSUME NEW k \in Inserted PROVE Displaced(k)
    BY <1>3, <1>4, <1>6, <1>7 DEF Displaced
  <1> QED BY <1>9, <1>10, <1>11 DEF Departs

LEMMA RotationDeparts ==
    ASSUME MapInv, RotationsInserted, MapInv', NEW n \in Keys, FreeRefs # {},
           entries' = [entries EXCEPT ![n] = Fresh],
           n \in ConnKeys => Receiving
    PROVE  Departs
  <1>1. Fresh # NoRef
    BY FreshIsFree, NoRefIsNone
  <1>2. Removed = {}
    BY <1>1 DEF Removed, Present, MapInv, MapTypeOK
  <1>3. Inserted \subseteq {n}
    BY DEF Inserted, MapInv, MapTypeOK
  <1>4. ASSUME NEW k \in Inserted PROVE Displaced(k)
    <2>1. k = n /\ heap'[entries'[k]].status \in RotationStatuses
      BY <1>3 DEF RotationsInserted
    <2>2. Keyed(k, heap'[entries'[k]])
      <3>1. k \in Present'
        BY DEF Inserted, Present
      <3> QED BY <3>1 DEF MapInv, CellsKeyed, EntryAt, Keyed
    <2> QED BY <2>1, <2>2 DEF Displaced, Keyed, Keys
  <1> QED BY <1>2, <1>4 DEF Departs

(* Entries leave for a reason (EntriesLeaveForAReason) *)
THEOREM EntriesLeaveCorrect == SessionSpec => EntriesLeaveForAReason
  <1>1. ASSUME MapInv, [SessionNext]_sessionVars, ~Restarted PROVE Departs
    <2>0. MapInv'
      BY <1>1, MapInvStep
    <2>1. CASE entries' = entries
      BY <2>1 DEF Departs, Removed, Inserted, Present
    <2>2. ASSUME NEW h \in Handlers, NEW ev \in Events, StoreRotation(h, ev) PROVE Departs
      <3>1. entries' = [entries EXCEPT ![connectionKey(ev)] = Fresh] /\ FreeRefs # {}
        BY <2>2 DEF StoreRotation, Store
      <3>2. Receiving
        BY <2>2 DEF StoreRotation, Receiving
      <3>3. RotationsInserted /\ connectionKey(ev) \in Keys
        BY <1>1, <2>2, StoreRotationIsMapStep, ConnectionKeys
      <3> QED BY <1>1, <2>0, <3>1, <3>2, <3>3, RotationDeparts
    <2>3. ASSUME NEW h \in Handlers, Relock(h), entries' # entries PROVE Departs
      <3>1. entries' = [entries EXCEPT ![syntheticKey(hand[h].ev)] = Fresh] /\ FreeRefs # {}
        BY <2>3 DEF Relock, Store
      <3>2. syntheticKey(hand[h].ev) \in RotationKeys
        <4>1. hand[h].pc = "relock" /\ hand[h].ev \in Events
          BY <1>1, <2>3, HeldFacts DEF Relock, Working
        <4> QED BY <1>1, <4>1, EventFields DEF syntheticKey, RotationKeys, MapInv, CertInHand
      <3>3. RotationsInserted
        BY <1>1, <2>3, RelockIsMapStep
      <3> QED BY <1>1, <2>0, <3>1, <3>2, <3>3, KeysApart, RotationDeparts DEF Keys
    <2> QED BY <1>1, <2>1, <2>2, <2>3, EntriesChange, SweepDeparts, OpenDeparts
  <1>2. MapInv /\ [SessionNext]_sessionVars => [~Restarted => Departs]_sessionVars
    BY <1>1
  <1> QED BY <1>2, MapInit, MapInvStep, PTL DEF SessionSpec, EntriesLeaveForAReason, Departs

(* Only rotation entries take the map past its cap                         *)
(* (OnlyRotationsExceedCap)                                                *)
THEOREM CapCorrect == SessionSpec => OnlyRotationsExceedCap
  <1>1. ASSUME MapInv, [SessionNext]_sessionVars,
               maxEntries > 0, Size >= maxEntries, Size' > Size
        PROVE  \A k \in Inserted : heap'[entries'[k]].status \in RotationStatuses
    <2>1. CASE Restarted
      BY <2>1, CrashEmpties
    <2>2. ASSUME NEW h \in Handlers, NEW ev \in Events, Open(h, ev) PROVE FALSE
      <3>1. Full
        BY <1>1 DEF Full
      <3>2. PICK v \in Victims : \A k \in Keys : k # connectionKey(ev) =>
                                     entries'[k] = IF k = v THEN NoRef ELSE entries[k]
        BY <1>1, <2>2, <3>1, OpenEvicts
      <3>3. v \in Present
        BY VictimFacts
      <3> DEFINE rest == Present \ {v}
                 all  == rest \cup {connectionKey(ev)}
      <3>4. Present' \subseteq all
        BY <3>2 DEF Present
      <3>5. IsFiniteSet(rest) /\ Cardinality(rest) = Size - 1 /\ Size \in Nat
        BY <1>1, <3>3, FS_RemoveElement, FS_CardinalityType DEF MapInv, Size
      <3> HIDE DEF rest
      <3>6. IsFiniteSet(all) /\ Cardinality(all) <= Cardinality(rest) + 1 /\ Cardinality(all) \in Nat
        <4>1. PICK x : x = connectionKey(ev)
          OBVIOUS
        <4>2. /\ IsFiniteSet(rest \cup {x})
              /\ Cardinality(rest \cup {x}) =
                    IF x \in rest THEN Cardinality(rest) ELSE Cardinality(rest) + 1
          BY <3>5, FS_AddElement
        <4>3. Cardinality(rest) \in Nat /\ Cardinality(rest \cup {x}) \in Nat
          BY <3>5, <4>2, FS_CardinalityType
        <4>4. Cardinality(rest \cup {x}) <= Cardinality(rest) + 1
          BY <4>2, <4>3
        <4> QED BY <4>1, <4>2, <4>3, <4>4
      <3> HIDE DEF all
      <3>7. Cardinality(Present') <= Cardinality(all) /\ Cardinality(Present') \in Nat
        BY <3>4, <3>6, FS_Subset, FS_CardinalityType
      <3>8. Size' = Cardinality(Present')
        BY DEF Size
      <3> QED BY <1>1, <3>5, <3>6, <3>7, <3>8
    <2>3. ASSUME ~\E k \in Keys : entries'[k] \notin {NoRef, entries[k]}
          PROVE  Inserted = {}
      BY <2>3 DEF Inserted
    <2>4. CASE Sweep
      BY <2>3, <2>4 DEF Sweep, Store
    <2>5. CASE entries' = entries
      BY <2>3, <2>5
    <2> QED BY <1>1, <2>1, <2>2, <2>4, <2>5, EntriesChange, StoreRotationIsMapStep,
               RelockIsMapStep DEF RotationsInserted
  <1>2. MapInv /\ [SessionNext]_sessionVars =>
          [(maxEntries > 0 /\ Size >= maxEntries /\ Size' > Size) =>
              \A k \in Inserted : heap'[entries'[k]].status \in RotationStatuses]_sessionVars
    BY <1>1
  <1> QED BY <1>2, MapInit, MapInvStep, PTL DEF SessionSpec, OnlyRotationsExceedCap

-----------------------------------------------------------------------------
(* The two trackers: what a call leaves behind *)

LEMMA AppendCappedTyped ==
    ASSUME NEW hist \in Seq(CertObservations), NEW obs \in CertObservations
    PROVE  /\ AppendCapped(hist, obs) \in Seq(CertObservations)
           /\ hist # <<>> => Len(AppendCapped(hist, obs)) >= 2
  <1> DEFINE longer == Append(hist, obs)
  <1>1. longer \in Seq(CertObservations) /\ Len(longer) = Len(hist) + 1 /\ Len(hist) \in Nat
    OBVIOUS
  <1>2. hist # <<>> => Len(hist) >= 1
    OBVIOUS
  <1>3. certHistoryMax \in Nat /\ certHistoryMax > 1
    BY RotationBoundsAssumption, SessionNamesAssumption
  <1>4. CASE Len(longer) > certHistoryMax
    <2> DEFINE cut == SubSeq(longer, Len(longer) - certHistoryMax + 1, Len(longer))
    <2>1. AppendCapped(hist, obs) = cut
      BY <1>4 DEF AppendCapped
    <2> HIDE DEF longer
    <2>2. cut \in Seq(CertObservations) /\ Len(cut) = certHistoryMax
      BY <1>1, <1>3, <1>4
    <2> QED BY <1>3, <2>1, <2>2
  <1>5. CASE ~(Len(longer) > certHistoryMax)
    <2>1. AppendCapped(hist, obs) = longer
      BY <1>5 DEF AppendCapped
    <2> HIDE DEF longer
    <2> QED BY <1>1, <1>2, <2>1
  <1> QED BY <1>4, <1>5

LEMMA RateTyped ==
    ASSUME RotationTypeOK, NEW id \in SpiffeIds, NEW now \in Nat
    PROVE  CountAt(id, now) \in 0 .. rotationRateMax + 1 /\ ResetAt(id, now) \in Nat
  BY RotationBoundsAssumption DEF RotationTypeOK, CountAt, ResetAt, WindowOver

(* A history does not fall below two observations again, and a call that   *)
(* reports a rotation leaves at least two.                                 *)
LEMMA TrackFacts ==
    ASSUME RotationTypeOK, NEW id \in SpiffeIds, NEW obs \in CertObservations, Track(id, obs)
    PROVE  /\ RotationTypeOK'
           /\ \A i \in SpiffeIds : Len(history[i]) >= 2 => Len(history'[i]) >= 2
           /\ TrackClass(id, obs) # "first_seen" => Len(history'[id]) >= 2
  <1> DEFINE old == history[id]
             same == RateLimited(id, obs.at) \/ SameCert(id, obs)
             new == IF same THEN old ELSE AppendCapped(old, obs)
  <1>1. obs.at \in Nat
    BY ObservationAssumption
  <1>2. rateCount' \in [SpiffeIds -> 0 .. rotationRateMax + 1]
    BY <1>1, RateTyped DEF Track, RotationTypeOK
  <1>3. rateReset' \in [SpiffeIds -> Nat \cup {NoReset}]
    BY <1>1, RateTyped DEF Track, RotationTypeOK
  <1>4. old \in Seq(CertObservations)
    BY DEF RotationTypeOK
  <1>5. history' = [history EXCEPT ![id] = new]
    BY DEF Track
  <1>6. new \in Seq(CertObservations) /\ (Len(old) >= 2 => Len(new) >= 2)
    <2>1. Len(old) >= 2 => old # <<>>
      BY <1>4
    <2> HIDE DEF old, same
    <2> QED BY <1>4, <2>1, AppendCappedTyped
  <1>7. TrackClass(id, obs) # "first_seen" => Len(new) >= 2
    <2>1. TrackClass(id, obs) # "first_seen" => ~same /\ old # <<>>
      BY DEF TrackClass
    <2> HIDE DEF old, same
    <2> QED BY <1>4, <2>1, AppendCappedTyped
  <1> HIDE DEF old, new
  <1>8. history' \in [SpiffeIds -> Seq(CertObservations)]
    BY <1>5, <1>6 DEF RotationTypeOK
  <1>9. \A i \in SpiffeIds : history'[i] = IF i = id THEN new ELSE history[i]
    BY <1>5 DEF RotationTypeOK
  <1> QED BY <1>2, <1>3, <1>6, <1>7, <1>8, <1>9 DEF RotationTypeOK, old

LEMMA ModTyped ==
    ASSUME NEW t \in Nat, NEW m \in Nat \ {0}
    PROVE  t % m \in Nat /\ t % m <= t
  OBVIOUS

LEMMA CountedTyped ==
    ASSUME NEW w \in Windows, NEW dest \in Dests \cup {NoDest}, NEW tx \in Nat
    PROVE  Counted(w, dest, tx) \in Windows
  <1> DEFINE fits == dest \in w.dests \/ Cardinality(w.dests) < profileDestSetMax
             ds == IF dest # NoDest /\ fits THEN w.dests \cup {dest} ELSE w.dests
             ov == IF dest # NoDest /\ ~fits THEN w.overflow + 1 ELSE w.overflow
             tb == (w.bytesTx + tx) % ByteModulus
  <1>1. /\ w.start \in Nat /\ w.connections \in Nat /\ w.overflow \in Nat
        /\ w.bytesTx \in Nat /\ w.dests \subseteq Dests
    BY DEF Windows
  <1>2. Counted(w, dest, tx) = [w EXCEPT !.connections = w.connections + 1, !.dests = ds,
                                         !.overflow = ov, !.bytesTx = tb]
    BY DEF Counted
  <1>3. ds \in SUBSET Dests /\ ov \in Nat /\ w.connections + 1 \in Nat
    BY <1>1
  <1>4. tb \in Nat
    BY <1>1, ModTyped, ProfileAssumption
  <1> HIDE DEF ds, ov, tb
  <1> QED BY <1>1, <1>2, <1>3, <1>4 DEF Windows

LEMMA NewWindowTyped ==
    ASSUME NEW t \in Nat
    PROVE  NewWindow(t) \in Windows
  <1>1. t % profileWindowSize \in Nat /\ t % profileWindowSize <= t
    BY ModTyped, ProfileAssumption
  <1>2. Truncate(t) \in Nat
    BY <1>1 DEF Truncate
  <1> QED BY <1>2 DEF NewWindow, Windows

(* Whoever was observed has a window *)
LEMMA ObservedTyped ==
    ASSUME NEW ws \in Seq(Windows), NEW dest \in Dests \cup {NoDest}, NEW tx \in Nat,
           NEW at \in Nat
    PROVE  Observed(ws, dest, tx, at) \in Seq(Windows) /\ Observed(ws, dest, tx, at) # <<>>
  <1> DEFINE cur == currentWindow(ws, at)
  <1>1. profileLearnMin \in Nat \ {0} /\ profileWindowMax \in Nat \ {0}
    BY ProfileAssumption
  <1>2. CASE Backdated(ws, at)
    <2>1. Len(ws) \in Nat /\ Len(ws) >= profileLearnMin
      BY <1>2 DEF Backdated
    <2>2. ws # <<>>
      BY <1>1, <2>1
    <2> QED BY <1>2, <2>2 DEF Observed
  <1>3. CASE ~Backdated(ws, at)
    <2>1. cur \in Seq(Windows) /\ Len(cur) \in Nat \ {0}
      <3>1. CASE ws # <<>> /\ Covers(Newest(ws), at)
        <4>1. cur = ws
          BY <3>1 DEF currentWindow
        <4> QED BY <3>1, <4>1
      <3>2. CASE ~(ws # <<>> /\ Covers(Newest(ws), at))
        <4> DEFINE longer == Append(ws, NewWindow(at))
        <4>1. longer \in Seq(Windows) /\ Len(longer) = Len(ws) + 1 /\ Len(ws) \in Nat
          BY NewWindowTyped
        <4>2. cur = CapWindows(longer)
          BY <3>2 DEF currentWindow
        <4> HIDE DEF longer
        <4>3. CASE Len(longer) > profileWindowMax
          <5> DEFINE cut == SubSeq(longer, Len(longer) - profileWindowMax + 1, Len(longer))
          <5>1. cut \in Seq(Windows) /\ Len(cut) = profileWindowMax
            BY <1>1, <4>1, <4>3
          <5>2. cur = cut
            BY <4>2, <4>3 DEF CapWindows
          <5> HIDE DEF cut, cur
          <5> QED BY <1>1, <5>1, <5>2
        <4>4. CASE ~(Len(longer) > profileWindowMax)
          <5>1. cur = longer
            BY <4>2, <4>4 DEF CapWindows
          <5> HIDE DEF cur
          <5> QED BY <4>1, <5>1
        <4> QED BY <4>3, <4>4
      <3> QED BY <3>1, <3>2
    <2>2. Observed(ws, dest, tx, at) = [cur EXCEPT ![Len(cur)] = Counted(cur[Len(cur)], dest, tx)]
      BY <1>3 DEF Observed
    <2> HIDE DEF cur
    <2>3. cur[Len(cur)] \in Windows
      BY <2>1
    <2>4. PICK c \in Windows : c = Counted(cur[Len(cur)], dest, tx)
      BY <2>3, CountedTyped
    <2>5. [cur EXCEPT ![Len(cur)] = c] \in Seq(Windows) /\ Len([cur EXCEPT ![Len(cur)] = c]) = Len(cur)
      BY <2>1, <2>4
    <2> QED BY <2>1, <2>2, <2>4, <2>5
  <1> QED BY <1>2, <1>3

LEMMA ObserveFacts ==
    ASSUME windows \in [Identities -> Seq(Windows)], NEW id,
           NEW dest \in Dests \cup {NoDest}, NEW tx \in Nat, NEW at \in Nat,
           Observe(id, dest, tx, at)
    PROVE  /\ windows' \in [Identities -> Seq(Windows)]
           /\ \A i \in Identities : windows[i] # <<>> => windows'[i] # <<>>
           /\ id \in Identities => windows'[id] # <<>>
  <1>1. windows' = [windows EXCEPT ![id] = Observed(windows[id], dest, tx, at)]
    BY DEF Observe
  <1>2. CASE id \in Identities
    <2>1. windows[id] \in Seq(Windows)
      BY <1>2
    <2>2. PICK new \in Seq(Windows) : new = Observed(windows[id], dest, tx, at) /\ new # <<>>
      BY <2>1, ObservedTyped
    <2> QED BY <1>1, <1>2, <2>2
  <1>3. CASE id \notin Identities
    BY <1>1, <1>3
  <1> QED BY <1>2, <1>3

-----------------------------------------------------------------------------
(* The trackers next to the map *)

(* Who is about to record a rotation has its two certificates on record *)
Reported ==
    \A h \in Handlers : hand[h].pc = "relock" /\ hand[h].class # "first_seen" =>
        Len(history[hand[h].ev.identity]) >= 2

TrackersTypeOK == RotationTypeOK /\ windows \in [Identities -> Seq(Windows)]

(* A handler that is going to call Observe for an identity *)
OnItsWay(h, id) ==
    \/ hand[h].pc = "openObserve" /\ pickIdentity(hand[h].ev)[1] = id
    \/ hand[h].pc \in Working /\ heap[hand[h].ref].identity = id

HasProfile(id) == windows[id] # <<>> \/ \E h \in Handlers : OnItsWay(h, id)

Profiled ==
    \A k \in Present : (EntryAt(k).status = "active" /\ EntryAt(k).kind = "spiffe") =>
        EntryAt(k).identity \in Identities /\ HasProfile(EntryAt(k).identity)

SessionInv == MapInv /\ TrackersTypeOK /\ Reported /\ AuditBackedByHistory /\ Profiled

-----------------------------------------------------------------------------
(* What a step may do to the trackers: nothing, one call of Track or one   *)
(* of Observe.                                                             *)

HistoriesStay == \A i \in SpiffeIds : Len(history[i]) >= 2 => Len(history'[i]) >= 2
WindowsStay == \A i \in Identities : windows[i] # <<>> => windows'[i] # <<>>

LEMMA TimesAreNat == Times \subseteq Nat
  BY SessionBoundsAssumption DEF Times

LEMMA TrackCertTracks ==
    ASSUME MapInv, TrackersTypeOK, NEW h \in Handlers, TrackCert(h)
    PROVE  /\ TrackersTypeOK' /\ HistoriesStay
           /\ hand[h].ev.identity \in SpiffeIds
           /\ TrackClass(hand[h].ev.identity, Observation(hand[h].ev)) # "first_seen" =>
                 Len(history'[hand[h].ev.identity]) >= 2
  <1>1. hand[h].pc \in Working /\ hand[h].pc \in {"track", "relock"}
    BY DEF TrackCert, Working
  <1>2. hand[h].ev \in Events /\ TracksCert(hand[h].ev)
    BY <1>1, HeldFacts DEF MapInv, CertInHand
  <1>3. PICK ev \in Events : ev = hand[h].ev
    BY <1>2
  <1>4. ev.identity \in SpiffeIds /\ Observation(ev) \in CertObservations
    BY <1>2, <1>3, EventFields
  <1>5. Track(ev.identity, Observation(ev)) /\ windows' = windows
    BY <1>3 DEF TrackCert
  <1>6. PICK obs \in CertObservations : obs = Observation(ev)
    BY <1>4
  <1>7. /\ RotationTypeOK' /\ HistoriesStay
        /\ TrackClass(ev.identity, obs) # "first_seen" => Len(history'[ev.identity]) >= 2
    BY <1>4, <1>5, <1>6, TrackFacts DEF TrackersTypeOK, HistoriesStay
  <1> QED BY <1>3, <1>4, <1>5, <1>6, <1>7 DEF TrackersTypeOK

LEMMA OpenObserveObserves ==
    ASSUME MapInv, TrackersTypeOK, NEW h \in Handlers, OpenObserve(h)
    PROVE  /\ TrackersTypeOK' /\ WindowsStay
           /\ \A id \in Identities : OnItsWay(h, id) => windows'[id] # <<>>
  <1>1. hand[h].pc = "openObserve" /\ hand[h] # Idle
    BY IdleIsNone DEF OpenObserve
  <1>2. hand[h] \in Locals
    BY <1>1 DEF MapInv, MapTypeOK
  <1>3. PICK ev \in Events : ev = hand[h].ev
    BY <1>2 DEF Locals
  <1>4. DestOf[ev.conn] \in Dests \cup {NoDest} /\ ev.bytes \in Nat /\ ev.at \in Nat
    BY EventFields, SessionNamesAssumption, TimesAreNat
  <1>5. Observe(pickIdentity(ev)[1], DestOf[ev.conn], ev.bytes, ev.at) /\ UNCHANGED rotationVars
    BY <1>3 DEF OpenObserve
  <1>6. /\ windows' \in [Identities -> Seq(Windows)] /\ WindowsStay
        /\ pickIdentity(ev)[1] \in Identities => windows'[pickIdentity(ev)[1]] # <<>>
    BY <1>4, <1>5, ObserveFacts DEF TrackersTypeOK, WindowsStay
  <1>7. TrackersTypeOK'
    BY <1>5, <1>6 DEF TrackersTypeOK, RotationTypeOK, rotationVars
  <1> QED BY <1>1, <1>3, <1>6, <1>7 DEF OnItsWay, Working

LEMMA DataObserveObserves ==
    ASSUME MapInv, TrackersTypeOK, NEW h \in Handlers, DataObserve(h)
    PROVE  /\ TrackersTypeOK' /\ WindowsStay
           /\ \A id \in Identities : OnItsWay(h, id) => windows'[id] # <<>>
  <1>1. hand[h].pc = "observe" /\ hand[h].pc \in Working
    BY DEF DataObserve, Working
  <1>2. PICK ev \in Events : ev = hand[h].ev
    BY <1>1, HeldFacts
  <1>3. PICK e \in EntryRecords : e = heap[hand[h].ref]
    BY <1>1, HeldFacts
  <1>4. DestOf[e.conn] \in Dests \cup {NoDest} /\ ev.bytes \in Nat /\ ev.at \in Nat
    BY EventFields, SessionNamesAssumption, TimesAreNat DEF EntryRecords
  <1>5. Observe(e.identity, DestOf[e.conn], ev.bytes, ev.at) /\ UNCHANGED rotationVars
    BY <1>2, <1>3 DEF DataObserve
  <1>6. /\ windows' \in [Identities -> Seq(Windows)] /\ WindowsStay
        /\ e.identity \in Identities => windows'[e.identity] # <<>>
    BY <1>4, <1>5, ObserveFacts DEF TrackersTypeOK, WindowsStay
  <1>7. TrackersTypeOK'
    BY <1>5, <1>6 DEF TrackersTypeOK, RotationTypeOK, rotationVars
  <1> QED BY <1>1, <1>3, <1>6, <1>7 DEF OnItsWay

(* Every step that is not one of these leaves the trackers alone *)
LEMMA OthersLeaveTrackers ==
    ASSUME [SessionNext]_sessionVars, ~Restarted,
           ~\E h \in Handlers : TrackCert(h) \/ OpenObserve(h) \/ DataObserve(h)
    PROVE  UNCHANGED <<rotationVars, windows>>
  <1>1. ASSUME NEW h \in Handlers, HandleEvent(h) PROVE UNCHANGED <<rotationVars, windows>>
    <2>1. \A ev : Open(h, ev) \/ Close(h, ev) \/ Data(h, ev) \/ StoreRotation(h, ev)
                   \/ Resumed(h, ev) \/ Ignore(h, ev) => UNCHANGED <<rotationVars, windows>>
      BY DEF Open, Close, Data, StoreRotation, Resumed, Ignore
    <2>2. Relock(h) \/ LoadTool(h) => UNCHANGED <<rotationVars, windows>>
      BY DEF Relock, LoadTool
    <2>3. ~Crash(h)
      BY DEF Restarted
    <2> QED BY <1>1, <2>1, <2>2, <2>3 DEF HandleEvent
  <1>2. Sweep \/ Tick \/ UNCHANGED sessionVars => UNCHANGED <<rotationVars, windows>>
    BY DEF Sweep, Tick, sessionVars, rotationVars
  <1> QED BY <1>1, <1>2 DEF SessionNext

LEMMA TrackersStep ==
    ASSUME MapInv, TrackersTypeOK, [SessionNext]_sessionVars, ~Restarted
    PROVE  TrackersTypeOK' /\ HistoriesStay /\ WindowsStay
  <1>1. ASSUME NEW h \in Handlers, TrackCert(h) PROVE TrackersTypeOK' /\ HistoriesStay /\ WindowsStay
    BY <1>1, TrackCertTracks DEF TrackCert, WindowsStay
  <1>2. ASSUME NEW h \in Handlers, OpenObserve(h) \/ DataObserve(h)
        PROVE  TrackersTypeOK' /\ HistoriesStay /\ WindowsStay
    BY <1>2, OpenObserveObserves, DataObserveObserves
       DEF OpenObserve, DataObserve, HistoriesStay, rotationVars
  <1>3. CASE UNCHANGED <<rotationVars, windows>>
    BY <1>3 DEF TrackersTypeOK, RotationTypeOK, HistoriesStay, WindowsStay, rotationVars
  <1> QED BY <1>1, <1>2, <1>3, OthersLeaveTrackers

-----------------------------------------------------------------------------
(* A handler on its way stays on its way until the profile is there *)

(* One handler moves at a time *)
LEMMA OthersStay ==
    ASSUME MapInv, ~Restarted, NEW g \in Handlers, HandleEvent(g), NEW h \in Handlers, g # h
    PROVE  hand'[h] = hand[h]
  <1>0. \A l : Put(g, l)[h] = hand[h]
    BY DEF Put, MapInv, MapTypeOK
  <1>1. ASSUME NEW ev, Open(g, ev) PROVE hand'[h] = hand[h]
    BY <1>0, <1>1 DEF Open, Store
  <1>2. ASSUME NEW ev, Data(g, ev) PROVE hand'[h] = hand[h]
    BY <1>0, <1>2 DEF Data, Store
  <1>3. \A ev : Close(g, ev) \/ StoreRotation(g, ev) \/ Resumed(g, ev) \/ Ignore(g, ev)
                  => hand'[h] = hand[h]
    BY DEF Close, StoreRotation, Resumed, Ignore, Store
  <1>4. OpenObserve(g) \/ TrackCert(g) \/ LoadTool(g) \/ DataObserve(g) => hand'[h] = hand[h]
    BY <1>0 DEF OpenObserve, TrackCert, LoadTool, DataObserve, Store
  <1>5. Relock(g) => hand'[h] = hand[h]
    BY <1>0 DEF Relock, Store
  <1>6. ~Crash(g)
    BY DEF Restarted
  <1> QED BY <1>1, <1>2, <1>3, <1>4, <1>5, <1>6 DEF HandleEvent

LEMMA OneMoves ==
    ASSUME MapInv, [SessionNext]_sessionVars, ~Restarted, NEW h \in Handlers,
           hand[h].pc # "idle"
    PROVE  \/ hand'[h] = hand[h]
           \/ OpenObserve(h) \/ TrackCert(h) \/ Relock(h) \/ LoadTool(h) \/ DataObserve(h)
  <1>1. \A ev : ~(Open(h, ev) \/ Close(h, ev) \/ Data(h, ev) \/ StoreRotation(h, ev)
                  \/ Resumed(h, ev) \/ Ignore(h, ev))
    BY DEF Open, Close, Data, StoreRotation, Resumed, Ignore, Receives
  <1>2. ~Crash(h)
    BY DEF Restarted
  <1>3. HandleEvent(h) =>
          OpenObserve(h) \/ TrackCert(h) \/ Relock(h) \/ LoadTool(h) \/ DataObserve(h)
    BY <1>1, <1>2 DEF HandleEvent
  <1>4. Sweep \/ Tick \/ UNCHANGED sessionVars => hand'[h] = hand[h]
    BY DEF Sweep, Tick, sessionVars, Store
  <1> QED BY <1>3, <1>4, OthersStay DEF SessionNext

(* Only a call of Track leads to the lock being taken again *)
LEMMA RelockFollowsTrack ==
    ASSUME MapInv, [SessionNext]_sessionVars, ~Restarted, NEW h \in Handlers,
           hand'[h].pc = "relock"
    PROVE  hand'[h] = hand[h] \/ TrackCert(h)
  <1>0. \A l : Put(h, l)[h] = l
    BY DEF Put, MapInv, MapTypeOK
  <1>1. Idle.pc # "relock"
    BY IdleIsNone
  <1>2. \A pc, ev, r : Local(pc, ev, r).pc = pc
    BY DEF Local
  <1>3. \A e, ev, r : AfterToken(e, ev, r).pc # "relock"
    BY <1>1, <1>2 DEF AfterToken
  <1>4. ASSUME HandleEvent(h) PROVE hand'[h] = hand[h] \/ TrackCert(h)
    <2>1. ASSUME NEW ev, Open(h, ev) PROVE hand'[h] = hand[h]
      BY <1>0, <1>2, <2>1 DEF Open, Store
    <2>2. ASSUME NEW ev, Data(h, ev) PROVE FALSE
      BY <1>0, <1>2, <1>3, <2>2 DEF Data, Store
    <2>3. \A ev : Close(h, ev) \/ StoreRotation(h, ev) \/ Resumed(h, ev) \/ Ignore(h, ev)
                    => hand'[h] = hand[h]
      BY DEF Close, StoreRotation, Resumed, Ignore, Store
    <2>4. ~OpenObserve(h) /\ ~DataObserve(h)
      BY <1>0, <1>1 DEF OpenObserve, DataObserve, Store
    <2>5. ~Relock(h)
      BY <1>0, <1>3 DEF Relock, Store
    <2>6. ~LoadTool(h)
      <3>1. ASSUME LoadTool(h) PROVE FALSE
        <4>1. hand[h] \in Locals
          BY <3>1, HeldFacts DEF LoadTool, Working
        <4> QED BY <1>0, <3>1, <4>1 DEF LoadTool, Locals
      <3> QED BY <3>1
    <2>7. ~Crash(h)
      BY DEF Restarted
    <2> QED BY <1>4, <2>1, <2>2, <2>3, <2>4, <2>5, <2>6, <2>7 DEF HandleEvent
  <1>5. Sweep \/ Tick \/ UNCHANGED sessionVars => hand'[h] = hand[h]
    BY DEF Sweep, Tick, sessionVars, Store
  <1> QED BY <1>4, <1>5, OthersStay DEF SessionNext

(* The identity of a cell that a handler keeps in hand stays *)
LEMMA HeldIdentityStays ==
    ASSUME MapInv, MapStep, NEW h \in Handlers, hand[h].pc \in Working,
           hand'[h].pc \in Working, hand'[h].ref = hand[h].ref,
           heap[hand[h].ref].identity \in Identities
    PROVE  heap'[hand'[h].ref].identity = heap[hand[h].ref].identity
  <1> DEFINE r == hand[h].ref
  <1>1. r \in Refs /\ hand[h].pc # "idle" /\ hand'[h].pc # "idle"
    BY DEF MapInv, HandsHold, Working
  <1>2. r \in Reachable(entries, hand) /\ r \in Reachable(entries', hand')
    BY <1>1 DEF Reachable, HeldBy
  <1>3. heap'[r] = heap[r] \/ Amended(heap[r], heap'[r])
    <2>1. CASE Amends
      BY <1>1, <1>2, <2>1 DEF Amends, Rewritten
    <2>2. ASSUME NEW c, NEW n, NEW e, Inserts(c, n, e) PROVE heap'[r] = heap[r] \/ Amended(heap[r], heap'[r])
      <3>1. r # c
        BY <1>2, <2>2 DEF Inserts, FreeRefs
      <3> QED BY <1>1, <1>2, <2>2, <3>1 DEF Inserts, Rewritten
    <2> QED BY <2>1, <2>2 DEF MapStep
  <1> QED BY <1>3, SessionNamesAssumption DEF Amended

LEMMA OnItsWayStays ==
    ASSUME MapInv, TrackersTypeOK, [SessionNext]_sessionVars, ~Restarted,
           NEW h \in Handlers, NEW id \in Identities, OnItsWay(h, id)
    PROVE  OnItsWay(h, id)' \/ windows'[id] # <<>>
  <1>0. MapStep
    BY EveryStepIsMapStep
  <1>1. hand[h].pc # "idle"
    BY DEF OnItsWay, Working
  <1>2. CASE hand'[h] = hand[h]
    <2>1. CASE hand[h].pc = "openObserve"
      BY <1>2, <2>1 DEF OnItsWay, Working
    <2>2. CASE hand[h].pc # "openObserve"
      BY <1>0, <1>2, <2>2, HeldIdentityStays DEF OnItsWay
    <2> QED BY <2>1, <2>2
  <1>3. CASE OpenObserve(h) \/ DataObserve(h)
    BY <1>3, OpenObserveObserves, DataObserveObserves
  <1>4. CASE TrackCert(h) \/ LoadTool(h)
    <2>1. /\ hand[h].pc \in Working /\ hand[h] \in Locals /\ hand[h].pc # "openObserve"
      BY <1>4, HeldFacts DEF TrackCert, LoadTool, Working
    <2>2. hand'[h].pc \in Working /\ hand'[h].ref = hand[h].ref
      <3>1. CASE TrackCert(h)
        BY <2>1, <3>1 DEF TrackCert, Put, MapInv, MapTypeOK, Locals, Working
      <3>2. CASE LoadTool(h)
        BY <2>1, <3>2 DEF LoadTool, Put, MapInv, MapTypeOK, Locals, Working
      <3> QED BY <1>4, <3>1, <3>2
    <2> QED BY <1>0, <2>1, <2>2, HeldIdentityStays DEF OnItsWay
  <1>5. CASE Relock(h)
    <2>1. hand[h].pc \in Working /\ hand[h].pc # "openObserve"
      BY <1>5 DEF Relock, Working
    <2>2. PICK ev \in Events : ev = hand[h].ev
      BY <2>1, HeldFacts
    <2>3. PICK e \in EntryRecords : e = heap[hand[h].ref]
      BY <2>1, HeldFacts
    <2>4. e.identity = id /\ WithToken(e, ev).identity = id
      BY <2>1, <2>3, DataEntryAmends DEF OnItsWay
    <2>5. hand' = Put(h, AfterToken(WithToken(e, ev), ev, hand[h].ref))
      BY <1>5, <2>2, <2>3 DEF Relock, Store, HeldCell
    <2>6. PICK l : l = AfterToken(WithToken(e, ev), ev, hand[h].ref)
      OBVIOUS
    <2>7. l.pc = "args" /\ l.ref = hand[h].ref
      BY <2>1, <2>4, <2>6, HeldFacts, AfterTokenFacts, SessionNamesAssumption
    <2>8. hand'[h] = l
      BY <2>5, <2>6 DEF Put, MapInv, MapTypeOK
    <2> QED BY <1>0, <2>1, <2>7, <2>8, HeldIdentityStays DEF OnItsWay, Working
  <1> QED BY <1>1, <1>2, <1>3, <1>4, <1>5, OneMoves

-----------------------------------------------------------------------------
(* Who writes identities: only a DATA_EXCHANGE does, into a cell that had  *)
(* none, and it goes on to Observe.                                        *)

NameKept(r) == heap'[r].identity = heap[r].identity /\ heap'[r].kind = heap[r].kind

NamesKept ==
    \A r \in Refs : (r \in Reachable(entries, hand) /\ r \in Reachable(entries', hand')) =>
        NameKept(r)

LEMMA StoredNames ==
    ASSUME NEW ents, NEW cells, NEW hd, Store(ents, cells, hd),
           \A r \in Refs : r \in Reachable(entries, hand) =>
               cells[r].identity = heap[r].identity /\ cells[r].kind = heap[r].kind
    PROVE  NamesKept
  <1>1. \A r \in Refs : r \in Reachable(entries', hand') => heap'[r] = cells[r]
    BY DEF Store, Collected
  <1> QED BY <1>1 DEF NamesKept, NameKept

LEMMA InsertedNames ==
    ASSUME MapInv, FreeRefs # {}, NEW ents, NEW hd, NEW e,
           Store(ents, [heap EXCEPT ![Fresh] = e], hd)
    PROVE  NamesKept
  <1>1. Fresh \notin Reachable(entries, hand)
    BY FreshIsFree DEF FreeRefs
  <1>2. PICK f : f = Fresh
    OBVIOUS
  <1>3. PICK cells : cells = [heap EXCEPT ![f] = e]
    OBVIOUS
  <1>4. \A r \in Refs : r # f => cells[r] = heap[r]
    BY <1>3 DEF MapInv, MapTypeOK
  <1>5. Store(ents, cells, hd)
    BY <1>2, <1>3
  <1> QED BY <1>1, <1>2, <1>4, <1>5, StoredNames

LEMMA RelockNames ==
    ASSUME MapInv, NEW h \in Handlers, Relock(h)
    PROVE  NamesKept
  <1>1. hand[h].pc \in Working
    BY DEF Relock, Working
  <1>2. PICK ev \in Events : ev = hand[h].ev
    BY <1>1, HeldFacts
  <1>3. PICK q \in Refs : q = hand[h].ref /\ heap[q] \in EntryRecords
    BY <1>1, HeldFacts
  <1>4. PICK w : w = WithToken(heap[q], ev)
    OBVIOUS
  <1>5. w.identity = heap[q].identity /\ w.kind = heap[q].kind
    BY <1>3, <1>4, DataEntryAmends
  <1>6. CASE NothingToRecord(hand[h].class)
    <2>1. PICK hd : Store(entries, [heap EXCEPT ![q] = w], hd)
      BY <1>2, <1>3, <1>4, <1>6 DEF Relock, HeldCell
    <2>2. PICK cells : cells = [heap EXCEPT ![q] = w]
      OBVIOUS
    <2>3. \A r \in Refs : cells[r].identity = heap[r].identity /\ cells[r].kind = heap[r].kind
      BY <1>3, <1>5, <2>2 DEF MapInv, MapTypeOK
    <2> QED BY <2>1, <2>2, <2>3, StoredNames
  <1>7. CASE ~NothingToRecord(hand[h].class)
    <2>1. FreeRefs # {}
      BY <1>7 DEF Relock
    <2>2. PICK ents : ents = [entries EXCEPT ![syntheticKey(ev)] = Fresh]
      OBVIOUS
    <2>3. PICK e : e = RotationEntry(ev, hand[h].class)
      OBVIOUS
    <2>f. PICK f : f = Fresh
      OBVIOUS
    <2>4. PICK hd : Store(ents, [heap EXCEPT ![q] = w, ![f] = e], hd)
      BY <1>2, <1>3, <1>4, <1>7, <2>2, <2>3, <2>f DEF Relock, HeldCell
    <2>5. PICK cells : cells = [heap EXCEPT ![q] = w, ![f] = e]
      OBVIOUS
    <2>6. f \notin Reachable(entries, hand)
      BY <2>1, <2>f, FreshIsFree DEF FreeRefs
    <2>7. \A r \in Refs : r # f =>
             cells[r].identity = heap[r].identity /\ cells[r].kind = heap[r].kind
      BY <1>3, <1>5, <2>5 DEF MapInv, MapTypeOK
    <2> QED BY <2>4, <2>5, <2>6, <2>7, StoredNames
  <1> QED BY <1>6, <1>7

LEMMA SweepNames ==
    ASSUME MapInv, Sweep
    PROVE  NamesKept
  <1> DEFINE goes(r) == r \in {entries[k] : k \in Present} /\ GoesStale(heap[r])
             swept == [r \in Refs |-> IF goes(r) THEN [heap[r] EXCEPT !.status = "stale"]
                                      ELSE heap[r]]
  <1>1. PICK ents, hd : Store(ents, swept, hd)
    BY DEF Sweep
  <1>2. ASSUME NEW r \in Refs, r \in Reachable(entries, hand)
        PROVE  swept[r].identity = heap[r].identity /\ swept[r].kind = heap[r].kind
    <2>1. PICK e \in EntryRecords : e = heap[r]
      BY <1>2, LiveIsEntry
    <2>2. [e EXCEPT !.status = "stale"].identity = e.identity
          /\ [e EXCEPT !.status = "stale"].kind = e.kind
      BY DEF EntryRecords
    <2>3. swept[r] = IF goes(r) THEN [e EXCEPT !.status = "stale"] ELSE e
      BY <2>1
    <2> HIDE DEF swept, goes
    <2> QED BY <2>1, <2>2, <2>3
  <1> HIDE DEF swept
  <1> QED BY <1>1, <1>2, StoredNames

LEMMA InPlaceNames ==
    ASSUME MapInv, NEW h \in Handlers, NEW ev \in Events, Close(h, ev) \/ Resumed(h, ev)
    PROVE  NamesKept
  <1>1. CASE Close(h, ev)
    <2>1. PICK q \in Refs : /\ q = entries[connectionKey(ev)]
                            /\ heap[q] \in EntryRecords
      BY <1>1, CellAt DEF Close, MapInv, CellsKeyed, EntryAt
    <2>2. heap' = [heap EXCEPT ![q] = [heap[q] EXCEPT !.status = "closed", !.last = ev.at]]
      BY <1>1, <2>1 DEF Close, MapInv, MapTypeOK
    <2>3. PICK e \in EntryRecords : e = heap[q]
      BY <2>1
    <2>4. PICK n : n = [e EXCEPT !.status = "closed", !.last = ev.at]
      OBVIOUS
    <2>5. n.identity = e.identity /\ n.kind = e.kind
      BY <2>4 DEF EntryRecords
    <2>6. \A r \in Refs : heap'[r] = IF r = q THEN n ELSE heap[r]
      BY <2>2, <2>3, <2>4 DEF MapInv, MapTypeOK
    <2> QED BY <2>3, <2>5, <2>6 DEF NamesKept, NameKept
  <1>2. CASE Resumed(h, ev)
    <2> SUFFICES ASSUME NEW r \in Refs, r \in Reachable(entries, hand) PROVE NameKept(r)
      BY DEF NamesKept
    <2>1. PICK e \in EntryRecords : e = heap[r]
      BY LiveIsEntry
    <2>2. heap'[r] = e \/ heap'[r] = [e EXCEPT !.status = "stale"]
      BY <1>2, <2>1 DEF Resumed
    <2>3. [e EXCEPT !.status = "stale"].identity = e.identity
          /\ [e EXCEPT !.status = "stale"].kind = e.kind
      BY DEF EntryRecords
    <2> QED BY <2>1, <2>2, <2>3 DEF NameKept
  <1> QED BY <1>1, <1>2

LEMMA OthersKeepNames ==
    ASSUME MapInv, [SessionNext]_sessionVars, ~Restarted,
           ~\E h \in Handlers, ev \in Events : Data(h, ev)
    PROVE  NamesKept
  <1>0. UNCHANGED heap => NamesKept
    BY DEF NamesKept, NameKept
  <1>1. ASSUME NEW h \in Handlers, HandleEvent(h) PROVE NamesKept
    <2>1. ASSUME NEW ev \in Events, Open(h, ev) PROVE NamesKept
      <3>1. FreeRefs # {}
        BY <2>1 DEF Open
      <3>2. PICK ents, hd : Store(ents, [heap EXCEPT ![Fresh] = OpenEntry(ev)], hd)
        BY <2>1 DEF Open
      <3> QED BY <3>1, <3>2, InsertedNames
    <2>2. ASSUME NEW ev \in Events, StoreRotation(h, ev) PROVE NamesKept
      <3>1. FreeRefs # {}
        BY <2>2 DEF StoreRotation
      <3>2. PICK ents, hd : Store(ents, [heap EXCEPT ![Fresh] = RotationEntry(ev, ev.class)], hd)
        BY <2>2 DEF StoreRotation
      <3> QED BY <3>1, <3>2, InsertedNames
    <2>3. ASSUME NEW ev \in Events, Ignore(h, ev) PROVE NamesKept
      BY <1>0, <2>3 DEF Ignore
    <2>4. ASSUME OpenObserve(h) \/ DataObserve(h) PROVE NamesKept
      <3>1. PICK hd : Store(entries, heap, hd)
        BY <2>4 DEF OpenObserve, DataObserve
      <3> QED BY <3>1, StoredNames
    <2>5. ASSUME TrackCert(h) \/ LoadTool(h) PROVE NamesKept
      BY <1>0, <2>5 DEF TrackCert, LoadTool
    <2>6. ~Crash(h)
      BY DEF Restarted
    <2>7. CASE \E s \in Shapes, t \in Stamps :
                 LET ev == [s EXCEPT !.at = t]
                 IN  \/ Open(h, ev) \/ Close(h, ev) \/ Data(h, ev) \/ StoreRotation(h, ev)
                     \/ Resumed(h, ev) \/ Ignore(h, ev)
      <3>1. PICK ev \in Events :
                 \/ Open(h, ev) \/ Close(h, ev) \/ Data(h, ev) \/ StoreRotation(h, ev)
                 \/ Resumed(h, ev) \/ Ignore(h, ev)
        BY <2>7, StampIsTime
      <3> QED BY <2>1, <2>2, <2>3, <3>1, InPlaceNames
    <2> QED BY <1>1, <2>4, <2>5, <2>6, <2>7, RelockNames DEF HandleEvent
  <1>2. Tick \/ UNCHANGED sessionVars => NamesKept
    BY <1>0 DEF Tick, sessionVars
  <1> QED BY <1>1, <1>2, SweepNames DEF SessionNext

(* What a DATA_EXCHANGE writes and what it does next *)
LEMMA DataNames ==
    ASSUME MapInv, NEW h \in Handlers, NEW ev \in Events, Data(h, ev), NEW k \in Kept
    PROVE  \/ NameKept(entries[k])
           \/ heap'[entries[k]].kind = "spiffe" =>
                 \E id \in Identities : heap'[entries[k]].identity = id /\ OnItsWay(h, id)'
  <1>0. k \in Present /\ k \in Keys /\ entries[k] \in Refs /\ entries'[k] = entries[k]
    BY CellAt DEF Kept, MapInv
  <1>1. entries[k] \in Reachable(entries', hand')
    BY <1>0 DEF Reachable
  <1>2. PICK q \in Refs : q = entries[connectionKey(ev)] /\ heap[q] \in EntryRecords
    BY CellAt DEF Data, MapInv, CellsKeyed, EntryAt
  <1>3. PICK old \in EntryRecords : old = heap[q]
    BY <1>2
  <1>4. PICK e : e = DataEntry(old, ev)
    OBVIOUS
  <1>5. PICK final : final = WithToken(e, ev)
    OBVIOUS
  <1>6. /\ final.identity = e.identity /\ final.kind = e.kind
        /\ old.identity # NoIdentity => e.identity = old.identity /\ e.kind = old.kind
        /\ old.identity = NoIdentity => /\ e.identity = pickIdentity(ev)[1]
                                        /\ e.kind = pickIdentity(ev)[2]
    BY <1>4, <1>5, DataEntryAmends DEF Amended
  <1>7. PICK w, l :
            /\ Store(entries, [heap EXCEPT ![q] = w], Put(h, l))
            /\ w.identity = e.identity /\ w.kind = e.kind
            /\ l = Local("track", ev, q) \/ l = AfterToken(w, ev, q)
    BY <1>2, <1>3, <1>4, <1>5, <1>6 DEF Data
  <1>8. heap'[entries[k]] = IF entries[k] = q THEN w ELSE heap[entries[k]]
    <2>1. PICK cells : cells = [heap EXCEPT ![q] = w]
      OBVIOUS
    <2>2. heap'[entries[k]] = cells[entries[k]]
      BY <1>0, <1>1, <1>7, <2>1 DEF Store, Collected
    <2> QED BY <1>0, <1>2, <2>1, <2>2 DEF MapInv, MapTypeOK
  <1>9. CASE entries[k] # q \/ old.identity # NoIdentity
    BY <1>3, <1>6, <1>7, <1>8, <1>9 DEF NameKept
  <1>10. CASE entries[k] = q /\ old.identity = NoIdentity
    <2>0. heap'[entries[k]] = w /\ heap'[q] = w
      BY <1>8, <1>10
    <2> SUFFICES ASSUME w.kind = "spiffe"
                 PROVE  w.identity \in Identities /\ OnItsWay(h, w.identity)'
      BY <2>0
    <2>1. w.identity \in Identities
      BY <1>6, <1>7, <1>10, PickedIdentity
    <2>2. l.pc \in Working /\ l.ref = q
      BY <1>2, <1>7, <2>1, LocalTyped, AfterTokenFacts, SessionNamesAssumption DEF Working
    <2>3. hand'[h] = l
      BY <1>7 DEF Store, Put, MapInv, MapTypeOK
    <2> QED BY <2>0, <2>1, <2>2, <2>3 DEF OnItsWay
  <1> QED BY <1>9, <1>10

-----------------------------------------------------------------------------
(* The invariant of the map and its trackers is inductive *)

LEMMA OpenedIsOnItsWay ==
    ASSUME MapInv, NEW h \in Handlers, NEW ev \in Events, Open(h, ev), NEW k \in Inserted,
           heap'[entries'[k]].kind = "spiffe"
    PROVE  \E id \in Identities : heap'[entries'[k]].identity = id /\ OnItsWay(h, id)'
  <1>1. FreeRefs # {}
    BY DEF Open
  <1>2. PICK f \in Refs : f = Fresh
    BY <1>1, FreshIsFree
  <1>3. PICK e \in EntryRecords : e = OpenEntry(ev)
    BY OpenEntryFacts
  <1>4. PICK ents \in [Keys -> Refs \cup {NoRef}] :
            /\ \A j \in Keys : ents[j] \in {f, NoRef, entries[j]}
            /\ Store(ents, [heap EXCEPT ![f] = e],
                     IF FeedsProfile(ev) THEN Put(h, Local("openObserve", ev, NoRef)) ELSE hand)
    <2>1. PICK evicted : LET ents == [j \in Keys |-> IF j = connectionKey(ev) THEN Fresh
                                                     ELSE IF j \in evicted THEN NoRef ELSE entries[j]]
                         IN  Store(ents, [heap EXCEPT ![Fresh] = OpenEntry(ev)],
                               IF FeedsProfile(ev) THEN Put(h, Local("openObserve", ev, NoRef)) ELSE hand)
      BY DEF Open
    <2>2. PICK ents : ents = [j \in Keys |-> IF j = connectionKey(ev) THEN Fresh
                                             ELSE IF j \in evicted THEN NoRef ELSE entries[j]]
      OBVIOUS
    <2>3. ents \in [Keys -> Refs \cup {NoRef}] /\ \A j \in Keys : ents[j] \in {f, NoRef, entries[j]}
      BY <1>2, <2>2 DEF MapInv, MapTypeOK
    <2> QED BY <1>2, <1>3, <2>1, <2>2, <2>3
  <1>5. k \in Keys /\ entries'[k] = f
    BY <1>4 DEF Inserted, Store
  <1>6. heap'[f] = e
    <2>1. f \in Reachable(entries', hand')
      BY <1>5 DEF Reachable
    <2>2. heap'[f] = [heap EXCEPT ![f] = e][f]
      BY <1>4, <2>1 DEF Store, Collected
    <2> QED BY <2>2 DEF MapInv, MapTypeOK
  <1>7. e.kind = pickIdentity(ev)[2] /\ e.identity = pickIdentity(ev)[1]
    BY <1>3 DEF OpenEntry
  <1>8. FeedsProfile(ev) /\ e.identity \in Identities
    BY <1>5, <1>6, <1>7, PickedIdentity DEF FeedsProfile
  <1>9. PICK l : l = Local("openObserve", ev, NoRef)
    OBVIOUS
  <1>10. hand'[h] = l /\ l.pc = "openObserve" /\ l.ev = ev
    BY <1>4, <1>8, <1>9, LocalTyped DEF Store, Put, MapInv, MapTypeOK
  <1> QED BY <1>5, <1>6, <1>7, <1>8, <1>10 DEF OnItsWay

(* Only a rotation enters other than by an OPEN *)
LEMMA InsertedIs ==
    ASSUME MapInv, [SessionNext]_sessionVars, ~Restarted, Inserted # {}
    PROVE  RotationsInserted \/ \E h \in Handlers, ev \in Events : Open(h, ev)
  <1>1. entries' # entries
    BY DEF Inserted
  <1>2. ~Sweep
    BY DEF Sweep, Store, Inserted
  <1> QED BY <1>1, <1>2, EntriesChange, StoreRotationIsMapStep, RelockIsMapStep

LEMMA ProfiledStep ==
    ASSUME MapInv, TrackersTypeOK, Profiled, [SessionNext]_sessionVars, ~Restarted
    PROVE  Profiled'
  <1>0. MapStep /\ WindowsStay
    BY EveryStepIsMapStep, TrackersStep
  <1> SUFFICES ASSUME NEW k \in Present', EntryAt(k)'.status = "active", EntryAt(k)'.kind = "spiffe"
               PROVE  EntryAt(k)'.identity \in Identities /\ HasProfile(EntryAt(k).identity)'
    BY DEF Profiled
  <1>1. EntryAt(k)' = heap'[entries'[k]]
    BY DEF EntryAt
  <1>2. PICK new : new = heap'[entries'[k]]
    OBVIOUS
  <1>3. SUFFICES \E id \in Identities : new.identity = id /\ HasProfile(id)'
    BY <1>1, <1>2
  <1>4. ASSUME NEW id \in Identities, HasProfile(id) PROVE HasProfile(id)'
    BY <1>0, <1>4, OnItsWayStays DEF HasProfile, WindowsStay
  <1>5. ASSUME NEW h \in Handlers, NEW id, OnItsWay(h, id)' PROVE HasProfile(id)'
    BY <1>5 DEF HasProfile
  <1>6. CASE k \in Inserted
    <2>1. ~RotationsInserted
      BY <1>1, <1>6 DEF RotationsInserted, RotationStatuses
    <2>2. PICK h \in Handlers, ev \in Events : Open(h, ev)
      BY <1>6, <2>1, InsertedIs
    <2>3. PICK id \in Identities : heap'[entries'[k]].identity = id /\ OnItsWay(h, id)'
      BY <1>1, <1>6, <2>2, OpenedIsOnItsWay
    <2> QED BY <1>2, <1>5, <2>3
  <1>7. CASE k \notin Inserted
    <2>1. k \in Kept /\ k \in Present /\ k \in Keys
      BY <1>7 DEF Present, Inserted, Kept
    <2>2. entries'[k] = entries[k] /\ entries[k] \in Refs
      BY <2>1, CellAt DEF Kept, MapInv
    <2>3. PICK r \in Refs : r = entries[k]
      BY <2>2
    <2>4. heap[r].status = "active"
      BY <1>0, <1>1, <2>1, <2>2, <2>3, KeptCell DEF Amended
    <2>5. CASE NameKept(r)
      <3>1. heap[r].kind = "spiffe" /\ new.identity = heap[r].identity
        BY <1>1, <1>2, <2>2, <2>3, <2>5 DEF NameKept
      <3>2. PICK id : id = heap[r].identity
        OBVIOUS
      <3>3. id \in Identities /\ HasProfile(id)
        BY <2>1, <2>3, <2>4, <3>1, <3>2 DEF Profiled, EntryAt
      <3> QED BY <1>4, <3>1, <3>2, <3>3
    <2>6. CASE ~NameKept(r)
      <3>1. r \in Reachable(entries, hand) /\ r \in Reachable(entries', hand')
        BY <2>1, <2>2, <2>3 DEF Reachable
      <3>2. PICK h \in Handlers, ev \in Events : Data(h, ev)
        BY <2>6, <3>1, OthersKeepNames DEF NamesKept
      <3>3. PICK id \in Identities : heap'[r].identity = id /\ OnItsWay(h, id)'
        BY <1>1, <2>1, <2>2, <2>3, <2>6, <3>2, DataNames
      <3> QED BY <1>2, <1>5, <2>2, <2>3, <3>3
    <2> QED BY <2>5, <2>6
  <1> QED BY <1>6, <1>7

(* Who records a rotation was told of it by the tracker *)
LEMMA ReportedStep ==
    ASSUME MapInv, TrackersTypeOK, Reported, [SessionNext]_sessionVars, ~Restarted
    PROVE  Reported'
  <1>0. MapStep /\ HistoriesStay /\ MapInv'
    BY EveryStepIsMapStep, TrackersStep, MapStepKeepsInv
  <1> SUFFICES ASSUME NEW h \in Handlers, hand'[h].pc = "relock", hand'[h].class # "first_seen"
               PROVE  Len(history'[hand'[h].ev.identity]) >= 2
    BY DEF Reported
  <1>1. CASE hand'[h] = hand[h]
    <2>1. hand[h].ev \in Events /\ TracksCert(hand[h].ev)
      BY <1>1, HeldFacts DEF MapInv, CertInHand, Working
    <2>2. hand[h].ev.identity \in SpiffeIds
      BY <2>1, EventFields
    <2> QED BY <1>0, <1>1, <2>2 DEF Reported, HistoriesStay
  <1>2. CASE TrackCert(h)
    <2>1. hand[h] \in Locals
      BY <1>2, HeldFacts DEF TrackCert, Working
    <2>2. hand'[h] = [hand[h] EXCEPT !.pc = "relock",
                        !.class = TrackClass(hand[h].ev.identity, Observation(hand[h].ev))]
      BY <1>2 DEF TrackCert, Put, MapInv, MapTypeOK
    <2>3. /\ hand'[h].ev = hand[h].ev
          /\ hand'[h].class = TrackClass(hand[h].ev.identity, Observation(hand[h].ev))
      BY <2>1, <2>2 DEF Locals
    <2> QED BY <1>2, <2>3, TrackCertTracks
  <1> QED BY <1>1, <1>2, RelockFollowsTrack

(* A rotation enters the audit trail only when it was reported *)
LEMMA AuditStep ==
    ASSUME MapInv, TrackersTypeOK, Reported, AuditBackedByHistory,
           [SessionNext]_sessionVars, ~Restarted
    PROVE  AuditBackedByHistory'
  <1>0. HistoriesStay
    BY TrackersStep
  <1> SUFFICES ASSUME NEW k \in Keys, entries'[k] # NoRef, k \in RotationKeys
               PROVE  Len(history'[k[2]]) >= 2
    BY DEF AuditBackedByHistory, Present
  <1>1. k[2] \in SpiffeIds
    BY DEF RotationKeys
  <1>2. CASE k \in Present
    BY <1>0, <1>1, <1>2 DEF AuditBackedByHistory, HistoriesStay
  <1>3. CASE k \notin Present
    <2>1. entries[k] = NoRef /\ entries' # entries
      BY <1>3 DEF Present
    <2>2. ~Sweep
      BY <2>1 DEF Sweep, Store
    <2>3. ASSUME NEW h \in Handlers, NEW ev \in Events, Open(h, ev) \/ StoreRotation(h, ev)
          PROVE  FALSE
      <3>1. k # connectionKey(ev)
        BY ConnectionKeys, KeysApart
      <3>2. CASE Open(h, ev)
        BY <2>1, <3>1, <3>2, OpenEvicts
      <3>3. CASE StoreRotation(h, ev)
        BY <2>1, <3>1, <3>3 DEF StoreRotation, Store, MapInv, MapTypeOK
      <3> QED BY <2>3, <3>2, <3>3
    <2>4. ASSUME NEW h \in Handlers, Relock(h) PROVE Len(history'[k[2]]) >= 2
      <3>1. ~NothingToRecord(hand[h].class)
        BY <2>1, <2>4 DEF Relock, Store
      <3>2. entries' = [entries EXCEPT ![syntheticKey(hand[h].ev)] = Fresh]
        BY <2>4, <3>1 DEF Relock, Store
      <3>3. k = syntheticKey(hand[h].ev)
        BY <2>1, <3>2 DEF MapInv, MapTypeOK
      <3>4. k[2] = hand[h].ev.identity
        BY <3>3 DEF syntheticKey
      <3>5. Len(history[k[2]]) >= 2
        BY <2>4, <3>1, <3>4 DEF Reported, Relock, NothingToRecord
      <3> QED BY <1>0, <1>1, <3>5 DEF HistoriesStay
    <2> QED BY <2>1, <2>2, <2>3, <2>4, EntriesChange
  <1> QED BY <1>2, <1>3

LEMMA SessionInvInit == SessionInit => SessionInv
  <1> SUFFICES ASSUME SessionInit PROVE SessionInv
    OBVIOUS
  <1>1. MapInv
    BY MapInit
  <1>2. TrackersTypeOK
    BY RotationBoundsAssumption
       DEF SessionInit, RotationInit, ProfileInit, TrackersTypeOK, RotationTypeOK
  <1>3. Present = {}
    BY DEF SessionInit, Present
  <1>4. Reported
    BY IdleIsNone DEF SessionInit, Reported
  <1> QED BY <1>1, <1>2, <1>3, <1>4 DEF SessionInv, AuditBackedByHistory, Profiled

LEMMA SessionInvStep == SessionInv /\ [SessionNext]_sessionVars => SessionInv'
  <1> SUFFICES ASSUME SessionInv, [SessionNext]_sessionVars PROVE SessionInv'
    OBVIOUS
  <1>1. MapInv'
    BY MapInvStep DEF SessionInv
  <1>2. CASE Restarted
    <2>1. /\ hand' = [g \in Handlers |-> Idle]
          /\ history' = [id \in SpiffeIds |-> <<>>]
          /\ rateCount' = [id \in SpiffeIds |-> 0]
          /\ rateReset' = [id \in SpiffeIds |-> NoReset]
          /\ windows' = [id \in Identities |-> <<>>]
      BY <1>2 DEF Restarted, Crash
    <2>2. TrackersTypeOK'
      BY <2>1, RotationBoundsAssumption DEF TrackersTypeOK, RotationTypeOK
    <2>3. Present' = {}
      BY <1>2, CrashEmpties
    <2>4. Reported'
      BY <2>1, IdleIsNone DEF Reported
    <2> QED BY <1>1, <2>2, <2>3, <2>4 DEF SessionInv, AuditBackedByHistory, Profiled
  <1>3. CASE ~Restarted
    BY <1>1, <1>3, TrackersStep, ReportedStep, AuditStep, ProfiledStep DEF SessionInv
  <1> QED BY <1>2, <1>3

(* The inductive invariant of the map, its handlers and its trackers *)
THEOREM SessionInvariant == SessionSpec => []SessionInv
  BY SessionInvInit, SessionInvStep, PTL DEF SessionSpec

(* The map, the heap, the handlers' locals and both trackers keep their    *)
(* types, through every interleaving and restart (SessionTypeOK).          *)
THEOREM SessionTypeCorrect == SessionSpec => []SessionTypeOK
  <1>1. SessionInv => SessionTypeOK
    BY DEF SessionInv, MapInv, MapTypeOK, TrackersTypeOK, SessionTypeOK
  <1> QED BY <1>1, SessionInvariant, PTL

(* A synthetic rotation entry is recorded only for an identity with two    *)
(* certificates on record, although the tracker and the map are locked     *)
(* separately (AuditBackedByHistory).                                      *)
THEOREM AuditBackedCorrect == SessionSpec => []AuditBackedByHistory
  <1>1. SessionInv => AuditBackedByHistory
    BY DEF SessionInv
  <1> QED BY <1>1, SessionInvariant, PTL

(* An identity that /attest vouches for as an active SPIFFE workload has a *)
(* profile, or a handler is about to create it (AttestedHasProfile).       *)
THEOREM AttestedCorrect == SessionSpec => []AttestedHasProfile
  <1>1. SessionInv => AttestedHasProfile
    <2> SUFFICES ASSUME SessionInv, NEW c \in Conns, NEW d \in Conns,
                        NEW k \in handleAttest(FALSE, 0, SourceOf[c], DestOf[d]).body,
                        EntryAt(k).status = "active", EntryAt(k).kind = "spiffe"
                 PROVE  \/ handleProfile(EntryAt(k).identity).code = 200
                        \/ \E h \in Handlers : OnItsWay(h, EntryAt(k).identity)
      BY DEF AttestedHasProfile, OnItsWay, Working
    <2>1. k \in Present
      BY DEF handleAttest, Ok, Attested, LookupBest, LookupMatches
    <2>2. PICK id \in Identities : id = EntryAt(k).identity /\ HasProfile(id)
      BY <2>1 DEF SessionInv, Profiled
    <2>3. windows[id] # <<>> => handleProfile(id).code = 200
      BY SessionNamesAssumption DEF handleProfile, Ok
    <2> QED BY <2>2, <2>3 DEF HasProfile
  <1> QED BY <1>1, SessionInvariant, PTL

-----------------------------------------------------------------------------
(* The sidecar drives the map by its own steps                             *)

LEMMA SidecarMapStep ==
    [SidecarNext]_sidecarVars => [SessionNext]_sessionVars
  <1> SUFFICES ASSUME [SidecarNext]_sidecarVars PROVE [SessionNext]_sessionVars
    OBVIOUS
  <1>1. ASSUME NEW h \in Handlers, HandlerStep(h) PROVE SessionNext
    BY <1>1 DEF HandlerStep, SessionNext
  <1>2. SweeperStep \/ TimePasses => SessionNext
    BY DEF SweeperStep, TimePasses, SessionNext
  <1>3. ASSUME NEW h, Disconnect(h) \/ StreamReturns(h) PROVE UNCHANGED sessionVars
    BY <1>3 DEF Disconnect, StreamReturns
  <1>4. ASSUME NEW p, Export(p) PROVE UNCHANGED sessionVars
    BY <1>4 DEF Export, ReadStats, SetActive, SetIdentities
  <1>5. ASSUME NEW from, NEW to, Advance(from, to) PROVE UNCHANGED sessionVars
    BY <1>5 DEF Advance
  <1>6. Main \/ StartFails => UNCHANGED sessionVars
    BY <1>5 DEF Main, Serve, BeginStop, StopReturns, DeadlinePasses, MainReturns, StartFails
  <1>7. SweeperStops \/ Signal \/ RequestEnds \/ UNCHANGED sidecarVars => UNCHANGED sessionVars
    BY DEF SweeperStops, Signal, RequestEnds, sidecarVars
  <1> QED BY <1>1, <1>2, <1>3, <1>4, <1>6, <1>7 DEF SidecarNext

(* Whatever main, the sweeper and the streams do, the map in the sidecar   *)
(* behaves like the session map alone: what is proved of SessionSpec holds *)
(* in the process (reflector-map/main.go).                                 *)
THEOREM SidecarRunsTheMap == SidecarSpec => SessionSpec
  <1>1. SidecarInit => SessionInit
    BY DEF SidecarInit
  <1> QED BY <1>1, SidecarMapStep, PTL DEF SidecarSpec, SessionSpec

-----------------------------------------------------------------------------
(* A handler works only while its stream lasts                             *)

Lives == {"starting", "serving", "draining", "closing", "late", "exited"}

ProcessTypeOK ==
    /\ DOMAIN report = Reporters
    /\ streams \in [Handlers -> {"none", "open", "broken"}]
    /\ life \in Lives

(* Who has no stream is done with its last event                           *)
StreamlessAreDone == \A h \in Handlers : streams[h] = "none" => Between(h)

(* Before the servers start and after GracefulStop nobody has a stream     *)
NobodyServed ==
    life \in Lives \ {"serving", "draining"} => \A h \in Handlers : streams[h] = "none"

SidecarInv == ProcessTypeOK /\ StreamlessAreDone /\ NobodyServed

LEMMA NoReportIsNone == NoReport.pc = "none"
  BY DEF NoReport

LEMMA NothingRunning ==
    ASSUME NothingReported, NothingServed, hand = [h \in Handlers |-> Idle]
    PROVE  SidecarInv
  <1>1. ProcessTypeOK /\ life = "starting"
    BY DEF NothingReported, NothingServed, ProcessTypeOK, Lives
  <1>2. \A h \in Handlers : streams[h] = "none"
    BY DEF NothingServed
  <1>3. \A h \in Handlers : Between(h)
    BY IdleIsNone, NoReportIsNone DEF NothingReported, Reporters, Between
  <1> QED BY <1>1, <1>2, <1>3 DEF SidecarInv, StreamlessAreDone, NobodyServed

LEMMA HandlerStepKeeps ==
    ASSUME MapInv, SidecarInv, NEW h \in Handlers, HandlerStep(h)
    PROVE  SidecarInv'
  <1>0. HandleEvent(h)
    BY DEF HandlerStep
  <1>1. CASE Restarted
    <2>1. hand' = [g \in Handlers |-> Idle]
      BY <1>1 DEF Restarted, Crash
    <2>2. NothingReported' /\ NothingServed'
      BY <1>1 DEF HandlerStep
    <2>3. report' = [p \in Reporters |-> NoReport]
      BY <2>2 DEF NothingReported
    <2>4. /\ streams' = [g \in Handlers |-> "none"] /\ life' = "starting"
      BY <2>2 DEF NothingServed
    <2>5. \A g \in Handlers : Between(g)'
      BY <2>1, <2>3, IdleIsNone, NoReportIsNone DEF Reporters, Between
    <2> QED BY <2>3, <2>4, <2>5
            DEF SidecarInv, ProcessTypeOK, StreamlessAreDone, NobodyServed, Lives
  <1>2. CASE ~Restarted
    <2>1. /\ UNCHANGED <<streams, life>>
          /\ \/ report' = report
             \/ report' = [report EXCEPT ![h] = ReportDue]
      BY <1>2 DEF HandlerStep, processVars
    <2>2. streams[h] # "none"
      BY DEF HandlerStep, SidecarInv, StreamlessAreDone, Between
    <2>3. ASSUME NEW g \in Handlers, g # h PROVE hand'[g] = hand[g] /\ report'[g] = report[g]
      BY <1>0, <1>2, <2>1, <2>3, OthersStay DEF SidecarInv, ProcessTypeOK, Reporters
    <2>4. ProcessTypeOK' /\ NobodyServed'
      BY <2>1 DEF SidecarInv, ProcessTypeOK, NobodyServed
    <2>5. StreamlessAreDone'
      BY <2>1, <2>2, <2>3 DEF SidecarInv, StreamlessAreDone, Between
    <2> QED BY <2>4, <2>5 DEF SidecarInv
  <1> QED BY <1>1, <1>2

(* An export under way is somebody's who is not done                       *)
LEMMA ReportKeeps ==
    ASSUME SidecarInv, UNCHANGED <<hand, streams, life>>, NEW p \in Reporters,
           p = Sweeper \/ report[p].pc # "none",
           \E r : report' = [report EXCEPT ![p] = r]
    PROVE  SidecarInv'
  <1>1. PICK r : report' = [report EXCEPT ![p] = r]
    OBVIOUS
  <1>2. ASSUME NEW h \in Handlers, streams[h] = "none" PROVE report'[h] = report[h]
    <2>1. h # p
      BY <1>2, SidecarAssumption DEF SidecarInv, StreamlessAreDone, Between
    <2> QED BY <1>1, <2>1 DEF SidecarInv, ProcessTypeOK, Reporters
  <1>3. ProcessTypeOK' /\ NobodyServed'
    BY <1>1 DEF SidecarInv, ProcessTypeOK, NobodyServed
  <1>4. StreamlessAreDone'
    BY <1>2 DEF SidecarInv, StreamlessAreDone, Between
  <1> QED BY <1>3, <1>4 DEF SidecarInv

LEMMA ExportKeeps ==
    ASSUME SidecarInv, NEW p \in Reporters, Export(p)
    PROVE  SidecarInv'
  <1>1. UNCHANGED <<hand, streams, life>> /\ report[p].pc # "none"
    BY DEF Export, ReadStats, SetActive, SetIdentities, sessionVars, processVars
  <1>2. \E r : report' = [report EXCEPT ![p] = r]
    <2>1. CASE ReadStats(p)
      BY <2>1 DEF ReadStats
    <2>2. CASE SetActive(p)
      <3>1. report' = [report EXCEPT ![p] = [report[p] EXCEPT !.pc = "identities"]]
        BY <2>2 DEF SetActive
      <3> QED BY <3>1
    <2>3. CASE SetIdentities(p)
      BY <2>3 DEF SetIdentities
    <2> QED BY <2>1, <2>2, <2>3 DEF Export
  <1> QED BY <1>1, <1>2, ReportKeeps

LEMMA SweeperKeeps ==
    ASSUME SidecarInv, SweeperStep \/ SweeperStops
    PROVE  SidecarInv'
  <1>1. UNCHANGED <<hand, streams, life>>
    BY DEF SweeperStep, SweeperStops, Sweep, Store, sessionVars, processVars
  <1>2. \E r : report' = [report EXCEPT ![Sweeper] = r]
    BY DEF SweeperStep, SweeperStops
  <1>3. Sweeper \in Reporters
    BY DEF Reporters
  <1> QED BY <1>1, <1>2, <1>3, ReportKeeps

(* A stream that is gone was noticed by a handler between two events       *)
LEMMA StreamKeeps ==
    ASSUME SidecarInv, NEW h \in Handlers, Disconnect(h) \/ StreamReturns(h)
    PROVE  SidecarInv'
  <1>1. UNCHANGED <<hand, report, life>>
    BY DEF Disconnect, StreamReturns, sessionVars, reportVars
  <1>2. PICK st \in {"none", "broken"} :
            /\ streams' = [streams EXCEPT ![h] = st]
            /\ st = "none" => Between(h)
            /\ st = "none" \/ life = "draining"
    BY DEF Disconnect, StreamReturns
  <1>4. ProcessTypeOK'
    BY <1>1, <1>2 DEF SidecarInv, ProcessTypeOK
  <1>5. StreamlessAreDone'
    BY <1>1, <1>2 DEF SidecarInv, ProcessTypeOK, StreamlessAreDone, Between
  <1>6. NobodyServed'
    BY <1>1, <1>2 DEF SidecarInv, ProcessTypeOK, NobodyServed
  <1> QED BY <1>4, <1>5, <1>6 DEF SidecarInv

LEMMA MainKeeps ==
    ASSUME SidecarInv, Main \/ StartFails
    PROVE  SidecarInv'
  <1>1. ASSUME NEW from, NEW to, Advance(from, to)
        PROVE  UNCHANGED <<hand, report>> /\ life = from /\ life' = to
    BY <1>1 DEF Advance, sessionVars, reportVars
  <1>2. CASE Serve
    <2>1. UNCHANGED <<hand, report>> /\ life' = "serving"
      BY <1>1, <1>2 DEF Serve
    <2>2. streams' = [h \in Handlers |-> "open"]
      BY <1>2 DEF Serve
    <2> QED BY <2>1, <2>2 DEF SidecarInv, ProcessTypeOK, StreamlessAreDone, NobodyServed, Lives
  <1>3. CASE BeginStop \/ StopReturns \/ DeadlinePasses \/ MainReturns \/ StartFails
    <2>1. UNCHANGED <<hand, report, streams>>
      BY <1>1, <1>3 DEF BeginStop, StopReturns, DeadlinePasses, MainReturns, StartFails
    <2>2. life' \in Lives
      BY <1>1, <1>3 DEF BeginStop, StopReturns, DeadlinePasses, MainReturns, StartFails, Lives
    <2>3. \/ life' = "draining"
          \/ \A h \in Handlers : streams[h] = "none"
      <3>1. BeginStop => life' = "draining"
        BY <1>1 DEF BeginStop
      <3>2. StopReturns => \A h \in Handlers : streams[h] = "none"
        BY DEF StopReturns, StreamsEnded
      <3>3. DeadlinePasses \/ MainReturns \/ StartFails => life \in {"closing", "late", "starting"}
        BY <1>1 DEF DeadlinePasses, MainReturns, StartFails, ShutdownDone
      <3>4. life \in {"closing", "late", "starting"} => \A h \in Handlers : streams[h] = "none"
        BY DEF SidecarInv, NobodyServed, Lives
      <3> QED BY <1>3, <3>1, <3>2, <3>3, <3>4
    <2> QED BY <2>1, <2>2, <2>3
            DEF SidecarInv, ProcessTypeOK, StreamlessAreDone, NobodyServed, Between
  <1> QED BY <1>2, <1>3 DEF Main

LEMMA SidecarStep ==
    MapInv /\ SidecarInv /\ [SidecarNext]_sidecarVars => SidecarInv'
  <1> SUFFICES ASSUME MapInv, SidecarInv, [SidecarNext]_sidecarVars PROVE SidecarInv'
    OBVIOUS
  <1>1. CASE TimePasses \/ Signal \/ RequestEnds \/ UNCHANGED sidecarVars
    <2>1. UNCHANGED <<hand, report, streams, life>>
      BY <1>1 DEF TimePasses, Tick, Signal, RequestEnds, sidecarVars, sessionVars,
                  reportVars, processVars
    <2> QED BY <2>1 DEF SidecarInv, ProcessTypeOK, StreamlessAreDone, NobodyServed, Between
  <1> QED BY <1>1, HandlerStepKeeps, StreamKeeps, ExportKeeps, SweeperKeeps, MainKeeps
          DEF SidecarNext

(* When the process ends, GracefulStop has waited for every stream, and a  *)
(* handler without a stream has dealt with its last event and exported its *)
(* statistics: none is lost, whenever the signal came and however often    *)
(* the process was restarted (reflector-map/main.go:163-170).              *)
THEOREM FinalStatsCorrect == SidecarSpec => []FinalStatsAreComplete
  <1>1. SidecarSpec => []MapInv
    <2>1. SessionInv => MapInv
      BY DEF SessionInv
    <2> QED BY <2>1, SidecarRunsTheMap, SessionInvariant, PTL
  <1>2. SidecarInit => SidecarInv
    BY NothingRunning DEF SidecarInit, SessionInit
  <1>3. SidecarInv => FinalStatsAreComplete
    BY DEF SidecarInv, StreamlessAreDone, NobodyServed, FinalStatsAreComplete, Lives
  <1> QED BY <1>1, <1>2, <1>3, SidecarStep, PTL DEF SidecarSpec

-----------------------------------------------------------------------------
(* A client that reads page by page                                        *)

LEMMA PagingMapStep == [PagingNext]_pagingVars => [SessionNext]_sessionVars
  BY DEF PagingNext, Begin, Request, pagingVars

(* Reading changes nothing: to a client's requests the map is the session  *)
(* map alone.                                                              *)
LEMMA PagingReadsTheMap == PagingSpec => SessionSpec
  <1>1. PagingInit => SessionInit
    BY DEF PagingInit
  <1> QED BY <1>1, PagingMapStep, PTL DEF PagingSpec, SessionSpec

(* While the client reads, the entries that match have been no fewer than  *)
(* low and no more than high, and it has not received more than that.      *)
ReadingInv ==
    client.pc = "reading" =>
        /\ client \in [pc : {"reading"}, query : Queries, limit : Limits, received : Nat,
                      low : Nat, high : Nat]
        /\ client.low <= Matching(client.query) /\ Matching(client.query) <= client.high
        /\ client.received <= client.high

PagingInv == ReadingInv /\ PagesAddUp

LEMMA MatchingIsNumber ==
    ASSUME MapInv, NEW q
    PROVE  Matching(q) \in Nat
  <1>1. QueryAll(q) \subseteq Present
    BY DEF QueryAll
  <1>2. IsFiniteSet(QueryAll(q))
    BY <1>1, FS_Subset DEF MapInv
  <1> QED BY <1>2, FS_CardinalityType DEF Matching

MatchingOK == \A q : Matching(q) \in Nat

(* What a page adds to what was received                                   *)
LEMMA PageSizeFacts ==
    ASSUME NEW n \in Nat, NEW limit \in Int, limit > 0, NEW offset \in Nat
    PROVE  /\ PageSize(n, limit, offset) \in Nat
           /\ offset < n => offset + PageSize(n, limit, offset) <= n
           /\ offset >= n => PageSize(n, limit, offset) = 0
           /\ PageSize(n, limit, offset) < limit => offset + PageSize(n, limit, offset) >= n
  BY DEF PageSize, Fewer

LEMMA BeginKeeps ==
    ASSUME MapInv, NEW q \in Queries, NEW limit \in Limits, Begin(q, limit)
    PROVE  PagingInv'
  <1>1. PICK n \in Nat : n = Matching(q)
    BY MatchingIsNumber
  <1>2. UNCHANGED <<entries, heap>>
    BY DEF Begin, sessionVars
  <1>3. Matching(q)' = n
    BY <1>1, <1>2 DEF Matching, QueryAll, Present, EntryAt
  <1>4. client' = [pc |-> "reading", query |-> q, limit |-> limit, received |-> 0,
                   low |-> n, high |-> n]
    BY <1>1 DEF Begin
  <1>5. client'.query = q /\ client'.pc = "reading"
    BY <1>4
  <1>6. Matching(client.query)' = n
    BY <1>3, <1>5 DEF Matching, QueryAll
  <1>7. ReadingInv'
    BY <1>4, <1>6 DEF ReadingInv
  <1>8. PagesAddUp'
    BY <1>5 DEF PagesAddUp
  <1> QED BY <1>7, <1>8 DEF PagingInv

LEMMA RequestKeeps ==
    ASSUME MapInv, PagingInv, Request
    PROVE  PagingInv'
  <1>1. PICK c : c = client
    OBVIOUS
  <1>2. PICK n \in Nat : n = Matching(c.query)
    BY MatchingIsNumber
  <1>3. /\ c \in [pc : {"reading"}, query : Queries, limit : Limits, received : Nat,
                  low : Nat, high : Nat]
        /\ c.low <= n /\ n <= c.high /\ c.received <= c.high
    BY <1>1, <1>2 DEF Request, PagingInv, ReadingInv
  <1>4. c.limit \in Int
    BY <1>3, LimitsAssumption
  <1>5. UNCHANGED <<entries, heap>>
    BY DEF Request, sessionVars
  <1>6. PICK answer \in handleSessions(c.query, c.limit, c.received) :
           client' =
             IF answer = BadRequest THEN [pc |-> "refused", limit |-> c.limit]
             ELSE [c EXCEPT !.received = c.received + Cardinality(answer.body),
                            !.pc = IF Cardinality(answer.body) < c.limit THEN "done" ELSE "reading"]
    BY <1>1 DEF Request
  <1>7. CASE c.limit <= 0
    <2>1. answer = BadRequest
      BY <1>6, <1>7 DEF handleSessions
    <2>2. client'.pc = "refused"
      BY <1>6, <2>1
    <2> QED BY <2>2 DEF PagingInv, ReadingInv, PagesAddUp
  <1>8. CASE c.limit > 0
    <2>1. PICK page \in Pages(c.query, c.limit, c.received) : answer = Ok(page)
      BY <1>3, <1>4, <1>6, <1>8 DEF handleSessions
    <2>2. answer # BadRequest /\ answer.body = page
      BY <2>1 DEF Ok, BadRequest
    <2>3. PICK m \in Nat : m = PageSize(n, c.limit, c.received) /\ m = Cardinality(page)
      BY <1>2, <1>3, <1>4, <1>8, <2>1, PageSizeFacts DEF Pages, Matching
    <2>4. /\ c.received < n => c.received + m <= n
          /\ c.received >= n => m = 0
          /\ m < c.limit => c.received + m >= n
      BY <1>3, <1>4, <1>8, <2>3, PageSizeFacts
    <2>5. PICK sum \in Nat : sum = c.received + m
      BY <1>3
    <2>6. sum <= c.high /\ (m < c.limit => sum >= c.low)
      BY <1>3, <1>4, <2>4, <2>5
    <2>7. client' = [c EXCEPT !.received = sum, !.pc = IF m < c.limit THEN "done" ELSE "reading"]
      BY <1>6, <2>2, <2>3, <2>5
    <2>8. CASE m < c.limit
      <3>1. client' = [c EXCEPT !.received = sum, !.pc = "done"]
        BY <2>7, <2>8
      <3>2. /\ client'.pc = "done" /\ client'.received = sum
            /\ client'.low = c.low /\ client'.high = c.high
        BY <1>3, <3>1
      <3> QED BY <2>6, <2>8, <3>2 DEF PagingInv, ReadingInv, PagesAddUp
    <2>9. CASE ~(m < c.limit)
      <3>1. client' = [c EXCEPT !.received = sum, !.pc = "reading"]
        BY <2>7, <2>9
      <3>2. /\ client'.pc = "reading" /\ client'.received = sum /\ client'.query = c.query
            /\ client'.low = c.low /\ client'.high = c.high
            /\ client' \in [pc : {"reading"}, query : Queries, limit : Limits, received : Nat,
                            low : Nat, high : Nat]
        BY <1>3, <3>1
      <3>3. Matching(c.query)' = n
        BY <1>2, <1>5 DEF Matching, QueryAll, Present, EntryAt
      <3>4. Matching(client.query)' = n
        BY <3>2, <3>3 DEF Matching, QueryAll
      <3> QED BY <1>3, <2>6, <3>2, <3>4 DEF PagingInv, ReadingInv, PagesAddUp
    <2> QED BY <2>8, <2>9
  <1> QED BY <1>3, <1>4, <1>7, <1>8

LEMMA WatchKeeps ==
    ASSUME MatchingOK', PagingInv, Watch
    PROVE  PagingInv'
  <1>1. CASE client.pc # "reading" /\ UNCHANGED client
    BY <1>1 DEF PagingInv, ReadingInv, PagesAddUp
  <1>2. CASE client.pc = "reading"
    <2>1. PICK c : c = client
      OBVIOUS
    <2>2. c \in [pc : {"reading"}, query : Queries, limit : Limits, received : Nat,
                 low : Nat, high : Nat] /\ c.received <= c.high
      BY <1>2, <2>1 DEF PagingInv, ReadingInv
    <2>3. PICK n \in Nat : n = Matching(c.query)'
      BY DEF MatchingOK
    <2>4. client' = [c EXCEPT !.low = IF n < c.low THEN n ELSE c.low,
                              !.high = IF n > c.high THEN n ELSE c.high]
      BY <1>2, <2>1, <2>3 DEF Watch
    <2>5. PICK lo \in Nat : lo = IF n < c.low THEN n ELSE c.low
      BY <2>2
    <2>6. PICK hi \in Nat : hi = IF n > c.high THEN n ELSE c.high
      BY <2>2
    <2>7. lo <= n /\ n <= hi /\ c.received <= hi
      BY <2>2, <2>5, <2>6
    <2>8. client' = [c EXCEPT !.low = lo, !.high = hi]
      BY <2>4, <2>5, <2>6
    <2>9. /\ client'.pc = "reading" /\ client'.query = c.query /\ client'.received = c.received
          /\ client'.low = lo /\ client'.high = hi
          /\ client' \in [pc : {"reading"}, query : Queries, limit : Limits, received : Nat,
                          low : Nat, high : Nat]
      BY <2>2, <2>8
    <2>10. Matching(client.query)' = n
      BY <2>3, <2>9 DEF Matching, QueryAll
    <2> QED BY <2>7, <2>9, <2>10 DEF PagingInv, ReadingInv, PagesAddUp
  <1> QED BY <1>1, <1>2 DEF Watch

(* A client of /sessions that reads until a short page receives at least   *)
(* the fewest and at most the most entries that matched meanwhile, for any *)
(* limit and however the map changes between two pages (api.go:76-89).     *)
THEOREM PagesCorrect == PagingSpec => []PagesAddUp
  <1>1. PagingSpec => []MapInv
    <2>1. SessionInv => MapInv
      BY DEF SessionInv
    <2> QED BY <2>1, PagingReadsTheMap, SessionInvariant, PTL
  <1>2. MapInv => MatchingOK
    BY MatchingIsNumber DEF MatchingOK
  <1>3. PagingInit => PagingInv
    BY DEF PagingInit, AtRest, PagingInv, ReadingInv, PagesAddUp
  <1>4. MapInv /\ MatchingOK' /\ PagingInv /\ [PagingNext]_pagingVars => PagingInv'
    <2> SUFFICES ASSUME MapInv, MatchingOK', PagingInv, [PagingNext]_pagingVars PROVE PagingInv'
      OBVIOUS
    <2>1. CASE UNCHANGED pagingVars
      BY <2>1 DEF pagingVars, sessionVars, PagingInv, ReadingInv, PagesAddUp, Matching,
                  QueryAll, Present, EntryAt
    <2> QED BY <2>1, BeginKeeps, RequestKeeps, WatchKeeps DEF PagingNext
  <1>5. PagingInv => PagesAddUp
    BY DEF PagingInv
  <1> QED BY <1>1, <1>2, <1>3, <1>4, <1>5, PTL DEF PagingSpec
=============================================================================
