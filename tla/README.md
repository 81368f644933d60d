# workload-ebpf-reflector: TLA+ models, checks and proofs

This directory holds TLA+ models of the reflector and its sidecar, the TLC
configurations that check them on small instances, and proofs that TLAPS checks
for every value of the constants.  `PROJECT.json` lists components, runs,
mutants, the lines of source each definition stands for, findings, hazards and
theorems.  Paths below are relative to the repository root.

## 1. The system and its parts

A *reflector* runs on every node.  eBPF programs observe TCP connects, TLS
plaintext and X.509 certificates; event loops turn the kernel's records into
protobuf events; a sender streams them over gRPC to the *sidecar*
(`reflector-map`), which keeps a session map, tracks certificate rotations and
behavioural profiles, and answers HTTP queries.

| Component | State | Operations | Correct means | Status |
|---|---|---|---|---|
| Rotation tracker (`internal/session/rotation.go`) | history per SPIFFE ID, rate window and count | `Track` | history is a bounded chain without repeats; at most `rotationRateMax` observations in a rate window; an issuer or domain change is never masked | modelled, proved |
| Profile tracker (`profile.go`) | time windows per identity | `Observe`, `Profile` | windows and sets within caps; the learned baseline is immutable (RT-008); steady traffic raises no flag | modelled, proved |
| Session map (`map.go`) | entries by key, mutex | `HandleEvent`, `Sweep`, `Lookup`, `QueryAll`, `GetStats` | bounded (RT-005), nothing removed or displaced without cause, first observation wins, the audit trail edited by nobody else, late events spare a reused key | modelled, proved |
| HTTP API (`internal/session/api.go`) | none | `GET /sessions`, `/stats`, `/attest`, `/profile` | pages add up; what is attested has a profile | modelled, proved |
| Sidecar process (`cmd/reflector-map/main.go`) | gauges, ticker, context, servers | start, event handler, sweep loop, shutdown | dead entries go; gauges settle on the map's statistics; the process ends once the streams have, with nothing half handled | modelled; safety proved |
| Event stream (`internal/stream/*`, `cmd/reflector/main.go:121-280`) | channel, sender's backoff, wires, token buckets | `Connect`, `Send`, `SendResumed`, `Close`, `StreamEvents`, `Allow` | at most once, every gap marked, rate limited (RT-004), nothing stuck | modelled; safety and refinement proved |
| Reflector event loops (`cmd/reflector/main.go:285-603`) | none but the channel | connection, TLS and certificate loops | a loop never waits for the sender and ends after cancellation; nobody is blamed without cause; identities reach the sessions they belong to | modelled; safety proved |
| Extractors (`internal/extract`) | none | what a captured prefix shows: OTLP, JWT, MCP, Boundary, SPIFFE | a cut export is known for one | partly: offsets that decide, no characters |
| OTLP forwarder (`internal/forward`) | none | `Forward` | only whole exports are posted | modelled, proved |
| Enforcement (`tc_loader.go`, `proc_conn.go`, `bpf/tc_drop.c`) | deny map (LRU) | `ConnsByPID`, `DenyFlow`, packet filter | a denied flow is dropped, no other | partly (section 7); that every key has a cause is proved |
| Policy (`internal/policy`) | prepared query | `Eval` | an error never blocks traffic; who is blamed was refused | partly, with the loops; proved with them |
| eBPF programs on OpenSSL (`internal/ebpf/bpf/tls_hook.c`, `cert_hook.c`) and their loaders | scratch maps per thread, ring buffers, links | entry and return probes, `Load`, `Close` | an event pairs the arguments and the result of one call; no arguments are left behind | modelled, proved |
| Certificate loader and scanner (`cert_loader.go`, `proc_scanner.go`, `main.go:555-585`) | attached inodes and their links | `Load`, `AttachToExecutable`, scan, `Close` | no link lost or closed twice, one pair of probes per image, what can be seen gets hooked | modelled; safety proved |
| Authentication, metrics, gRPC messages, test workload | none of their own | TLS set-up, counters, generated code | - | not modelled, see section 7 |

**How they interact.**  The loops write to one Go channel of 512 events with a
non-blocking send.  One sender goroutine drains it.  On the sidecar gRPC runs
one `StreamEvents` goroutine per stream; all of them call the same event
handler, which calls `Map.HandleEvent` and exports gauges.  The sweep ticker
and HTTP requests run beside them.  The map has one RWMutex; the trackers have
a mutex each, and `HandleEvent` releases the map's mutex around calls of them
while it goes on using a `*Entry` it looked up before.

**What is hard.**  Entries held across an unlock; a key reused meanwhile; two
goroutines that discover different identities for one entry; timestamps of
several nodes out of order; caps and eviction; streams that break with events
on the wire, whose goroutines outlive them; gauges exported out of order; calls
that only one probe of a pair sees, because the other was not yet attached or
is gone; a process whose connections open and close, or which exits and leaves
its PID to another, while it is judged; a
library replaced between the `stat` and the probe, and a table of links that two
goroutines use without a lock; a shutdown that waits for streams others hold.
The `hazards` of `PROJECT.json` give each at its line with the properties aimed at
it.

## 2. Modules

    RotationTracker   Track, its rate limiter, classification and history
    RotationClient    any callers of one tracker, and its properties
    RotationProofs    TLAPS
    ProfileTracker    Observe, windows, baseline, anomaly flags
    ProfileClient     any callers of one tracker, and its properties
    ProfileProofs     TLAPS
    SessionMap        EXTENDS both trackers: HandleEvent, Sweep
    SessionAPI        EXTENDS SessionMap: the HTTP handlers, Lookup, QueryAll, GetStats
    SessionSafety     properties of the session map and of what the API says of it
    SessionPaging     SessionMap with a client that reads page by page
    Sidecar           SessionMap with the event handler, the ticker, the gauges,
                      streams and main from start to shutdown
    SessionProofs     TLAPS: the map, the sidecar process, the paging client
    LossyFeed         abstract: what the stream promises
    EventStream       channel, sender, gRPC streams, StreamEvents, token bucket
    StreamSafety      properties of the stream, refinement of LossyFeed
    StreamProofs      TLAPS
    Probes            probes on SSL_write, SSL_read, d2i_X509, and their loaders
    ProbesSafety      properties of the probes
    ProbesProofs      TLAPS
    Enforcement       /proc snapshot, deny map, packet classifier
    Extract           what the extractors find in a captured prefix
    Reflector         EXTENDS Enforcement, Extract: event loops, OTLP forwarding,
                      policy, cancellation
    ReflectorSafety   properties of the loops, of forwarding and of enforcement
    ReflectorProofs   TLAPS
    Pipeline          Reflector with an instance of SessionAPI: from hook to query
    CertLoader        AttachToExecutable, the scanner, main's Load and Close
    CertLoaderSafety  properties of the certificate loader
    CertLoaderProofs  TLAPS
    SumProofs         TLAPS: what sums over finite sets compute
    MC*               instances for TLC

Definitions headed "Variant with a defect" are the mutated forms the `mutants`
of `PROJECT.json` put in place of the definition that follows them; no
specification uses them.

### RotationTracker, ProfileTracker
State is one function per Go map (`history`, `rateCount`, `rateReset`;
`windows`).  `Track` and `Observe` hold the tracker's mutex from start to end,
so each is one step.  `TrackClass` is the value `Track` returns, `Track` what
it does to the state; both follow the order of the code's early returns: rate
limit, empty history, same serial, classification.  The profile's mean and
standard deviation are compared after multiplication by the number of windows,
so that no real numbers are needed; a z-score above its threshold is the same
inequality over integers.  Byte counters wrap at `ByteModulus`.
`RotationClient` and `ProfileClient` call them with any observation of a set,
in any order of their timestamps: the sidecar's streams do not order them.

### SessionMap
`HandleEvent` is cut where it unlocks.  Each stretch with the mutex held and
each call of a tracker is an action: `Open`, `OpenObserve`; `Close`; `Data`,
`TrackCert`, `Relock`, `LoadTool`, `DataObserve`; `StoreRotation`; `Resumed`;
`Ignore` for events without a case and for `CLOSE` and `DATA_EXCHANGE` of an
unknown connection.  Entries are cells of a `heap` and the map holds
references, because the code keeps `*Entry` pointers across the unlocked
stretches: a handler may write a cell that is no longer in the map.  A cell
neither the map nor a handler refers to is blank and may be allocated again
(Go's collector).  `Sweep` and `Tick` are the ticker's pass and time.

The arguments of `Observe` after a `DATA_EXCHANGE` are read without the mutex.
The tool name, a Go string of two words, is read in two steps; if another
handler wrote it in between, the handler either goes on or crashes the process,
which then starts again with nothing (`Crash`).

Kept of an entry: node, connection, identity and its type, tool, token, PID,
last-seen time, status.  Left out: byte counters, first-seen time and OTel
display fields, which no operation reads.  Timestamps lie between `clock - Lag`
and `clock + Skew`.

### SessionAPI, SessionPaging
A request reads the map once, under its lock, so a handler is a function of the
state; where Go's map order decides, it is the set of the answers it may give
(`LookupBest`, `Pages`).  A page is the set of its entries; JSON and the order
within a page are left out.  `SessionPaging` is a client that asks for the next
offset until a page comes back short, while the map goes on changing; it notes
how many entries matched at least and at most meanwhile.

### Sidecar
`HandlerStep` is a step of `HandleEvent`, after whose last one the goroutine
reads the statistics under the lock (`ReadStats`) and sets the two gauges one
after the other without it (`SetActive`, `SetIdentities`); `SweeperStep`
followed by the same three is the ticker.  `main` starts the servers (`Serve`,
or `StartFails`), waits for a signal, stops the gRPC server gracefully
(`BeginStop`, `StopReturns`) and then the HTTP servers under a deadline
(`DeadlinePasses`, `MainReturns`).  `GracefulStop` returns when every stream's
handler has; a stream ends when its reflector lets go of it or the transport
breaks (`Disconnect`), which nothing forces.  Each handler has one stream;
reconnects are in `EventStream`.

### EventStream
`Produce` is the non-blocking send of an event loop; `Connect`, `ConnectFails`,
`Wait`, `SendResumed`, `Send`, `SendFails`, `Shutdown` are the sender;
`Start`, `Recv`, `Handle`, `RecvFails` the goroutine of one stream.  gRPC is
external: a stream is a FIFO wire with flow control (`WireCap`) that may break
at any time and keep any prefix of what was on it.  A sender notices a break
from a failing `Send` only; until then its messages vanish.  The goroutine of a
broken stream may still hand over what had arrived while its successor runs.
Time is in units of 1/`Second` s and tokens in units of 1/`Second`, so a refill
is exact.  One reflector is modelled, and the node ID of an event, which mTLS
overrides, is left out.

### Probes
A thread is in at most one call of each traced function (`call`); `Enter` and
`Return` are the call's two ends with the probe that runs there, if it is
attached.  `scratch` is the BPF hash map of each hook, keyed by thread
(`bpf_get_current_pid_tgid`), refusing new keys when full; `ring` its ring
buffer.  The loaders attach the entry probe of a function before its return
probe, TLS before certificates, in steps of their own (`Attach`), so calls run
through every stage of loading and of closing.  The uprobe mechanism is
external: the return probe of a call runs only if it was attached when the call
was entered.  `traced` and `stored` of a call, `half` (threads with a call that
only the entry probe saw) and `of` of an event are history that no program
keeps; `ScratchOfOpenCalls` and `CaptureOfOneCall` are stated with them.
Lengths are integers, the TLS length is masked (`% CaptureMod`) and then capped
as in the code.

### Enforcement, Reflector
Addresses and ports are sequences of bytes.  The Go code reads them as
big-endian integers and stores the integers in a key whose memory the BPF
program compares with bytes of the packet; `makeFlowKey` is that conversion on
a little-endian machine, the only targets the build has.  A full LRU map drops
any key.  `ConnsByPID` lists what `/proc/<pid>/net/tcp` does: the established
IPv4 sockets of the network namespace of the process that has the PID now.
Processes start and exit (`Start`, `Exit`); a process has its PID and namespace
for life, a PID is free again once its holder has exited, and the kernel closes
the sockets of one that exits.  `born` and `parsed` are history that no code
keeps.

A query of the policy returns an object with a Boolean `allow`, an object
without one, or nothing that is an object, an error included.  `Eval` allows in
the last case and denies in the second, where Go's type assertion leaves the
zero value (evaluator.go:77).  `any_trusted` is the prefix test of default.rego:
an ID that ends after its trust domain has no `/` there and is refused.
`CustomPolicy` is what a policy file makes of an ID and a PID, any function to
those shapes; `None` is the embedded policy.

Each loop of `Reflector` is a small state machine: `Read` takes a record and
computes the events it yields, `Offer` sends one without waiting; in the
certificate loop `Evaluate`, `Offer` of the violation, `Snapshot` and one
`Deny` for each connection follow.  The processes and connections of the node
change between any two of these.  The rings receive any captured call, which is what `Probes`
guarantees them, and the sender is reduced to `Drain`; closing a reader after
cancellation is part of `ReadFails`.  A missing TC loader and a failing
`ConnsByPID` are an empty snapshot.  `Existing` are connections older than the
reflector.

### Extract and OTLP forwarding
A captured call is a prefix of a message, and a message stands for its bytes by
the offsets that decide: the end of the request path and of the header, the
stated length, the gRPC frame, the ends of the protobuf entries, and how many
bytes it takes to see a token or a tool call.  `ExtractOTLPFromTLS` follows the
code's returns: header cut, empty body, partial frame, body shorter than its
stated length.  Characters, encodings and the claims of a JWT are left out.
The TLS loop posts a signal (`Forward`) before it offers the event, and waits
for the answer: the POST arrives or does not, within the client's timeout.

### Pipeline
`Reflector` with an instance of `SessionAPI` for one node: `Deliver` takes an
event from the channel and calls the session map with the fields the conversion
set (`Received`) and the zero values of all others.  The stream between the two
loses nothing here; what it may lose is `EventStream`.

### CertLoader
`AttachToExecutable` is one action per system call (`Stat`, `Open`, `Probe` for
the entry and the return probe, `Record`), each of which may fail
(`AttachFails`), since a library may be replaced and `main` may close the loader
between any two.  A path is resolved anew by each call, in the reflector's mount
namespace.  `ReadMaps` reads the maps of one process, which may have ended.
`CloseLinks` is one turn of the loop of `closeLinks`; an inode added meanwhile
may be visited or not, as Go's range says.  `FatalMapRace` is Go's runtime
ending the process when it notices concurrent use of the map.  `attachedInodes`
holds the image each link is really attached to, which the code does not know.

## 3. What TLC checks

`tlc -workers 2 -config <cfg> <module>`; every run ends within a few minutes.
Every invariant and every action property below is also proved for all values
of the constants (section 4), `FirstObservationWins` only there; what only TLC
shows is liveness.

| Run | Configuration | Shows |
|---|---|---|
| `rotation` | `MCRotation.cfg` | `HistoryIsChain`; `RateWindowBudget`; `LearnedIntervalIsObserved`: the learned interval lies between the smallest and the largest positive gap; `IssuerChangeIsReported`; `ReportedOnce` |
| `profile` | `MCProfile.cfg` | `ProfileBounded`; `OrderedOnceLearned`; `BaselineImmutable`; `SteadyTrafficIsQuiet` |
| `session_churn` | `MCPaging.cfg` | connections on two nodes at a cap of two, and a client that reads pages: `OnlyRotationsExceedCap`; `EntriesLeaveForAReason`: an entry is swept, evicted or displaced by an event that may take its key, and an insertion removes at most one other; `PagesAddUp`: the client gets as many entries as the map held at some time between its first and its last page |
| `session_handlers` | `MCSessionHandlers.cfg` | two handlers, a connection whose certificate rotates and whose identity, tool and token are discovered while its key is closed, reused or taken by a rotation event, and one with the same addresses over another protocol: `HeapSound`; `EntriesLeaveForAReason`, here for rotations of one identity and instant too; `AuditBackedByHistory`; `OnlyItsConnectionEditsAudit`: a synthetic entry never changes, a rotation entry under a connection's key only by that connection; `LateEventSparesSuccessor`; `AttestedHasProfile`: what `/attest` says is a SPIFFE ID in use, `/profile` knows, or is about to |
| `sidecar` | `MCSidecar.cfg` | two handlers, the ticker and main, up to the exit: `DeadEntriesAreSwept`, `GaugesSettle`, `FinalStatsAreComplete`, `StopsOnceStreamsEnd` |
| `stream` | `MCStream.cfg` | `ResumedComesFirst`, `NoSilentGap`, `RateBudget`, `LossNeedsFault`, `ImplementsFeed` (refinement of `LossyFeed`), `EventsSettle` |
| `probes` | `MCProbes.cfg` | two threads of one process in three calls while hooks load, fail and close: `CaptureOfOneCall`: an event shows the buffer of the call that returned, unless an earlier call of the thread on `d2i_X509` lost its return probe; `ScratchOfOpenCalls`: arguments are left only for open calls or ones that half of the probes saw |
| `reflector` | `MCReflector.cfg` | three loops, two processes that have one PID in turn, IDs that the policy allows, refuses or leaves undecided, OTLP exports whole and cut: `BlameHasCause`: a violation has the PID of a process that parsed a refused certificate, a denied flow was a connection of the namespace of such a process or of a later holder of its PID; `PostedIsWhole`, `LoopsKeepUp`, `LoopsStop` |
| `cert_loader` | `MCCertLoader.cfg` | two processes, one of them in a container, two paths, three images of which two share an inode number: `LinksAccounted`, `HookedOnce`, `VisibleLibraryIsHooked` |

Three runs show a disagreement between the code and what the repository says of
it; each is a finding in `PROJECT.json`:

| Run | The text | The code |
|---|---|---|
| `session_torn_load` (`MCSessionNoTornLoad.cfg`) | the map is *thread-safe* (map.go:53) | `Observe`'s arguments are read after `Unlock` |
| `reflector_deny` (`MCReflectorDeny.cfg`) | packets matching a denied flow "will be dropped by the TC classifier" (tc_loader.go:84) | `makeFlowKey` writes addresses and port in the host's byte order, the classifier looks up network order: no packet matches unless its bytes are palindromes |
| `pipeline` (`MCPipeline.cfg`) | a query by SPIFFE ID shows "who connected to what" (docs/architecture.md:76) | events with an identity carry no addresses, so they never meet the entry that `CONNECTION_OPEN` created, and the session map drops them |

### Bounds and why they are enough
The caps are reached and passed in every run: histories of 3, rate budgets of
2 or 3, windows of 3, destination sets of 1, maps of 2, channels and wires of
2.  `session_*` runs receive 4 events (`MaxEvents`), enough for an event to be
looked up, its key to be closed, reused and rotated by another handler, and the
first handler to come back.  Events stamped before the clock are received in
`session_churn` (`Lag` = 1), `rotation` and `profile`; `session_handlers`, whose
subject is the order of the handlers' steps, stamps them with the clock.  `Refs` has a cell for every entry the events can
create and every one a handler can hold.  The client of `session_churn` asks for
2 entries at a time, of a map that may hold 3, or for 0, which is refused
(`Limits`).  The sidecar run has 2 events for two goroutines beside the ticker:
one reads statistics, the other changes them and exports, the first exports; no
signal comes before instant `FirstSignal`, so that the map has been swept in
some behaviours and is in use in others when it does.  The stream has 3 events
and 2 faults, enough for two streams that break and a third; `StreamIds` has one
more stream than faults and refusals together can end.  Clocks run far enough
for `2 * staleTTL` to elapse, a rate window to end, a bucket to refill.

`probes` has one place in each scratch map and each ring for two threads, so
both overflow; its sizes lie at zero, the limits and above them, and
`CaptureMod` is one above `MaxCapture`, so that masking to zero happens.  Three
calls are enough for one to lose its return probe and two to overlap after it.
`reflector` has a ring, a channel and a deny map of one place each and two
captured calls: certificates with a trusted ID, with one that default.rego
refuses because it has no path, with one for which the policy file misspells
`allow`, and one too long to parse; a call with a token; or exports over HTTP and
gRPC that are whole or cut in the frame or in the body.  A process that exits
and one in another namespace that is given its PID are enough for the snapshot
to meet an heir; the heir's connection, or its own certificate, gives the case
without one.

`cert_loader` allows 3 changes of the node (`MaxChanges`: a process starts, a
library is installed, replaced or removed) and 1 call that fails for no visible
reason (`MaxFailures`): enough for a library to be replaced between `stat` and
probe while a process comes, and for the replaced one's inode number to be used
again.  `pipeline` needs one connection and one certificate.

### Fairness
Safety runs assume none.  `SidecarSpec`: time passes, the ticker fires (Go's
ticker does), and main and a goroutine in the middle of an event go on (Go's
scheduler is fair, no call in the handler blocks but on mutexes held for bounded
time); a stream that broke is noticed by the `Recv` that waits for it.  Nothing
is assumed about events arriving, about reflectors closing their streams, about
HTTP clients or about signals: `StopsOnceStreamsEnd` starts when the streams are
let go, and a reflector that keeps its stream does hold up the shutdown.
`FairCertLoaderSpec`: main and the scanner go on when they can, the ticker
included; none for the node, for failures or for a signal.  `FairStreamSpec`: the sender's
goroutine and each stream's goroutine go on when they can.  Faults are bounded
by `MaxFaults`: a network that fails for ever delivers nothing, and the
property says nothing of it.  The `stream` and `sidecar` properties of liveness
exclude a reflector that was shut down, and need no fairness of `Produce`,
`Break`, `Shutdown` or `Tick` beyond this.  `FairReflectorSpec`: each of the
three goroutines goes on when it can; none for `Drain`, since the sidecar may
be away for good, and none for the node.  A loop reads what is in the ring
before it notices that the reader is closed, and the model bounds what the node
submits, so that reading ends.  Deadlock is not checked where a
system may stop: when the bound of events is reached, or after `Shutdown`.

## 4. What is proved

All proofs are for every value of the constants, from the assumptions named in
the modules (`*Assumption`), which TLC evaluates in the runs.

**RotationProofs.**  `TrackerInvariant` is inductive: the types of the three
functions, histories that are chains within `certHistoryMax`, and for each
identity that recorded observations inside the current rate window number no
more than `rateCount`, which is at most one above `rotationRateMax`.  From it
`TypeCorrect`, `ChainCorrect`, `BudgetCorrect`; `IssuerChangeCorrect` and
`ReportedOnceCorrect` are action properties that follow from the types and the
definition of `Track`.  `LearnedIntervalCorrect` needs what a sum computes
(`SumProofs`): a sum of positive gaps, divided by their number, lies between
the smallest and the largest.

**ProfileProofs.**  `ProfileInvariant` adds to the bounds that destination sets
are finite and, needed for `OrderedCorrect`, that from window
`profileLearnMin` on each window starts after its predecessor.  It is
inductive because an event older than the newest window is dropped once that
many windows exist.  From it `ProfileTypeCorrect`, `ProfileBoundedCorrect`,
`OrderedCorrect` and `BaselineImmutableCorrect` (RT-008).
`SteadyTrafficCorrect` computes the sums of equal windows: the scaled mean is
the value times the number of windows, the scaled variance is zero, and every
test of an anomaly fails.

**SumProofs.**  The trackers' sums are `MapThenSumSet`, a function defined by
recursion on the subsets of its argument.  The library's induction theorems take
an operator as a parameter, which the provers cannot instantiate; the
least-number principle (`LeastNumber`, from the well-foundedness of `<` on the
naturals) takes a *set* of counterexamples instead.  With it `SumExists` shows
that the recursive function exists and satisfies its equation on every finite
set, `SumIsBetween` bounds it by the number of terms times the smallest and the
largest, and `Average` divides.

**StreamProofs.**  `StreamTypeCorrect` rests on `TypeInv`: the types, that a
sender that sends has a stream, and that no bucket was filled in the future.
`RateBudgetCorrect` (RT-004) adds `BucketInv`, a conservation law: tokens given
out plus tokens held are at most the first filling plus the refill until
`lastFill`.  The budget itself is not inductive, since it forgets what the
bucket still holds.

The order of events is argued about *lines*: the line of a stream is what its
goroutine has applied, what it has in hand and what is on its wire, in that
order.  `Recv` and `Handle` only move the border within a line, so of the many
actions few kinds of step remain (`LineStep`): nothing happens to the lines and
the channel, a stream is opened, an event enters the channel, `STREAM_RESUMED`
or the head of the channel is appended to the current line, an event is taken and
lost, a line is cut off.  `OrderInv` is kept by each: lines of unused streams
are empty, a line starts with its one mark, the marks agree with what the
sender has done, the channel and each line are gap-free stretches of the
accepted events, an earlier line holds older events than a later one, and the
current line, if it is up, ends where the channel begins.  `ResumedFirstCorrect` and
`NoSilentGapCorrect` follow.  `LossNeedsFaultCorrect` adds that while no stream
was cut the lines and the channel hold every accepted event.
`StreamImplementsFeed` proves the refinement of `LossyFeed` with the mapping the
run uses: `DeliveredOnce` turns the cardinality of `Deliveries` into a number
in {0, 1}, `KnownIsPlaced` says that what is in flight or delivered is the
channel and the lines, and each `LineStep` is a step of the feed or a stutter.

**ProbesProofs.**  `ProbesInvariant` is inductive: the types; `SavedCert` (the
certificate hook saves lengths it accepts only); `SavedByProbe` (arguments are
saved only while a probe is attached); `Paired` (what is saved for a thread in a
call is that call's arguments if its entry probe stored them, and a traced call
whose arguments were turned away finds older ones on `d2i_X509` only, whose
probe looks at the length first); and the two properties
themselves.  `CaptureOfOneCall` alone is not inductive, because it says nothing
of the scratch map a return probe reads; `Paired` is what the key by thread
buys.  From it `ProbesTypeCorrect`, `ScratchCorrect`, `CaptureCorrect`.

**SessionProofs.**  Every step but a crash is a `MapStep`: it amends cells it
may write (those under a connection's key while an event of it is received, those a
handler has in hand, active ones) and takes away keys, or inserts one new cell at one key.  `MapInv` is kept
by whatever is a `MapStep` and by a crash: the types; a key refers to a cell
whose fields spell that key (`CellsKeyed`); no cell has two keys (`CellsOwned`);
a handler that works outside the mutex still has an entry (`HandsHold`); no
handler has a cell of the audit trail in hand (`AuditOwned`); a handler that
tracks a certificate has an event with one (`CertInHand`); the set of used keys
is finite.  `HandsHold` and `AuditOwned` are what `HeapSound` and
`OnlyItsConnectionEditsAudit` lack to be inductive: a handler may come back to a
cell whose key is gone.  From them `HeapSoundCorrect`, `AuditEditsCorrect`,
`FirstObservationCorrect`, `LateEventCorrect` and `CapCorrect`.
`EntriesLeaveCorrect` shows for each step that what it takes away it has swept,
evicted or displaced (`SweepDeparts`, `OpenDeparts`, `RotationDeparts`); the
others take nothing away.  `SessionInv` adds the trackers: a handler that waits for the lock
with a rotation to report has two certificates of its identity on record
(`Reported`), and an active entry with a SPIFFE ID has a profile or somebody on
the way to it (`Profiled`); hence `SessionTypeCorrect`, `AuditBackedCorrect` and
`AttestedCorrect`.

`SidecarRunsTheMap` (`SidecarSpec => SessionSpec`) carries all of these over to
the process.  `SidecarInv` says that a handler without a stream is between two
events and that nobody is served once `GracefulStop` has returned;
`FinalStatsCorrect` follows.  The paging client implements `SessionSpec` in the
same way; its invariant bounds the entries received so far by `high`, and the
number that matches now by `low` and `high`, so that a short page ends above
`low` (`PagesCorrect`).

**CertLoaderProofs.**  `LoaderInvariant`: types; `CallSound` (a call past its
`stat` works for an inode the table has no links for, and has in hand the links
its program counter says); `LoadAlone` (`Load` and the scanner never run
together); `LinksAccounted`; `OnItsInode` (links under an inode are on images of
that number, unless the image was installed between `stat` and probe).  From it
`LinksCorrect` and `HookedOnceCorrect`.  `CallSound` and `LoadAlone` are the
reason why `Record` overwrites nothing.

**ReflectorProofs.**  Data carries its justification along, and justifications
only grow: `RingInv` (a certificate in a ring was parsed by its process),
`EventsInv` and `LoopInv` (a violation in the channel or in an outbox has the
PID of a process that parsed a refused certificate; the flows a loop has still
to deny are connections of the namespace of such a process or of an heir of its
PID), `DenyInv` and `PostedInv` (the same for what is in the deny map and at the
collector), over `NodeInv`.  The last has the types and, in `ProcInv`, that of
two processes with one PID the one that runs is the younger: that is why whoever
`ConnsByPID` finds is the denied process or an heir.  `CustomPolicy` is any
function, so `BlameCorrect` holds for every policy file.  `ReflectorInv`
is their conjunction; from it `ReflectorTypeCorrect`, `BlameCorrect`,
`PostedCorrect`.

**Assumptions worth a look.**  `SessionNamesAssumption` has `certHistoryMax > 1`
(10 in rotation.go): with room for one certificate the tracker would forget the
one a rotation replaced.  `CertsAssumption`: the observations built from events
are ones the tracker accepts. `ReflectorAssumption`: a gRPC request that states
a length counts the frame's prefix of 5 bytes, as gRPC prescribes; the code does
not look, and a shorter body is posted as it is (otlp.go:104), which
`PostedIsWhole` would not accept.  `CertLoaderAssumption`: there are finitely
many images.  The bounds on events, faults, time and changes that keep TLC's
runs finite are constants like any other: the theorems hold for each value.

**Only model-checked.**  Liveness (`DeadEntriesAreSwept`, `GaugesSettle`,
`EventsSettle`, `LoopsKeepUp`, `LoopsStop`, `StopsOnceStreamsEnd`,
`VisibleLibraryIsHooked`), which needs fairness and `ENABLED`.

## 5. Divergences without a run
Met while modelling; the code shows them without a search.  Where a property of a
run allows for one, that is said.

- `learnedInterval` returns the mean of the gaps; rotation.go:163 says median.
- Windows may be out of order before the baseline is learned; profile.go:70
  says "ordered windows (oldest first)".
- One event with a timestamp far ahead of the others becomes the newest window,
  and every event until that time is dropped as backdated (profile.go:101).
- A destination seen in exactly half of the windows is not typical
  (profile.go:244); profile.go:43 says ">= half".
- z-scores are absolute (profile.go:340), so a drop is flagged as "above
  baseline" (profile.go:294).
- Two rotations of one identity with one timestamp share a synthetic key, and the
  second replaces the first; map.go:247 says "guaranteed unique".
  `EntriesLeaveForAReason` names this as one of the ways out of the map.
- `CERT_ROTATION_*` events are stored under the connection's key (map.go:215),
  where they displace the session, a `CLOSE` makes them closed sessions that a
  sweep removes, and an `OPEN` replaces them; map.go:192-193 says that they are
  "keyed by SPIFFE ID + timestamp", "queryable via GET
  /sessions?status=rotation_*" and "an audit trail".
  `OnlyItsConnectionEditsAudit` shows that nobody else edits them.
- When no entry is stale or closed `evictOldest` takes the oldest of all, a
  rotation entry too (map.go:458); map.go:443 says "the oldest active entry".
- A policy whose object lacks a Boolean `allow` denies, with the reason
  "default-allow" (evaluator.go:77-80); evaluator.go:64-65 says "a broken policy
  never silently blocks traffic".  For `BlameHasCause` such an object is a
  refusal; an error, an empty result or a value that is no object is none.
- An `OPEN` of a key already in a full map evicts another entry although the map
  would not grow (map.go:135).
- enforceTC looks connections up by PID (main.go:530): if the process has exited
  and its PID is another's by then, the other's connections are denied.
- An ID that is a trusted domain without a path is accepted by the parser
  (spiffe.go:97-110) and refused by default.rego:35 as an untrusted domain.
- Profiles are built for identities of any type; map.go:179 says
  "SPIFFE-identified".
- A change of trust domain changes the key of the history with it, so
  `RotationDomainChange` is not reached through the map;
  docs/architecture.md:189 lists it.
- The gauge of identities counts those of closed and stale entries;
  metrics.go:80 says "with active connections".
- `POLICY_VIOLATION` events have no case in `HandleEvent`;
  docs/architecture.md:130 says "Violation recorded with SPIFFE ID + 5-tuple +
  timestamp".
- `Lookup` answers "kernel" for any identity, one from a JWT or from OTel too
  (map.go:347-353); map.go:317 says "if the reflector observed the cert at the
  TLS layer".
- `handleAttest` answers 400 for a malformed pid (api.go:123); api.go:109 says
  "Always returns HTTP 200".
- Each page of `GET /sessions` is cut from a new `QueryAll` in Go's map order:
  a client that pages through an unchanged map may see one entry twice and
  another never.  `PagesAddUp` is about their number.
- `GracefulStop` has no deadline (reflector-map/main.go:163): while a reflector
  keeps its stream the sidecar neither stops nor, its sweeper being gone,
  removes entries.
- An event refused by the rate limiter is not sent again; server.go:51 says
  "the reflector must back off and retry".
- `rotationRateMax` bounds rotations *accepted* (rotation.go:15); unchanged
  certificates are counted too (rotation.go:77), so a first rotation may be
  withheld.
- `DefaultMaxEntries` is a *hard cap* (map.go:63); rotation entries are inserted
  without looking at it (map.go:215, 249) and never swept.
- `ConnsByPID` returns the connections of the whole network namespace;
  proc_conn.go:21 speaks of the process.
- A key of the deny map has no source port and is built from the local end, so
  it can match packets on their way out only; docs/architecture.md speaks of a
  5-tuple and of "ingress/egress packets dropped".
- tls_hook.c:112 masks the length with 0xFFFF: a record of 65536 bytes is
  discarded and one of 65537 captured as 1 byte; line 7 says "first
  MAX_CAPTURE_BYTES".
- A certificate above 2048 bytes is cut, does not parse, and skips the policy
  silently.
- The rule "missing-spiffe-identity" is not reached: main.go:404 skips
  certificates without an ID.
- Addresses of IPv6 connections are zeroed (reflector.c:84).
- The scanner stats paths of other mount namespaces in its own
  (proc_scanner.go:77), so the library of a container is hooked only if the
  reflector has the same file at the same path; main.go:556 says that the scan
  "makes SPIFFE extraction work for containerized workloads that ship their own
  libcrypto".  Inodes are known without their device (proc_scanner.go:15): of
  two images with one number the second is never hooked.
- `AttachToExecutable` takes no lock; cert_loader.go:116 says "Safe to call
  concurrently after Load".  On shutdown it runs beside `closeLinks`, which Go
  may end with a fatal error (`FatalMapRace`).
- `Forward` is called synchronously by the TLS loop, for up to five seconds;
  forward/otlp.go:1 and :19 say "non-blocking".
- A request without `Content-Length`, a chunked one for instance, is never
  truncated for the code: what was captured of it is posted as the whole body
  (otlp.go:89).  A body captured beyond its stated length is posted with what
  follows it.  A gRPC body of less than 5 bytes, of no stated length or of that
  length, is posted as it is (otlp.go:104).  `PostedIsWhole` is about requests that state a length.
- A Boundary token cut by the capture limit is recorded as a whole one
  (boundary.go:39), and stays, since the first observation wins.

## 6. Plan

Done: the trackers, the session map with its HTTP API and paging clients, the
sidecar with its shutdown, the stream with its refinement, the probes, the
certificate loader with its scanner, the reflector's loops with extraction,
forwarding, policy and enforcement, each with proofs of its safety properties,
and the pipeline from hook to query.  Left:

1. Safety lemmas behind the liveness properties: that an entry `Sweep` finds
   dead and too old is gone after it, that a gauge exported last shows the
   statistics read last.  The temporal argument itself stays with TLC.
2. An abstract specification of the session map (a set of sessions with an audit
   trail, without heap and handlers), implemented by `SessionSpec`.
3. What `Pipeline` inherits from `Reflector` and `SessionMap` by refinement.

## 7. Not modelled

- Authentication (`internal/auth`): the set-up of mTLS and one comparison of a
  token; no state, and TLS itself is a library.  That mTLS overrides the node ID
  of an event is left out with it: every model has the node in the event.
- Metrics other than the two gauges, the health page, logging, flags.
- `AllowFlow` and the choice of an interface in `tc_loader.go`; nothing calls
  the first.
- Character-level parsing: HTTP headers, base64, JSON, protobuf fields, DER.
  A model would repeat the encoding; `Extract` keeps the offsets that decide.
- `internal/certebpf`, an older certificate loader that nothing imports, the
  generated eBPF bindings and protobuf code, and `cmd/test-workload`, a traffic
  generator.
- Reading and compiling a policy file; OPA is external, `default.rego` is modelled
  by what its rules decide and a policy file by the values it may yield.
