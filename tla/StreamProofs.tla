---------------------------- MODULE StreamProofs ----------------------------
(***************************************************************************)
(* Proofs about the event stream, for every capacity, rate, number of      *)
(* events, faults and instants.                                            *)
(***************************************************************************)
EXTENDS StreamSafety, SequenceTheorems, FiniteSetTheorems, TLAPS

(* A sender that sends has a stream *)
SenderHasStream == sender \in {"resume", "send"} => current # 0

(* No bucket was filled in the future *)
FilledInPast == \A s \in StreamIds : streams[s].lastFill <= clock

TypeInv == StreamTypeOK /\ SenderHasStream /\ FilledInPast

(* What a bucket has given out and what it still holds is no more than     *)
(* what it held at first and what was refilled until lastFill.             *)
Conserved(st) ==
    /\ st.start <= st.lastFill
    /\ st.taken * Second + st.tokens <= rateLimit * (Second + (st.lastFill - st.start))

BucketInv == rateLimit > 0 => \A s \in StreamIds : Conserved(streams[s])

-----------------------------------------------------------------------------
(* Facts about sequences and numbers that several steps need *)

LEMMA TailInSeq ==
    ASSUME NEW S, NEW q \in Seq(S), q # <<>>
    PROVE  Head(q) \in S /\ Tail(q) \in Seq(S) /\ Len(Tail(q)) = Len(q) - 1
  OBVIOUS

LEMMA PrefixInSeq ==
    ASSUME NEW S, NEW q \in Seq(S), NEW n \in 0 .. Len(q)
    PROVE  SubSeq(q, 1, n) \in Seq(S)
  OBVIOUS

LEMMA ProductInNat ==
    ASSUME NEW a \in Nat, NEW b \in Nat
    PROVE  a * b \in Nat
  OBVIOUS

LEMMA Distributes ==
    ASSUME NEW a \in Nat, NEW b \in Int, NEW c \in Int
    PROVE  a * (b + c) = a * b + a * c
  OBVIOUS

(* The doubled backoff is again between one second and maxBackoff *)
LEMMA DoubledInRange ==
    ASSUME backoff \in 1 .. maxBackoff
    PROVE  Doubled \in 1 .. maxBackoff
  BY StreamAssumption DEF Doubled, Smaller

(* A refilled bucket holds a natural number of tokens *)
LEMMA RefilledInNat ==
    ASSUME NEW st \in StreamRecords, st.lastFill <= clock, clock \in Nat
    PROVE  /\ Refilled(st) \in Nat
           /\ Refilled(st) <= st.tokens + (clock - st.lastFill) * rateLimit
  <1>1. st.tokens \in Nat /\ st.lastFill \in Nat
    BY DEF StreamRecords
  <1>2. clock - st.lastFill \in Nat
    BY <1>1
  <1>3. (clock - st.lastFill) * rateLimit \in Nat
    BY <1>2, ProductInNat, StreamAssumption
  <1>4. 2 * rateLimit * Second \in Nat
    <2>1. 2 * rateLimit \in Nat
      BY ProductInNat, StreamAssumption
    <2> QED BY <2>1, ProductInNat, StreamAssumption
  <1> QED BY <1>1, <1>3, <1>4 DEF Refilled, Smaller

-----------------------------------------------------------------------------
LEMMA UnopenedIsRecord == Unopened \in StreamRecords /\ Unopened.lastFill = 0
  <1>1. <<>> \in Seq(Messages)
    OBVIOUS
  <1>2. RESUMED \in Messages
    BY DEF Messages
  <1> QED BY <1>1, <1>2 DEF Unopened, StreamRecords

LEMMA TypeInit == StreamInit => TypeInv
  <1> SUFFICES ASSUME StreamInit PROVE TypeInv
    OBVIOUS
  <1>1. StreamTypeOK
    <2>1. streams \in [StreamIds -> StreamRecords]
      BY UnopenedIsRecord DEF StreamInit
    <2>2. applied \in [StreamIds -> Seq(Messages)]
      BY DEF StreamInit
    <2> QED BY <2>1, <2>2, StreamAssumption DEF StreamInit, StreamTypeOK
  <1>2. SenderHasStream
    BY DEF StreamInit, SenderHasStream
  <1>3. FilledInPast
    BY UnopenedIsRecord DEF StreamInit, FilledInPast
  <1> QED BY <1>1, <1>2, <1>3 DEF TypeInv

(* A step that changes one stream of a well-typed family keeps it so *)
LEMMA StreamUpdate ==
    ASSUME TypeInv, NEW s \in StreamIds, NEW st \in StreamRecords, st.lastFill <= clock,
           streams' = [streams EXCEPT ![s] = st], clock' = clock
    PROVE  streams' \in [StreamIds -> StreamRecords] /\ FilledInPast'
  BY DEF TypeInv, StreamTypeOK, FilledInPast

LEMMA SentIsTyped ==
    ASSUME TypeInv, sender \in {"resume", "send"}, NEW m \in Messages,
           streams' = Sent(m), clock' = clock
    PROVE  streams' \in [StreamIds -> StreamRecords] /\ FilledInPast'
  <1>1. current \in StreamIds
    BY DEF TypeInv, StreamTypeOK, SenderHasStream
  <1>2. CASE ~Live.up
    BY <1>2 DEF Sent, TypeInv, StreamTypeOK, FilledInPast
  <1>3. CASE Live.up
    <2> DEFINE st == [streams[current] EXCEPT !.wire = Append(@, m)]
    <2>1. streams[current] \in StreamRecords /\ streams[current].lastFill <= clock
      BY <1>1 DEF TypeInv, StreamTypeOK, FilledInPast
    <2> HIDE DEF st
    <2>4. Append(streams[current].wire, m) \in Seq(Messages)
      BY <2>1 DEF StreamRecords
    <2>2. st \in StreamRecords /\ st.lastFill <= clock
      BY <2>1, <2>4 DEF StreamRecords, st
    <2>3. streams' = [streams EXCEPT ![current] = st]
      BY <1>3 DEF Sent, st
    <2> QED BY <1>1, <2>2, <2>3, StreamUpdate
  <1> QED BY <1>2, <1>3

LEMMA CutIsTyped ==
    ASSUME TypeInv, NEW s \in StreamIds, NEW n \in 0 .. Len(streams[s].wire),
           streams' = Cut(s, n), clock' = clock
    PROVE  streams' \in [StreamIds -> StreamRecords] /\ FilledInPast'
  <1> DEFINE st == [streams[s] EXCEPT !.up = FALSE, !.wire = SubSeq(@, 1, n)]
  <1>1. streams[s] \in StreamRecords /\ streams[s].lastFill <= clock
    BY DEF TypeInv, StreamTypeOK, FilledInPast
  <1>2. SubSeq(streams[s].wire, 1, n) \in Seq(Messages)
    BY <1>1, PrefixInSeq DEF StreamRecords
  <1>3. st \in StreamRecords /\ st.lastFill <= clock
    BY <1>1, <1>2 DEF StreamRecords
  <1>4. streams' = [streams EXCEPT ![s] = st]
    BY DEF Cut
  <1> QED BY <1>3, <1>4, StreamUpdate

LEMMA RefusedIsTyped ==
    ASSUME NEW st \in StreamRecords
    PROVE  Refused(st) \in StreamRecords /\ Refused(st).lastFill = st.lastFill
  <1>1. <<>> \in Seq(Messages)
    OBVIOUS
  <1> QED BY <1>1 DEF Refused, StreamRecords

LEMMA ChargedIsTyped ==
    ASSUME NEW st \in StreamRecords, clock \in Nat, Refilled(st) - Second \in Nat
    PROVE  Charged(st) \in StreamRecords /\ Charged(st).lastFill = clock
  <1>1. st.taken + 1 \in Nat
    BY DEF StreamRecords
  <1> QED BY <1>1 DEF Charged, StreamRecords

(* What Recv makes of a stream *)
LEMMA RecvIsTyped ==
    ASSUME TypeInv, NEW s \in StreamIds, Recv(s)
    PROVE  streams' \in [StreamIds -> StreamRecords] /\ FilledInPast'
  <1> DEFINE st  == streams[s]
             got == [st EXCEPT !.wire = Tail(@), !.held = Head(st.wire), !.handler = "handle"]
  <1>1. st \in StreamRecords /\ st.lastFill <= clock /\ clock \in Nat /\ clock' = clock
    BY StreamAssumption DEF TypeInv, StreamTypeOK, FilledInPast, Recv
  <1>2. st.wire \in Seq(Messages) /\ st.wire # <<>>
    BY <1>1 DEF StreamRecords, Recv
  <1>3. Head(st.wire) \in Messages /\ Tail(st.wire) \in Seq(Messages)
    BY <1>2, TailInSeq
  <1>4. got \in StreamRecords /\ got.lastFill = st.lastFill
    BY <1>1, <1>3 DEF StreamRecords
  <1>5. CASE ~Allow(st)
    <2>1. Refused(st) \in StreamRecords /\ Refused(st).lastFill <= clock
      BY <1>1, RefusedIsTyped
    <2>2. streams' = [streams EXCEPT ![s] = Refused(st)]
      BY <1>5 DEF Recv
    <2> QED BY <1>1, <2>1, <2>2, StreamUpdate
  <1>6. CASE Allow(st) /\ rateLimit = 0
    <2>1. streams' = [streams EXCEPT ![s] = got]
      BY <1>6 DEF Recv
    <2> QED BY <1>1, <1>4, <2>1, StreamUpdate
  <1>7. CASE Allow(st) /\ rateLimit # 0
    <2>1. Refilled(got) \in Nat
      BY <1>1, <1>4, RefilledInNat
    <2>2. Refilled(got) = Refilled(st)
      BY <1>1 DEF Refilled, StreamRecords
    <2>3. Refilled(got) - Second \in Nat
      BY <1>7, <2>1, <2>2, StreamAssumption DEF Allow
    <2>4. Charged(got) \in StreamRecords /\ Charged(got).lastFill = clock
      BY <1>1, <1>4, <2>3, ChargedIsTyped
    <2>5. streams' = [streams EXCEPT ![s] = Charged(got)]
      BY <1>7 DEF Recv
    <2>6. Charged(got).lastFill <= clock
      BY <1>1, <2>4
    <2> HIDE DEF got
    <2> QED BY <1>1, <2>4, <2>5, <2>6, StreamUpdate
  <1> QED BY <1>5, <1>6, <1>7

-----------------------------------------------------------------------------
LEMMA TypeStep == TypeInv /\ [StreamNext]_streamVars => TypeInv'
  <1> SUFFICES ASSUME TypeInv, [StreamNext]_streamVars PROVE TypeInv'
    OBVIOUS
  <1>t. StreamTypeOK /\ SenderHasStream /\ FilledInPast
    BY DEF TypeInv
  <1>1. CASE Produce
    <2>1. produced + 1 \in Events
      BY <1>t, <1>1, StreamAssumption DEF Produce, StreamTypeOK, Events
    <2>2. queue' \in Seq(Events) /\ Len(queue') <= QueueCap
      BY <1>t, <1>1, <2>1, StreamAssumption DEF Produce, Enqueue, StreamTypeOK
    <2>3. accepted' \subseteq Events
      BY <1>t, <1>1, <2>1 DEF Produce, StreamTypeOK
    <2>4. produced' \in 0 .. MaxEvents
      BY <1>t, <1>1, StreamAssumption DEF Produce, StreamTypeOK
    <2> QED
      BY <1>t, <1>1, <2>2, <2>3, <2>4
      DEF Produce, TypeInv, StreamTypeOK, SenderHasStream, FilledInPast
  <1>2. CASE Connect
    <2> DEFINE st == [Unopened EXCEPT !.up = TRUE]
    <2>1. st \in StreamRecords /\ st.lastFill = 0
      BY UnopenedIsRecord DEF StreamRecords
    <2>2. clock' = clock /\ clock \in Nat
      BY <1>t, <1>2, StreamAssumption DEF Connect, StreamTypeOK
    <2>3. current + 1 \in StreamIds
      BY <1>2 DEF Connect
    <2>4. streams' = [streams EXCEPT ![current + 1] = st]
      BY <1>2 DEF Connect
    <2>5. st.lastFill <= clock
      BY <2>1, <2>2
    <2>6. streams' \in [StreamIds -> StreamRecords] /\ FilledInPast'
      <3> HIDE DEF st
      <3> QED BY <2>1, <2>2, <2>3, <2>4, <2>5, StreamUpdate
    <2>7. current' \in StreamIds /\ current' # 0
      BY <1>2, <2>3, StreamAssumption DEF Connect, StreamIds
    <2>8. backoff' \in 1 .. maxBackoff
      BY <1>2, StreamAssumption DEF Connect
    <2> QED
      BY <1>t, <1>2, <2>6, <2>7, <2>8
      DEF Connect, AfterConnect, TypeInv, StreamTypeOK, SenderHasStream
  <1>3. CASE ConnectFails
    <2>1. faults' \in 0 .. MaxFaults
      BY <1>t, <1>3, StreamAssumption DEF ConnectFails, StreamTypeOK
    <2> QED
      BY <1>t, <1>3, <2>1
      DEF ConnectFails, TypeInv, StreamTypeOK, SenderHasStream, FilledInPast
  <1>4. CASE Wait
    <2>1. Doubled \in 1 .. maxBackoff
      BY <1>t, DoubledInRange DEF StreamTypeOK
    <2> QED
      BY <1>t, <1>4, <2>1 DEF Wait, TypeInv, StreamTypeOK, SenderHasStream, FilledInPast
  <1>5. CASE SendResumed
    <2>1. streams' \in [StreamIds -> StreamRecords] /\ FilledInPast'
      BY <1>5, SentIsTyped DEF SendResumed, Messages
    <2> QED
      BY <1>t, <1>5, <2>1 DEF SendResumed, TypeInv, StreamTypeOK, SenderHasStream
  <1>6. CASE Send
    <2>1. /\ Head(queue) \in Events
          /\ Tail(queue) \in Seq(Events)
          /\ Len(Tail(queue)) <= QueueCap
      BY <1>t, <1>6, TailInSeq, StreamAssumption DEF Send, StreamTypeOK
    <2>2. streams' \in [StreamIds -> StreamRecords] /\ FilledInPast'
      BY <1>6, <2>1, SentIsTyped DEF Send, Messages
    <2> QED
      BY <1>t, <1>6, <2>1, <2>2 DEF Send, Taken, TypeInv, StreamTypeOK, SenderHasStream
  <1>7. CASE SendFails
    <2>1. Tail(queue) \in Seq(Events) /\ Len(Tail(queue)) <= QueueCap
      BY <1>t, <1>7, TailInSeq, StreamAssumption DEF SendFails, StreamTypeOK
    <2> QED
      BY <1>t, <1>7, <2>1
      DEF SendFails, Taken, TypeInv, StreamTypeOK, SenderHasStream, FilledInPast
  <1>8. CASE Shutdown
    <2>1. streams' \in [StreamIds -> StreamRecords] /\ FilledInPast'
      <3>1. CASE sender = "send"
        <4>1. current \in StreamIds
          BY <1>t, <3>1 DEF StreamTypeOK, SenderHasStream
        <4>2. PICK n \in 0 .. Len(streams[current].wire) : streams' = Cut(current, n)
          BY <1>8, <3>1 DEF Shutdown, Live
        <4> QED BY <1>8, <4>1, <4>2, CutIsTyped DEF Shutdown
      <3>2. CASE sender # "send"
        BY <1>t, <1>8, <3>2 DEF Shutdown, StreamTypeOK, FilledInPast
      <3> QED BY <3>1, <3>2
    <2> QED
      BY <1>t, <1>8, <2>1 DEF Shutdown, TypeInv, StreamTypeOK, SenderHasStream
  <1>9. CASE Tick
    <2>1. clock' \in 0 .. MaxTime /\ clock <= clock' /\ clock \in Int
      BY <1>t, <1>9, StreamAssumption DEF Tick, StreamTypeOK
    <2>2. FilledInPast'
      <3> SUFFICES ASSUME NEW s \in StreamIds
                   PROVE  streams'[s].lastFill <= clock'
        BY DEF FilledInPast
      <3>1. streams[s].lastFill \in Nat /\ streams[s].lastFill <= clock /\ streams' = streams
        BY <1>t, <1>9 DEF Tick, StreamTypeOK, StreamRecords, FilledInPast
      <3> QED BY <2>1, <3>1
    <2> QED
      BY <1>t, <1>9, <2>1, <2>2 DEF Tick, TypeInv, StreamTypeOK, SenderHasStream
  <1>10. ASSUME NEW s \in StreamIds, StreamEvents(s) \/ Break(s)
         PROVE  TypeInv'
    <2>0. streams[s] \in StreamRecords /\ streams[s].lastFill <= clock /\ clock \in Nat
      BY <1>t, StreamAssumption DEF StreamTypeOK, FilledInPast
    <2>1. CASE Start(s)
      <3> DEFINE st == [streams[s] EXCEPT !.handler = "recv", !.tokens = rateLimit * Second,
                                          !.lastFill = clock, !.start = clock, !.taken = 0]
      <3>1. st \in StreamRecords /\ st.lastFill = clock
        BY <2>0, ProductInNat, StreamAssumption DEF StreamRecords
      <3>2. streams' = [streams EXCEPT ![s] = st] /\ clock' = clock
        BY <2>1 DEF Start, FirstFilling
      <3>3. st.lastFill <= clock
        BY <2>0, <3>1
      <3> HIDE DEF st
      <3>4. streams' \in [StreamIds -> StreamRecords] /\ FilledInPast'
        BY <3>1, <3>2, <3>3, StreamUpdate
      <3> QED BY <1>t, <2>1, <3>4 DEF Start, TypeInv, StreamTypeOK, SenderHasStream
    <2>2. CASE Recv(s)
      <3>1. streams' \in [StreamIds -> StreamRecords] /\ FilledInPast'
        BY <2>2, RecvIsTyped
      <3> QED BY <1>t, <2>2, <3>1 DEF Recv, TypeInv, StreamTypeOK, SenderHasStream
    <2>3. CASE Handle(s)
      <3> DEFINE st == [streams[s] EXCEPT !.handler = "recv", !.held = RESUMED]
      <3>1. st \in StreamRecords /\ st.lastFill <= clock
        BY <2>0 DEF StreamRecords, Messages
      <3>2. streams' = [streams EXCEPT ![s] = st] /\ clock' = clock
        BY <2>3 DEF Handle
      <3> HIDE DEF st
      <3>3. streams' \in [StreamIds -> StreamRecords] /\ FilledInPast'
        BY <3>1, <3>2, StreamUpdate
      <3>4. streams[s].held \in Messages
        BY <2>0 DEF StreamRecords
      <3>5. applied' \in [StreamIds -> Seq(Messages)]
        BY <1>t, <2>3, <3>4 DEF Handle, StreamTypeOK
      <3> QED BY <1>t, <2>3, <3>3, <3>5 DEF Handle, TypeInv, StreamTypeOK, SenderHasStream
    <2>4. CASE RecvFails(s)
      <3> DEFINE st == [streams[s] EXCEPT !.handler = "done", !.wire = <<>>]
      <3>1. <<>> \in Seq(Messages)
        OBVIOUS
      <3>2. st \in StreamRecords /\ st.lastFill <= clock
        BY <2>0, <3>1 DEF StreamRecords
      <3>3. streams' = [streams EXCEPT ![s] = st] /\ clock' = clock
        BY <2>4 DEF RecvFails
      <3> HIDE DEF st
      <3>4. streams' \in [StreamIds -> StreamRecords] /\ FilledInPast'
        BY <3>2, <3>3, StreamUpdate
      <3> QED BY <1>t, <2>4, <3>4 DEF RecvFails, TypeInv, StreamTypeOK, SenderHasStream
    <2>5. CASE Break(s)
      <3>1. PICK n \in 0 .. Len(streams[s].wire) : streams' = Cut(s, n)
        BY <2>5 DEF Break
      <3>2. streams' \in [StreamIds -> StreamRecords] /\ FilledInPast'
        BY <2>5, <3>1, CutIsTyped DEF Break
      <3>3. faults' \in 0 .. MaxFaults
        BY <1>t, <2>5, StreamAssumption DEF Break, StreamTypeOK
      <3> QED BY <1>t, <2>5, <3>2, <3>3 DEF Break, TypeInv, StreamTypeOK, SenderHasStream
    <2> QED BY <1>10, <2>1, <2>2, <2>3, <2>4, <2>5 DEF StreamEvents
  <1>11. CASE UNCHANGED streamVars
    BY <1>t, <1>11 DEF streamVars, TypeInv, StreamTypeOK, SenderHasStream, FilledInPast
  <1> QED
    BY <1>1, <1>2, <1>3, <1>4, <1>5, <1>6, <1>7, <1>8, <1>9, <1>10, <1>11
    DEF StreamNext, Sender

(* The variables of the stream keep their types, the channel its capacity  *)
(* and the backoff its bounds, under any faults (StreamTypeOK).            *)
THEOREM StreamTypeCorrect == StreamSpec => []StreamTypeOK
  <1>1. TypeInv => StreamTypeOK
    BY DEF TypeInv
  <1> QED BY <1>1, TypeInit, TypeStep, PTL DEF StreamSpec

-----------------------------------------------------------------------------
(* The token bucket *)

LEMMA ProductGrows ==
    ASSUME NEW a \in Nat, NEW b \in Int, NEW c \in Int, b <= c
    PROVE  a * b <= a * c
  <1>1. c - b \in Nat /\ c = b + (c - b)
    OBVIOUS
  <1>2. a * (c - b) \in Nat
    BY <1>1, ProductInNat
  <1>3. a * c = a * b + a * (c - b)
    BY <1>1, Distributes
  <1>4. a * b \in Int /\ a * c \in Int
    OBVIOUS
  <1> QED BY <1>2, <1>3, <1>4

(* A stream whose bucket a step leaves alone *)
SameBucket(st, old) ==
    st.taken = old.taken /\ st.tokens = old.tokens
        /\ st.lastFill = old.lastFill /\ st.start = old.start

LEMMA BucketUpdate ==
    ASSUME TypeInv, BucketInv, NEW s \in StreamIds, NEW st,
           streams' = [streams EXCEPT ![s] = st],
           rateLimit > 0 => Conserved(st)
    PROVE  BucketInv'
  <1> SUFFICES ASSUME rateLimit > 0, NEW t \in StreamIds PROVE Conserved(streams'[t])
    BY DEF BucketInv, Conserved
  <1>1. CASE t = s
    BY <1>1 DEF TypeInv, StreamTypeOK
  <1>2. CASE t # s
    BY <1>2 DEF TypeInv, StreamTypeOK, BucketInv
  <1> QED BY <1>1, <1>2

LEMMA BucketKept ==
    ASSUME TypeInv, BucketInv, NEW s \in StreamIds, NEW st,
           streams' = [streams EXCEPT ![s] = st],
           SameBucket(st, streams[s])
    PROVE  BucketInv'
  <1>1. rateLimit > 0 => Conserved(st)
    BY DEF BucketInv, Conserved, SameBucket
  <1> QED BY <1>1, BucketUpdate

(* A new bucket *)
LEMMA FreshConserved ==
    ASSUME NEW st \in StreamRecords, st.taken = 0, st.tokens \in {0, rateLimit * Second},
           st.start = st.lastFill
    PROVE  Conserved(st)
  <1>1. rateLimit * Second \in Nat
    BY ProductInNat, StreamAssumption
  <1>2. st.lastFill - st.start = 0 /\ Second + 0 = Second /\ 0 * Second = 0
    BY StreamAssumption DEF StreamRecords
  <1>3. rateLimit * (Second + (st.lastFill - st.start)) = rateLimit * Second
    BY <1>2
  <1> QED BY <1>1, <1>2, <1>3 DEF Conserved, StreamRecords

(* Allow: one token out, the refill in *)
LEMMA ChargedConserved ==
    ASSUME NEW st \in StreamRecords, st.lastFill <= clock, clock \in Nat, Conserved(st)
    PROVE  Conserved(Charged(st))
  <1> DEFINE elapsed == clock - st.lastFill
             before  == Second + (st.lastFill - st.start)
             after   == Second + (clock - st.start)
  <1>1. /\ st.taken \in Nat /\ st.tokens \in Nat /\ st.start \in Nat /\ st.lastFill \in Nat
        /\ st.start <= st.lastFill
        /\ st.taken * Second + st.tokens <= rateLimit * before
    BY DEF StreamRecords, Conserved
  <1>2. /\ Charged(st).taken = st.taken + 1
        /\ Charged(st).tokens = Refilled(st) - Second
        /\ Charged(st).start = st.start
        /\ Charged(st).lastFill = clock
    BY DEF Charged, StreamRecords
  <1>3. Refilled(st) \in Nat /\ Refilled(st) <= st.tokens + elapsed * rateLimit
    BY RefilledInNat
  <1>4. rateLimit * after = rateLimit * before + elapsed * rateLimit
    <2>1. after = before + elapsed /\ before \in Int /\ elapsed \in Int
      BY <1>1, StreamAssumption
    <2>2. rateLimit * (before + elapsed) = rateLimit * before + rateLimit * elapsed
      BY <2>1, Distributes, StreamAssumption
    <2>3. rateLimit * elapsed = elapsed * rateLimit
      BY <2>1, StreamAssumption
    <2> QED BY <2>1, <2>2, <2>3
  <1>5. (st.taken + 1) * Second = st.taken * Second + Second
    BY <1>1, StreamAssumption
  <1>6. (st.taken + 1) * Second + (Refilled(st) - Second) <= rateLimit * after
    <2>1. /\ st.taken * Second \in Int /\ rateLimit * before \in Int
          /\ elapsed * rateLimit \in Int /\ Second \in Int
      BY <1>1, StreamAssumption
    <2> DEFINE given == st.taken * Second
               had   == rateLimit * before
               came  == elapsed * rateLimit
    <2>2. given \in Int /\ had \in Int /\ came \in Int
      BY <2>1
    <2>3. given + st.tokens <= had /\ Refilled(st) <= st.tokens + came
      BY <1>1, <1>3
    <2> HIDE DEF given, had, came
    <2>4. (given + Second) + (Refilled(st) - Second) <= had + came
      BY <1>1, <1>3, <2>1, <2>2, <2>3
    <2> USE DEF given, had, came
    <2> QED BY <1>4, <1>5, <2>4
  <1>7. st.start <= clock
    BY <1>1
  <1> QED BY <1>2, <1>6, <1>7 DEF Conserved

LEMMA BucketInit == StreamInit => BucketInv
  <1> SUFFICES ASSUME StreamInit, NEW s \in StreamIds PROVE Conserved(streams[s])
    BY DEF BucketInv
  <1>1. streams[s] = Unopened
    BY DEF StreamInit
  <1>2. Unopened.taken = 0 /\ Unopened.tokens = 0 /\ Unopened.start = Unopened.lastFill
    BY DEF Unopened
  <1> QED BY <1>1, <1>2, UnopenedIsRecord, FreshConserved

LEMMA BucketStep == TypeInv /\ BucketInv /\ [StreamNext]_streamVars => BucketInv'
  <1> SUFFICES ASSUME TypeInv, BucketInv, [StreamNext]_streamVars PROVE BucketInv'
    OBVIOUS
  <1>t. StreamTypeOK /\ SenderHasStream /\ FilledInPast
    BY DEF TypeInv
  <1>u. CASE UNCHANGED streams
    BY <1>u DEF BucketInv, Conserved
  <1>c. ASSUME NEW s \in StreamIds, NEW n \in Nat, streams' = Cut(s, n)
        PROVE  BucketInv'
    <2> DEFINE st == [streams[s] EXCEPT !.up = FALSE, !.wire = SubSeq(@, 1, n)]
    <2>1. streams' = [streams EXCEPT ![s] = st]
      BY <1>c DEF Cut
    <2>2. SameBucket(st, streams[s])
      BY <1>t DEF SameBucket, StreamTypeOK, StreamRecords
    <2> HIDE DEF st
    <2> QED BY <2>1, <2>2, BucketKept
  <1>s. ASSUME NEW m, sender \in {"resume", "send"}, streams' = Sent(m)
        PROVE  BucketInv'
    <2>1. CASE ~Live.up
      BY <1>s, <1>u, <2>1 DEF Sent
    <2>2. CASE Live.up
      <3> DEFINE st == [streams[current] EXCEPT !.wire = Append(@, m)]
      <3>1. streams' = [streams EXCEPT ![current] = st]
        BY <1>s, <2>2 DEF Sent
      <3>2. current \in StreamIds
        BY <1>t, <1>s DEF StreamTypeOK, SenderHasStream
      <3>3. SameBucket(st, streams[current])
        BY <1>t, <3>2 DEF SameBucket, StreamTypeOK, StreamRecords
      <3> HIDE DEF st
      <3> QED BY <3>1, <3>2, <3>3, BucketKept
    <2> QED BY <2>1, <2>2
  <1>1. CASE Connect
    <2> DEFINE st == [Unopened EXCEPT !.up = TRUE]
    <2>1. streams' = [streams EXCEPT ![current + 1] = st] /\ current + 1 \in StreamIds
      BY <1>1 DEF Connect
    <2>2. st \in StreamRecords /\ st.taken = 0 /\ st.tokens = 0 /\ st.start = st.lastFill
      BY UnopenedIsRecord DEF Unopened, StreamRecords
    <2> HIDE DEF st
    <2>3. Conserved(st)
      BY <2>2, FreshConserved
    <2> QED BY <2>1, <2>3, BucketUpdate
  <1>2. CASE SendResumed \/ Send
    BY <1>2, <1>s DEF SendResumed, Send
  <1>3. CASE Shutdown
    <2>1. CASE sender = "send"
      <3>1. current \in StreamIds
        BY <1>t, <2>1 DEF StreamTypeOK, SenderHasStream
      <3>2. PICK n \in 0 .. Len(Live.wire) : streams' = Cut(current, n)
        BY <1>3, <2>1 DEF Shutdown
      <3> QED BY <1>c, <3>1, <3>2
    <2>2. CASE sender # "send"
      BY <1>3, <1>u, <2>2 DEF Shutdown
    <2> QED BY <2>1, <2>2
  <1>4. ASSUME NEW s \in StreamIds, StreamEvents(s) \/ Break(s)
        PROVE  BucketInv'
    <2>0. /\ streams[s] \in StreamRecords /\ streams[s].lastFill <= clock /\ clock \in Nat
          /\ rateLimit > 0 => Conserved(streams[s])
      BY <1>t, StreamAssumption DEF StreamTypeOK, FilledInPast, BucketInv
    <2>1. CASE Start(s)
      <3> DEFINE st == [streams[s] EXCEPT !.handler = "recv", !.tokens = rateLimit * Second,
                                          !.lastFill = clock, !.start = clock, !.taken = 0]
      <3>1. streams' = [streams EXCEPT ![s] = st]
        BY <2>1 DEF Start, FirstFilling
      <3>2. /\ st \in StreamRecords /\ st.taken = 0
            /\ st.tokens = rateLimit * Second /\ st.start = st.lastFill
        BY <2>0, ProductInNat, StreamAssumption DEF StreamRecords
      <3> HIDE DEF st
      <3>3. Conserved(st)
        BY <3>2, FreshConserved
      <3> QED BY <3>1, <3>3, BucketUpdate
    <2>2. CASE Recv(s)
      <3> DEFINE st  == streams[s]
                 got == [st EXCEPT !.wire = Tail(@), !.held = Head(st.wire), !.handler = "handle"]
      <3>1. CASE ~Allow(st)
        <4>1. streams' = [streams EXCEPT ![s] = Refused(st)]
          BY <2>2, <3>1 DEF Recv
        <4>2. SameBucket(Refused(st), st)
          BY <2>0 DEF SameBucket, Refused, StreamRecords
        <4> QED BY <4>1, <4>2, BucketKept
      <3>2. SameBucket(got, st)
        BY <2>0 DEF SameBucket, StreamRecords
      <3>3. CASE Allow(st) /\ rateLimit = 0
        <4>1. streams' = [streams EXCEPT ![s] = got]
          BY <2>2, <3>3 DEF Recv
        <4> HIDE DEF got
        <4> QED BY <3>2, <4>1, BucketKept
      <3>4. CASE Allow(st) /\ rateLimit # 0
        <4>1. streams' = [streams EXCEPT ![s] = Charged(got)]
          BY <2>2, <3>4 DEF Recv
        <4>2. got \in StreamRecords
          <5>1. st.wire \in Seq(Messages) /\ st.wire # <<>>
            BY <2>0, <2>2 DEF StreamRecords, Recv
          <5>2. Head(st.wire) \in Messages /\ Tail(st.wire) \in Seq(Messages)
            BY <5>1, TailInSeq
          <5> QED BY <2>0, <5>2 DEF StreamRecords
        <4>3. Conserved(got) /\ got.lastFill <= clock
          <5>1. Conserved(st)
            BY <2>0, <3>4, StreamAssumption
          <5> HIDE DEF got
          <5> QED BY <2>0, <3>2, <5>1 DEF SameBucket, Conserved
        <4> HIDE DEF got
        <4>4. Conserved(Charged(got))
          BY <2>0, <4>2, <4>3, ChargedConserved
        <4> QED BY <4>1, <4>4, BucketUpdate
      <3> QED BY <3>1, <3>3, <3>4
    <2>3. CASE Handle(s)
      <3> DEFINE st == [streams[s] EXCEPT !.handler = "recv", !.held = RESUMED]
      <3>1. streams' = [streams EXCEPT ![s] = st]
        BY <2>3 DEF Handle
      <3>2. SameBucket(st, streams[s])
        BY <2>0 DEF SameBucket, StreamRecords
      <3> HIDE DEF st
      <3> QED BY <3>1, <3>2, BucketKept
    <2>4. CASE RecvFails(s)
      <3> DEFINE st == [streams[s] EXCEPT !.handler = "done", !.wire = <<>>]
      <3>1. streams' = [streams EXCEPT ![s] = st]
        BY <2>4 DEF RecvFails
      <3>2. SameBucket(st, streams[s])
        BY <2>0 DEF SameBucket, StreamRecords
      <3> HIDE DEF st
      <3> QED BY <3>1, <3>2, BucketKept
    <2>5. CASE Break(s)
      <3>1. PICK n \in 0 .. Len(streams[s].wire) : streams' = Cut(s, n)
        BY <2>5 DEF Break
      <3> QED BY <1>c, <3>1
    <2> QED BY <1>4, <2>1, <2>2, <2>3, <2>4, <2>5 DEF StreamEvents
  <1> QED
    BY <1>u, <1>1, <1>2, <1>3, <1>4
    DEF StreamNext, Sender, streamVars, Produce, ConnectFails, Wait, SendFails, Tick

(* RT-004 for every rate and every pattern of arrivals: a stream never     *)
(* passes on more messages than its bucket held at first plus the refill   *)
(* of the time since it started (RateBudget).                              *)
THEOREM RateBudgetCorrect == StreamSpec => []RateBudget
  <1>1. TypeInv /\ BucketInv => RateBudget
    <2> SUFFICES ASSUME TypeInv, BucketInv, rateLimit > 0, NEW s \in StreamIds
                 PROVE  streams[s].taken * Second
                            <= rateLimit * (Second + (clock - streams[s].start))
      BY DEF RateBudget
    <2> DEFINE st == streams[s]
    <2>1. /\ st.taken \in Nat /\ st.tokens \in Nat /\ st.start \in Nat /\ st.lastFill \in Nat
          /\ clock \in Nat /\ st.lastFill <= clock
      BY StreamAssumption DEF TypeInv, StreamTypeOK, StreamRecords, FilledInPast
    <2>2. st.taken * Second + st.tokens <= rateLimit * (Second + (st.lastFill - st.start))
      BY DEF BucketInv, Conserved
    <2>3. rateLimit * (Second + (st.lastFill - st.start))
              <= rateLimit * (Second + (clock - st.start))
      BY <2>1, ProductGrows, StreamAssumption
    <2>4. /\ st.taken * Second \in Int
          /\ rateLimit * (Second + (st.lastFill - st.start)) \in Int
          /\ rateLimit * (Second + (clock - st.start)) \in Int
      BY <2>1, StreamAssumption
    <2> QED BY <2>1, <2>2, <2>3, <2>4
  <1> QED BY <1>1, TypeInit, TypeStep, BucketInit, BucketStep, PTL DEF StreamSpec

-----------------------------------------------------------------------------
(* The line of a stream: what its handler was called with, what it holds   *)
(* and what is still on the wire, in the order in which it was sent.  At   *)
(* most one end of one line changes in a step.                             *)
Held(s) == IF streams[s].handler = "handle" THEN <<streams[s].held>> ELSE <<>>
Received(s) == applied[s] \o Held(s)
Lines == [s \in StreamIds |-> Received(s) \o streams[s].wire]

LEMMA AppendToConcat ==
    ASSUME NEW S, NEW a \in Seq(S), NEW b \in Seq(S), NEW m \in S
    PROVE  a \o Append(b, m) = Append(a \o b, m)
  OBVIOUS

LEMMA HeadToFront ==
    ASSUME NEW S, NEW a \in Seq(S), NEW b \in Seq(S), b # <<>>
    PROVE  (a \o <<Head(b)>>) \o Tail(b) = a \o b
  OBVIOUS

LEMMA NothingAdded ==
    ASSUME NEW S, NEW a \in Seq(S)
    PROVE  a \o <<>> = a
  OBVIOUS

LEMMA CutOfConcat ==
    ASSUME NEW S, NEW a \in Seq(S), NEW b \in Seq(S), NEW n \in 0 .. Len(b)
    PROVE  /\ a \o SubSeq(b, 1, n) = SubSeq(a \o b, 1, Len(a) + n)
           /\ Len(a) + n \in Len(a) .. Len(a \o b)
  OBVIOUS

LEMMA LinesTyped ==
    ASSUME TypeInv
    PROVE  /\ Lines \in [StreamIds -> Seq(Messages)]
           /\ \A s \in StreamIds : /\ applied[s] \in Seq(Messages)
                                   /\ Held(s) \in Seq(Messages)
                                   /\ Received(s) \in Seq(Messages)
                                   /\ streams[s].wire \in Seq(Messages)
  <1> SUFFICES ASSUME NEW s \in StreamIds
               PROVE  /\ applied[s] \in Seq(Messages)
                      /\ Held(s) \in Seq(Messages)
                      /\ Received(s) \in Seq(Messages)
                      /\ streams[s].wire \in Seq(Messages)
                      /\ Received(s) \o streams[s].wire \in Seq(Messages)
    BY DEF Lines
  <1>1. applied[s] \in Seq(Messages) /\ streams[s] \in StreamRecords
    BY DEF TypeInv, StreamTypeOK
  <1>2. streams[s].wire \in Seq(Messages) /\ streams[s].held \in Messages
    BY <1>1 DEF StreamRecords
  <1>3. Held(s) \in Seq(Messages)
    BY <1>2 DEF Held
  <1>4. Received(s) \in Seq(Messages)
    BY <1>1, <1>3 DEF Received
  <1> QED BY <1>1, <1>2, <1>3, <1>4

(* A step that leaves the wires and the handlers' messages alone *)
LEMMA LinesKept ==
    ASSUME TypeInv, applied' = applied,
           \A s \in StreamIds : /\ streams'[s].wire = streams[s].wire
                                /\ Held(s)' = Held(s)
    PROVE  Lines' = Lines
  BY DEF Lines, Received

(* What a handler has received stays when its message and applied do *)
LEMMA ReceivedKept ==
    ASSUME NEW s \in StreamIds, applied'[s] = applied[s],
           streams'[s].handler = "handle" <=> streams[s].handler = "handle",
           streams[s].handler = "handle" => streams'[s].held = streams[s].held
    PROVE  Received(s)' = Received(s)
  <1>1. CASE streams[s].handler = "handle"
    BY <1>1 DEF Received, Held
  <1>2. CASE streams[s].handler # "handle"
    BY <1>2 DEF Received, Held
  <1> QED BY <1>1, <1>2

LEMMA LineAt == \A s \in StreamIds : Lines[s] = Received(s) \o streams[s].wire
  BY DEF Lines

LEMMA LineAtNext == \A s \in StreamIds : Lines'[s] = Received(s)' \o streams'[s].wire
  BY DEF Lines

LEMMA LinesDomain ==
    ASSUME NEW s \in StreamIds, NEW line, Lines'[s] = line,
           \A t \in StreamIds : t # s => Lines'[t] = Lines[t]
    PROVE  Lines' = [Lines EXCEPT ![s] = line]
  BY DEF Lines

(* SendResumed and Send on a stream that is up *)
LEMMA LineExtended ==
    ASSUME TypeInv, sender \in {"resume", "send"}, NEW m \in Messages,
           streams' = Sent(m), Live.up, applied' = applied
    PROVE  /\ Lines' = [Lines EXCEPT ![current] = Append(@, m)]
           /\ \A s \in StreamIds : streams'[s].up = streams[s].up
  <1>1. current \in StreamIds /\ streams \in [StreamIds -> StreamRecords]
    BY DEF TypeInv, StreamTypeOK, SenderHasStream
  <1>2. streams' = [streams EXCEPT ![current].wire = Append(@, m)]
    BY DEF Sent
  <1>3. \A s \in StreamIds : /\ streams'[s].up = streams[s].up
                             /\ streams'[s].handler = streams[s].handler
                             /\ streams'[s].held = streams[s].held
    BY <1>1, <1>2 DEF StreamRecords
  <1>4. streams'[current].wire = Append(streams[current].wire, m)
    BY <1>1, <1>2 DEF StreamRecords
  <1>5. \A s \in StreamIds : s # current => streams'[s].wire = streams[s].wire
    BY <1>1, <1>2
  <1>6. \A s \in StreamIds : Received(s)' = Received(s)
    BY <1>3, ReceivedKept
  <1>7. Received(current) \o Append(streams[current].wire, m)
            = Append(Received(current) \o streams[current].wire, m)
    BY <1>1, LinesTyped, AppendToConcat
  <1>8. Lines'[current] = Append(Lines[current], m)
    BY <1>1, <1>4, <1>6, <1>7, LineAt, LineAtNext
  <1>9. \A s \in StreamIds : s # current => Lines'[s] = Lines[s]
    BY <1>5, <1>6, LineAt, LineAtNext
  <1> QED BY <1>1, <1>3, <1>8, <1>9, LinesDomain

(* A step that drops a part of one wire from its end *)
LEMMA LineCut ==
    ASSUME TypeInv, NEW s \in StreamIds, NEW n \in 0 .. Len(streams[s].wire),
           NEW st, streams' = [streams EXCEPT ![s] = st], applied' = applied,
           st.wire = SubSeq(streams[s].wire, 1, n),
           streams[s].handler = "handle" <=> st.handler = "handle",
           streams[s].handler = "handle" => st.held = streams[s].held
    PROVE  \E k \in Len(Received(s)) .. Len(Lines[s]) :
              Lines' = [Lines EXCEPT ![s] = SubSeq(@, 1, k)]
  <1>1. streams \in [StreamIds -> StreamRecords]
    BY DEF TypeInv, StreamTypeOK
  <1>2. streams'[s] = st /\ \A t \in StreamIds : t # s => streams'[t] = streams[t]
    BY <1>1
  <1>3. \A t \in StreamIds : Received(t)' = Received(t)
    BY <1>2, ReceivedKept
  <1>4. \A t \in StreamIds : t # s => Lines'[t] = Lines[t]
    BY <1>2, <1>3, LineAt, LineAtNext
  <1> DEFINE k == Len(Received(s)) + n
             w == streams[s].wire
  <1>5. /\ Received(s) \o SubSeq(w, 1, n) = SubSeq(Received(s) \o w, 1, k)
        /\ k \in Len(Received(s)) .. Len(Received(s) \o w)
    BY LinesTyped, CutOfConcat
  <1> HIDE DEF k
  <1>6. Lines'[s] = SubSeq(Lines[s], 1, k) /\ k \in Len(Received(s)) .. Len(Lines[s])
    BY <1>2, <1>3, <1>5, LineAt, LineAtNext
  <1>7. Lines' = [Lines EXCEPT ![s] = SubSeq(@, 1, k)]
    BY <1>4, <1>6, LinesDomain
  <1> QED BY <1>6, <1>7

(* Recv takes a message that the bucket lets through *)
LEMMA RecvKeepsLines ==
    ASSUME TypeInv, NEW s \in StreamIds, Recv(s), Allow(streams[s])
    PROVE  Lines' = Lines /\ \A t \in StreamIds : streams'[t].up = streams[t].up
  <1> DEFINE st  == streams[s]
             got == [st EXCEPT !.wire = Tail(@), !.held = Head(st.wire), !.handler = "handle"]
             new == IF rateLimit = 0 THEN got ELSE Charged(got)
  <1>1. st \in StreamRecords /\ streams \in [StreamIds -> StreamRecords]
    BY DEF TypeInv, StreamTypeOK
  <1>2. /\ new.wire = Tail(st.wire) /\ new.held = Head(st.wire) /\ new.handler = "handle"
        /\ new.up = st.up
    BY <1>1 DEF Charged, StreamRecords
  <1>3. streams' = [streams EXCEPT ![s] = new] /\ applied' = applied
    BY DEF Recv
  <1>4. st.handler = "recv" /\ st.wire # <<>>
    BY DEF Recv
  <1> HIDE DEF new
  <1>5. streams'[s] = new /\ \A t \in StreamIds : t # s => streams'[t] = streams[t]
    BY <1>1, <1>3
  <1>6. \A t \in StreamIds : t # s => Lines'[t] = Lines[t]
    <2>1. \A t \in StreamIds : t # s => Received(t)' = Received(t)
      BY <1>3, <1>5, ReceivedKept
    <2> QED BY <1>5, <2>1, LineAt, LineAtNext
  <1>7. Lines'[s] = Lines[s]
    <2>1. Received(s) = applied[s]
      BY <1>4, LinesTyped, NothingAdded DEF Received, Held
    <2>2. Received(s)' = applied[s] \o <<Head(st.wire)>>
      BY <1>2, <1>3, <1>5 DEF Received, Held
    <2>3. streams'[s].wire = Tail(st.wire)
      BY <1>2, <1>5
    <2>4. (applied[s] \o <<Head(st.wire)>>) \o Tail(st.wire) = applied[s] \o st.wire
      BY <1>4, LinesTyped, HeadToFront
    <2> QED BY <2>1, <2>2, <2>3, <2>4, LineAt, LineAtNext
  <1>8. Lines' = [Lines EXCEPT ![s] = Lines[s]]
    BY <1>6, <1>7, LinesDomain
  <1> QED BY <1>2, <1>5, <1>8 DEF Lines

(* Handle appends the message it holds to what was applied *)
LEMMA HandleKeepsLines ==
    ASSUME TypeInv, NEW s \in StreamIds, Handle(s)
    PROVE  /\ Lines' = Lines
           /\ \A t \in StreamIds : streams'[t].up = streams[t].up
           /\ applied' = [applied EXCEPT ![s] = Received(s)]
  <1>1. streams \in [StreamIds -> StreamRecords] /\ applied \in [StreamIds -> Seq(Messages)]
    BY DEF TypeInv, StreamTypeOK
  <1>2. streams[s].handler = "handle" /\ streams[s].held \in Messages
    BY <1>1 DEF Handle, StreamRecords
  <1>3. /\ streams'[s].handler = "recv" /\ streams'[s].wire = streams[s].wire
        /\ streams'[s].up = streams[s].up
        /\ \A t \in StreamIds : t # s => streams'[t] = streams[t]
    BY <1>1 DEF Handle, StreamRecords
  <1>4. applied'[s] = Append(applied[s], streams[s].held) /\ \A t \in StreamIds : t # s => applied'[t] = applied[t]
    BY <1>1 DEF Handle
  <1>5. Received(s) = Append(applied[s], streams[s].held)
    BY <1>1, <1>2 DEF Received, Held
  <1>6. Received(s)' = Received(s)
    <2>1. Append(applied[s], streams[s].held) \in Seq(Messages)
      BY <1>1, <1>2
    <2>2. Received(s)' = Append(applied[s], streams[s].held) \o <<>>
      BY <1>3, <1>4 DEF Received, Held
    <2> QED BY <1>5, <2>1, <2>2, NothingAdded
  <1>7. \A t \in StreamIds : Lines'[t] = Lines[t]
    BY <1>3, <1>4, <1>6 DEF Lines, Received, Held
  <1>8. applied' = [applied EXCEPT ![s] = Received(s)]
    BY <1>1, <1>5 DEF Handle
  <1> QED BY <1>3, <1>7, <1>8 DEF Lines

-----------------------------------------------------------------------------
(* The order of events on the lines and in the channel *)

(* Streams that are not open yet have nothing *)
Unused == \A s \in StreamIds : s > current => Lines[s] = <<>> /\ ~streams[s].up

(* STREAM_RESUMED is the first message of a line, and no other is one *)
LinesMarked ==
    \A s \in StreamIds : \A i \in 1 .. Len(Lines[s]) : Lines[s][i] = RESUMED <=> i = 1

(* Events follow only after it was sent, or go nowhere *)
SenderMarks ==
    /\ sender = "resume" => Lines[current] = <<>>
    /\ sender = "send" /\ streams[current].up => Lines[current] # <<>>

(* The channel holds the newest of the accepted events, in order *)
ChannelOrdered ==
    /\ \A i, j \in 1 .. Len(queue) : i < j => queue[i] < queue[j]
    /\ \A i \in 1 .. Len(queue) : queue[i] \in accepted
    /\ \A e \in accepted : e <= produced
    /\ \A e \in accepted, i \in 1 .. Len(queue) :
          queue[i] <= e => \E j \in 1 .. Len(queue) : queue[j] = e

(* A line holds accepted events in order and leaves none out *)
LineOrdered(line) ==
    /\ \A i \in 1 .. Len(line) : line[i] >= i - 1
    /\ \A i \in 2 .. Len(line) : line[i] \in accepted
    /\ \A i, j \in 2 .. Len(line) : i < j => line[i] < line[j]
    /\ \A i \in 2 .. Len(line) - 1, e \in accepted : ~(line[i] < e /\ e < line[i + 1])
    /\ \A i \in 2 .. Len(line), j \in 1 .. Len(queue) : line[i] < queue[j]

(* Events of an earlier stream are older than those of a later one *)
LinesOrdered ==
    \A s, t \in StreamIds : s < t =>
        \A i \in 2 .. Len(Lines[s]), j \in 2 .. Len(Lines[t]) : Lines[s][i] < Lines[t][j]

(* Nothing is missing between the line of a stream that is up and the      *)
(* channel                                                                 *)
MeetsChannel ==
    (current \in StreamIds /\ streams[current].up /\ Len(Lines[current]) >= 2) =>
        \A e \in accepted : Lines[current][Len(Lines[current])] < e =>
            \E j \in 1 .. Len(queue) : queue[j] = e

OrderInv ==
    /\ Unused
    /\ LinesMarked
    /\ SenderMarks
    /\ ChannelOrdered
    /\ \A s \in StreamIds : LineOrdered(Lines[s])
    /\ LinesOrdered
    /\ MeetsChannel

(* What a step may do to the lines and the channel *)
StaysDown == \A s \in StreamIds : streams'[s].up => streams[s].up
SenderCalm ==
    /\ sender' = "resume" => sender = "resume"
    /\ sender' = "send" => sender = "send" \/ ~streams[current].up

Quiet ==
    /\ Lines' = Lines
    /\ UNCHANGED <<queue, accepted, produced, current>>
    /\ StaysDown /\ SenderCalm

Opened ==
    /\ Lines' = Lines
    /\ UNCHANGED <<queue, accepted, produced>>
    /\ current' = current + 1 /\ current' \in StreamIds
    /\ sender' = "resume"
    /\ \A s \in StreamIds : s # current' => streams'[s].up = streams[s].up

Offered ==
    /\ Lines' = Lines
    /\ produced' = produced + 1 /\ produced + 1 \in Events
    /\ \/ /\ queue' = Append(queue, produced + 1)
          /\ accepted' = accepted \cup {produced + 1}
       \/ UNCHANGED <<queue, accepted>>
    /\ UNCHANGED <<current, sender, streams>>

SentOn(m) ==
    /\ current \in StreamIds /\ streams[current].up
    /\ Lines' = [Lines EXCEPT ![current] = Append(@, m)]
    /\ UNCHANGED <<accepted, produced, current>>
    /\ StaysDown /\ sender' = "send"

ResumedSent == sender = "resume" /\ SentOn(RESUMED) /\ UNCHANGED queue

EventSent ==
    /\ sender = "send" /\ queue # <<>>
    /\ SentOn(Head(queue))
    /\ queue' = Tail(queue)

EventDropped ==
    /\ Lines' = Lines
    /\ current \in StreamIds /\ ~streams[current].up
    /\ queue # <<>> /\ queue' = Tail(queue)
    /\ UNCHANGED <<accepted, produced, current>>
    /\ StaysDown /\ SenderCalm

CutOff(s, k) ==
    /\ k \in Len(Received(s)) .. Len(Lines[s])
    /\ Lines' = [Lines EXCEPT ![s] = SubSeq(@, 1, k)]
    /\ UNCHANGED <<queue, accepted, produced, current>>
    /\ ~streams'[s].up
    /\ StaysDown /\ SenderCalm

LineStep ==
    \/ Quiet \/ Opened \/ Offered \/ ResumedSent \/ EventSent \/ EventDropped
    \/ \E s \in StreamIds : \E k \in Nat : CutOff(s, k)

(* Breaking a stream, by the network or by the sender that shuts down *)
LEMMA CutIsLineStep ==
    ASSUME TypeInv, NEW s \in StreamIds, NEW n \in 0 .. Len(streams[s].wire),
           streams' = Cut(s, n), SenderCalm,
           UNCHANGED <<applied, queue, accepted, produced, current>>
    PROVE  LineStep
  <1> DEFINE st == [streams[s] EXCEPT !.up = FALSE, !.wire = SubSeq(@, 1, n)]
  <1>1. streams \in [StreamIds -> StreamRecords]
    BY DEF TypeInv, StreamTypeOK
  <1>2. /\ st.wire = SubSeq(streams[s].wire, 1, n) /\ st.handler = streams[s].handler
        /\ st.held = streams[s].held /\ st.up = FALSE
    BY <1>1 DEF StreamRecords
  <1>3. streams' = [streams EXCEPT ![s] = st]
    BY DEF Cut
  <1> HIDE DEF st
  <1>c. /\ streams[s].handler = "handle" <=> st.handler = "handle"
        /\ streams[s].handler = "handle" => st.held = streams[s].held
        /\ applied' = applied
    BY <1>2
  <1>4. PICK k \in Len(Received(s)) .. Len(Lines[s]) : Lines' = [Lines EXCEPT ![s] = SubSeq(@, 1, k)]
    <2>1. st.wire = SubSeq(streams[s].wire, 1, n)
      BY <1>2
    <2> QED BY <1>3, <1>c, <2>1, LineCut
  <1>5. StaysDown /\ ~streams'[s].up
    BY <1>1, <1>2, <1>3 DEF StaysDown
  <1>6. k \in Nat
    BY <1>4, LinesTyped
  <1> QED BY <1>4, <1>5, <1>6 DEF LineStep, CutOff

(* A handler that returns *)
LEMMA ReturnIsLineStep ==
    ASSUME TypeInv, NEW s \in StreamIds, NEW st, streams' = [streams EXCEPT ![s] = st],
           st.wire = <<>>, st.handler = "done", ~st.up, streams[s].handler = "recv",
           sender' = sender, UNCHANGED <<applied, queue, accepted, produced, current>>
    PROVE  LineStep
  <1>1. streams \in [StreamIds -> StreamRecords]
    BY DEF TypeInv, StreamTypeOK
  <1>2. streams[s].wire \in Seq(Messages)
    BY LinesTyped
  <1>3. 0 \in 0 .. Len(streams[s].wire) /\ st.wire = SubSeq(streams[s].wire, 1, 0)
    BY <1>2
  <1>4. PICK k \in Len(Received(s)) .. Len(Lines[s]) : Lines' = [Lines EXCEPT ![s] = SubSeq(@, 1, k)]
    BY <1>3, LineCut
  <1>5. StaysDown /\ ~streams'[s].up
    BY <1>1 DEF StaysDown
  <1>6. k \in Nat
    BY <1>4, LinesTyped
  <1> QED BY <1>4, <1>5, <1>6 DEF LineStep, CutOff, SenderCalm

LEMMA SendIsLineStep ==
    ASSUME TypeInv, Send
    PROVE  LineStep
  <1>1. current \in StreamIds /\ queue \in Seq(Events) /\ queue # <<>>
    BY DEF TypeInv, StreamTypeOK, SenderHasStream, Send
  <1>2. Head(queue) \in Messages
    BY <1>1, TailInSeq DEF Messages
  <1>3. CASE Live.up
    <2>1. Lines' = [Lines EXCEPT ![current] = Append(@, Head(queue))] /\ StaysDown
      BY <1>2, <1>3, LineExtended DEF Send, StaysDown
    <2> QED BY <1>1, <1>3, <2>1 DEF LineStep, EventSent, SentOn, Send, Live, Taken
  <1>4. CASE ~Live.up
    <2>1. streams' = streams
      BY <1>4 DEF Send, Sent
    <2>2. Lines' = Lines
      BY <2>1, LinesKept DEF Send, Held
    <2> QED BY <1>1, <1>4, <2>1, <2>2
         DEF LineStep, EventDropped, Send, Live, Taken, StaysDown, SenderCalm
  <1> QED BY <1>3, <1>4

LEMMA ResumedIsLineStep ==
    ASSUME TypeInv, SendResumed
    PROVE  LineStep
  <1>1. current \in StreamIds /\ RESUMED \in Messages
    BY DEF TypeInv, StreamTypeOK, SenderHasStream, SendResumed, Messages
  <1>2. CASE Live.up
    <2>1. Lines' = [Lines EXCEPT ![current] = Append(@, RESUMED)] /\ StaysDown
      BY <1>1, <1>2, LineExtended DEF SendResumed, StaysDown
    <2> QED BY <1>1, <1>2, <2>1 DEF LineStep, ResumedSent, SentOn, SendResumed, Live
  <1>3. CASE ~Live.up
    <2>1. streams' = streams
      BY <1>3 DEF SendResumed, Sent
    <2>2. Lines' = Lines
      BY <2>1, LinesKept DEF SendResumed, Held
    <2> QED BY <1>3, <2>1, <2>2 DEF LineStep, Quiet, SendResumed, Live, StaysDown, SenderCalm
  <1> QED BY <1>2, <1>3

LEMMA ConnectIsLineStep ==
    ASSUME TypeInv, Unused, Connect
    PROVE  LineStep
  <1>0. PICK s \in StreamIds : s = current + 1
    BY DEF Connect
  <1>1. /\ streams \in [StreamIds -> StreamRecords]
        /\ s > current /\ s \in StreamIds
    BY <1>0, StreamAssumption DEF TypeInv, StreamTypeOK, StreamIds
  <1>2. Lines[s] = <<>>
    BY <1>1 DEF Unused
  <1>3. /\ streams'[s].wire = <<>> /\ streams'[s].handler = "none"
        /\ \A t \in StreamIds : t # s => streams'[t] = streams[t]
        /\ applied' = applied
    BY <1>0, <1>1 DEF Connect, Unopened
  <1>4. Lines'[s] = <<>>
    <2>1. applied[s] = <<>>
      <3>1. /\ applied[s] \in Seq(Messages) /\ Held(s) \in Seq(Messages)
            /\ streams[s].wire \in Seq(Messages)
        BY <1>1, LinesTyped
      <3>2. (applied[s] \o Held(s)) \o streams[s].wire = <<>>
        BY <1>1, <1>2, LineAt DEF Received
      <3>3. \A a, b, c \in Seq(Messages) : (a \o b) \o c = <<>> => a = <<>>
        OBVIOUS
      <3> QED BY <3>1, <3>2, <3>3
    <2>2. Received(s)' = <<>> \o <<>>
      BY <1>3, <2>1 DEF Received, Held
    <2>3. Lines'[s] = (<<>> \o <<>>) \o <<>>
      BY <1>1, <1>3, <2>2, LineAtNext
    <2> QED BY <2>3
  <1>5. \A t \in StreamIds : t # s => Lines'[t] = Lines[t]
    BY <1>3, ReceivedKept, LineAt, LineAtNext
  <1>6. Lines' = Lines
    BY <1>2, <1>4, <1>5 DEF Lines
  <1> QED BY <1>0, <1>1, <1>3, <1>6 DEF LineStep, Opened, Connect, AfterConnect

LEMMA EveryStepIsLineStep ==
    ASSUME TypeInv, Unused, [StreamNext]_streamVars
    PROVE  LineStep
  <1>0. /\ streams \in [StreamIds -> StreamRecords]
        /\ sender \in {"connect", "wait", "resume", "send", "stopped"}
    BY DEF TypeInv, StreamTypeOK
  <1>u. ASSUME UNCHANGED <<streams, applied>>
        PROVE  Lines' = Lines /\ StaysDown
    BY <1>u, LinesKept DEF StaysDown, Held
  <1>1. CASE Produce
    <2>1. Lines' = Lines
      BY <1>1, <1>u DEF Produce
    <2>2. produced + 1 \in Events
      BY <1>1, StreamAssumption DEF Produce, TypeInv, StreamTypeOK, Events
    <2>3. \/ queue' = Append(queue, produced + 1) /\ accepted' = accepted \cup {produced + 1}
          \/ UNCHANGED <<queue, accepted>>
      <3>1. queue \in Seq(Events)
        BY DEF TypeInv, StreamTypeOK
      <3>2. Append(queue, produced + 1) # queue
        <4>1. Len(Append(queue, produced + 1)) = Len(queue) + 1 /\ Len(queue) \in Nat
          BY <2>2, <3>1
        <4> QED BY <4>1
      <3> QED BY <1>1, <3>2 DEF Produce, Enqueue
    <2> QED BY <1>1, <2>1, <2>2, <2>3 DEF Produce, LineStep, Offered
  <1>2. CASE ConnectFails \/ Wait \/ Tick \/ UNCHANGED streamVars
    BY <1>2, <1>u DEF ConnectFails, Wait, Tick, streamVars, LineStep, Quiet, SenderCalm
  <1>3. CASE SendFails
    <2>1. current \in StreamIds
      BY <1>3 DEF SendFails, TypeInv, StreamTypeOK, SenderHasStream
    <2> QED BY <1>3, <1>u, <2>1 DEF SendFails, Taken, Live, LineStep, EventDropped, SenderCalm
  <1>4. CASE Shutdown
    <2>1. CASE sender = "send"
      <3>1. current \in StreamIds
        BY <2>1 DEF TypeInv, StreamTypeOK, SenderHasStream
      <3>2. PICK n \in 0 .. Len(streams[current].wire) : streams' = Cut(current, n)
        BY <1>4, <2>1 DEF Shutdown, Live
      <3> QED BY <1>4, <3>1, <3>2, CutIsLineStep DEF Shutdown, SenderCalm
    <2>2. CASE sender # "send"
      BY <1>4, <1>u, <2>2 DEF Shutdown, LineStep, Quiet, SenderCalm
    <2> QED BY <2>1, <2>2
  <1>5. ASSUME NEW s \in StreamIds, Start(s)
        PROVE  LineStep
    <2>1. \A t \in StreamIds : /\ streams'[t].wire = streams[t].wire
                               /\ streams'[t].up = streams[t].up
                               /\ streams'[t].handler = "handle" <=> streams[t].handler = "handle"
                               /\ streams'[t].held = streams[t].held
      BY <1>0, <1>5 DEF Start, StreamRecords
    <2>2. \A t \in StreamIds : Received(t)' = Received(t)
      BY <1>5, <2>1, ReceivedKept DEF Start
    <2>3. Lines' = Lines
      BY <2>1, <2>2 DEF Lines
    <2> QED BY <1>5, <2>1, <2>3 DEF Start, LineStep, Quiet, SenderCalm, StaysDown
  <1>6. ASSUME NEW s \in StreamIds, Recv(s)
        PROVE  LineStep
    <2>1. CASE Allow(streams[s])
      <3>1. Lines' = Lines /\ StaysDown
        BY <1>6, <2>1, RecvKeepsLines DEF StaysDown
      <3> QED BY <1>6, <3>1 DEF Recv, LineStep, Quiet, SenderCalm
    <2>2. CASE ~Allow(streams[s])
      <3> DEFINE st == Refused(streams[s])
      <3>1. streams' = [streams EXCEPT ![s] = st]
        BY <1>6, <2>2 DEF Recv
      <3>2. st.wire = <<>> /\ st.handler = "done" /\ ~st.up
        BY <1>0 DEF Refused, StreamRecords
      <3> HIDE DEF st
      <3> QED BY <1>6, <3>1, <3>2, ReturnIsLineStep DEF Recv
    <2> QED BY <2>1, <2>2
  <1>7. ASSUME NEW s \in StreamIds, Handle(s)
        PROVE  LineStep
    <2>1. Lines' = Lines /\ StaysDown
      BY <1>7, HandleKeepsLines DEF StaysDown
    <2> QED BY <1>7, <2>1 DEF Handle, LineStep, Quiet, SenderCalm
  <1>8. ASSUME NEW s \in StreamIds, RecvFails(s)
        PROVE  LineStep
    <2> DEFINE st == [streams[s] EXCEPT !.handler = "done", !.wire = <<>>]
    <2>1. streams' = [streams EXCEPT ![s] = st]
      BY <1>8 DEF RecvFails
    <2>2. st.wire = <<>> /\ st.handler = "done" /\ ~st.up
      BY <1>0, <1>8 DEF RecvFails, StreamRecords
    <2> HIDE DEF st
    <2> QED BY <1>8, <2>1, <2>2, ReturnIsLineStep DEF RecvFails
  <1>9. ASSUME NEW s \in StreamIds, Break(s)
        PROVE  LineStep
    <2>1. PICK n \in 0 .. Len(streams[s].wire) : streams' = Cut(s, n)
      BY <1>9 DEF Break
    <2> QED BY <1>9, <2>1, CutIsLineStep DEF Break, SenderCalm
  <1> QED
    BY <1>1, <1>2, <1>3, <1>4, <1>5, <1>6, <1>7, <1>8, <1>9,
       SendIsLineStep, ResumedIsLineStep, ConnectIsLineStep
    DEF StreamNext, Sender, StreamEvents

LEMMA OrderInit == StreamInit => OrderInv
  <1> SUFFICES ASSUME StreamInit PROVE OrderInv
    OBVIOUS
  <1>1. \A s \in StreamIds : Lines[s] = (<<>> \o <<>>) \o <<>> /\ ~streams[s].up
    BY DEF StreamInit, Lines, Received, Held, Unopened
  <1>2. \A s \in StreamIds : Lines[s] = <<>> /\ ~streams[s].up
    BY <1>1
  <1>3. \A s \in StreamIds : Len(Lines[s]) = 0
    BY <1>2
  <1>4. Len(queue) = 0 /\ accepted = {} /\ current = 0 /\ sender = "connect" /\ 0 \notin StreamIds
    BY DEF StreamInit, StreamIds
  <1>5. Unused /\ LinesMarked /\ SenderMarks
    BY <1>2, <1>3, <1>4 DEF Unused, LinesMarked, SenderMarks
  <1>6. ChannelOrdered /\ LinesOrdered /\ MeetsChannel
    BY <1>3, <1>4 DEF ChannelOrdered, LinesOrdered, MeetsChannel
  <1>7. \A s \in StreamIds : LineOrdered(Lines[s])
    BY <1>3, <1>4 DEF LineOrdered
  <1> QED BY <1>5, <1>6, <1>7 DEF OrderInv

(* Types the order is about *)
LEMMA OrderTypes ==
    ASSUME TypeInv
    PROVE  /\ StreamIds \subseteq Int /\ Messages \subseteq Int /\ Events \subseteq Messages
           /\ current \in Int /\ produced \in Int
           /\ queue \in Seq(Messages) /\ accepted \subseteq Int
           /\ Lines \in [StreamIds -> Seq(Messages)]
           /\ 0 \notin Events
  <1>1. StreamIds \subseteq Int /\ Messages \subseteq Int /\ Events \subseteq Messages /\ 0 \notin Events
    BY StreamAssumption DEF StreamIds, Messages, Events, RESUMED
  <1>2. queue \in Seq(Messages) /\ accepted \subseteq Int /\ current \in Int /\ produced \in Int
    <2>1. queue \in Seq(Events) /\ accepted \subseteq Events
      BY DEF TypeInv, StreamTypeOK
    <2>2. current \in Int /\ produced \in Int
      BY <1>1, StreamAssumption DEF TypeInv, StreamTypeOK
    <2>3. queue \in Seq(Messages)
      BY <1>1, <2>1, SeqMonotonic
    <2> QED BY <1>1, <2>1, <2>2, <2>3
  <1> QED BY <1>1, <1>2, LinesTyped

(* Nothing on the lines or in the channel changes, except for what is up *)
LEMMA QuietKeepsOrder ==
    ASSUME TypeInv, TypeInv', OrderInv, Quiet
    PROVE  OrderInv'
  <1>0. Lines' = Lines /\ queue' = queue /\ accepted' = accepted /\ produced' = produced /\ current' = current
    BY DEF Quiet
  <1>1. Unused'
    BY <1>0 DEF OrderInv, Unused, Quiet, StaysDown
  <1>2. SenderMarks'
    <2>1. CASE current \in StreamIds
      BY <1>0, <2>1 DEF OrderInv, SenderMarks, Quiet, StaysDown, SenderCalm
    <2>2. CASE current \notin StreamIds
      <3>1. sender' \notin {"resume", "send"}
        BY <1>0, <2>2 DEF TypeInv, SenderHasStream, StreamTypeOK
      <3> QED BY <3>1 DEF SenderMarks
    <2> QED BY <2>1, <2>2
  <1>3. MeetsChannel'
    BY <1>0 DEF OrderInv, MeetsChannel, Quiet, StaysDown
  <1>4. LinesMarked' /\ ChannelOrdered' /\ LinesOrdered' /\ \A s \in StreamIds : LineOrdered(Lines[s])'
    BY <1>0 DEF OrderInv, LinesMarked, ChannelOrdered, LinesOrdered, LineOrdered
  <1> QED BY <1>1, <1>2, <1>3, <1>4 DEF OrderInv

(* A new stream has an empty line *)
LEMMA OpenedKeepsOrder ==
    ASSUME TypeInv, OrderInv, Opened
    PROVE  OrderInv'
  <1>0. Lines' = Lines /\ queue' = queue /\ accepted' = accepted /\ produced' = produced
    BY DEF Opened
  <1>1. /\ current' \in StreamIds /\ current' > current /\ current' = current + 1
        /\ current \in Int /\ StreamIds \subseteq Int
    BY OrderTypes DEF Opened
  <1>2. Lines[current'] = <<>>
    BY <1>1 DEF OrderInv, Unused
  <1>3. Unused'
    BY <1>0, <1>1 DEF OrderInv, Unused, Opened
  <1>4. SenderMarks'
    BY <1>0, <1>2 DEF SenderMarks, Opened
  <1>5. MeetsChannel'
    <2>1. Len(Lines'[current']) = 0
      BY <1>0, <1>2
    <2> QED BY <2>1 DEF MeetsChannel
  <1>6. LinesMarked' /\ ChannelOrdered' /\ LinesOrdered' /\ \A s \in StreamIds : LineOrdered(Lines[s])'
    BY <1>0 DEF OrderInv, LinesMarked, ChannelOrdered, LinesOrdered, LineOrdered
  <1> QED BY <1>3, <1>4, <1>5, <1>6 DEF OrderInv

(* A produced event is newer than all others *)
LEMMA OfferedKeepsOrder ==
    ASSUME TypeInv, OrderInv, Offered
    PROVE  OrderInv'
  <1>0. Lines' = Lines /\ produced' = produced + 1 /\ UNCHANGED <<current, sender, streams>>
    BY DEF Offered
  <1>1. Unused' /\ SenderMarks' /\ LinesMarked' /\ LinesOrdered'
    BY <1>0 DEF OrderInv, Unused, SenderMarks, LinesMarked, LinesOrdered
  <1>2. CASE UNCHANGED <<queue, accepted>>
    <2>1. ChannelOrdered'
      <3>1. \A e \in accepted : e <= produced'
        BY <1>0, OrderTypes DEF OrderInv, ChannelOrdered
      <3> QED BY <1>2, <3>1 DEF OrderInv, ChannelOrdered
    <2>2. MeetsChannel' /\ \A s \in StreamIds : LineOrdered(Lines[s])'
      BY <1>0, <1>2 DEF OrderInv, MeetsChannel, LineOrdered
    <2> QED BY <1>1, <2>1, <2>2 DEF OrderInv
  <1>3. CASE queue' = Append(queue, produced + 1) /\ accepted' = accepted \cup {produced + 1}
    <2> DEFINE e == produced + 1
    <2>1. /\ Len(queue') = Len(queue) + 1 /\ Len(queue) \in Nat
          /\ queue'[Len(queue) + 1] = e
          /\ \A i \in 1 .. Len(queue) : queue'[i] = queue[i] /\ queue[i] \in Int
      BY <1>3, OrderTypes DEF Offered
    <2>2. \A x \in accepted : x \in Int /\ x < e
      BY OrderTypes DEF OrderInv, ChannelOrdered
    <2>e. e \in Int /\ produced' = e
      BY <1>0, OrderTypes
    <2>3. ChannelOrdered'
      <3> HIDE DEF e
      <3>1. \A i, j \in 1 .. Len(queue') : i < j => queue'[i] < queue'[j]
        BY <2>1, <2>2 DEF OrderInv, ChannelOrdered
      <3>2. \A i \in 1 .. Len(queue') : queue'[i] \in accepted'
        BY <1>3, <2>1, <2>2 DEF OrderInv, ChannelOrdered, e
      <3>3. \A x \in accepted' : x <= produced'
        BY <1>3, <2>2, <2>e DEF e
      <3>4. \A x \in accepted', i \in 1 .. Len(queue') :
               queue'[i] <= x => \E j \in 1 .. Len(queue') : queue'[j] = x
        <4> SUFFICES ASSUME NEW x \in accepted', NEW i \in 1 .. Len(queue'), queue'[i] <= x
                     PROVE  \E j \in 1 .. Len(queue') : queue'[j] = x
          OBVIOUS
        <4>1. CASE x = e
          BY <2>1, <4>1
        <4>2. CASE x \in accepted
          <5>1. i \in 1 .. Len(queue)
            BY <2>1, <2>2, <2>e, <4>2
          <5>2. \E j \in 1 .. Len(queue) : queue[j] = x
            BY <2>1, <4>2, <5>1 DEF OrderInv, ChannelOrdered
          <5> QED BY <2>1, <5>2
        <4> QED BY <1>3, <4>1, <4>2 DEF e
      <3> QED BY <3>1, <3>2, <3>3, <3>4 DEF ChannelOrdered
    <2>4. ASSUME NEW s \in StreamIds
          PROVE  LineOrdered(Lines[s])'
      <3> DEFINE line == Lines[s]
      <3>1. /\ line \in Seq(Messages) /\ Len(line) \in Nat /\ Lines'[s] = line
            /\ \A i \in 1 .. Len(line) : line[i] \in Int
        BY <1>0, OrderTypes
      <3>2. LineOrdered(line)
        BY DEF OrderInv
      <3> HIDE DEF line, e
      <3>3. \A i \in 2 .. Len(line) : line[i] \in accepted'
        BY <1>3, <3>1, <3>2 DEF LineOrdered
      <3>4. \A i \in 2 .. Len(line) - 1, x \in accepted' : ~(line[i] < x /\ x < line[i + 1])
        <4>1. \A i \in 2 .. Len(line) - 1 : line[i + 1] \in accepted /\ line[i + 1] < e
          BY <2>2, <3>1, <3>2 DEF LineOrdered
        <4>2. \A i \in 2 .. Len(line) - 1 : ~(e < line[i + 1])
          BY <2>2, <2>e, <4>1
        <4> QED BY <1>3, <3>2, <4>2 DEF LineOrdered, e
      <3>5. \A i \in 2 .. Len(line), j \in 1 .. Len(queue') : line[i] < queue'[j]
        <4>1. \A i \in 2 .. Len(line) : line[i] \in accepted
          BY <3>2 DEF LineOrdered
        <4>2. \A i \in 2 .. Len(line) : line[i] < e
          BY <2>2, <4>1
        <4>3. \A i \in 2 .. Len(line), j \in 1 .. Len(queue) : line[i] < queue'[j]
          BY <2>1, <3>2 DEF LineOrdered
        <4>4. \A j \in 1 .. Len(queue') : j \in 1 .. Len(queue) \/ j = Len(queue) + 1
          BY <2>1
        <4> QED BY <2>1, <4>2, <4>3, <4>4
      <3> QED BY <3>1, <3>2, <3>3, <3>4, <3>5 DEF LineOrdered
    <2>5. MeetsChannel'
      <3> SUFFICES ASSUME current \in StreamIds, streams[current].up, Len(Lines[current]) >= 2,
                          NEW x \in accepted', Lines[current][Len(Lines[current])] < x
                   PROVE  \E j \in 1 .. Len(queue') : queue'[j] = x
        BY <1>0 DEF MeetsChannel
      <3> HIDE DEF e
      <3>1. CASE x = e
        BY <2>1, <3>1
      <3>2. CASE x \in accepted
        <4>1. \E j \in 1 .. Len(queue) : queue[j] = x
          BY <3>2 DEF OrderInv, MeetsChannel
        <4> QED BY <2>1, <4>1
      <3> QED BY <1>3, <3>1, <3>2 DEF e
    <2> QED BY <1>1, <2>3, <2>4, <2>5 DEF OrderInv
  <1> QED BY <1>2, <1>3 DEF Offered

(* The first event leaves the channel *)
LEMMA ChannelTail ==
    ASSUME TypeInv, ChannelOrdered, queue # <<>>
    PROVE  LET rest == Tail(queue)
           IN  /\ Len(rest) = Len(queue) - 1 /\ Len(queue) \in Nat \ {0}
               /\ \A i \in 1 .. Len(rest) : rest[i] = queue[i + 1] /\ rest[i] \in Int
               /\ Head(queue) = queue[1] /\ Head(queue) \in accepted /\ Head(queue) \in Events
               /\ \A i \in 1 .. Len(rest) : Head(queue) < rest[i]
               /\ \A x \in accepted : Head(queue) < x => \E j \in 1 .. Len(rest) : rest[j] = x
               /\ \A i, j \in 1 .. Len(rest) : i < j => rest[i] < rest[j]
               /\ \A i \in 1 .. Len(rest) : rest[i] \in accepted
               /\ \A x \in accepted, i \in 1 .. Len(rest) :
                    rest[i] <= x => \E j \in 1 .. Len(rest) : rest[j] = x
  <1> DEFINE rest == Tail(queue)
  <1>1. /\ queue \in Seq(Events) /\ Len(queue) \in Nat \ {0} /\ Events \subseteq Int
        /\ accepted \subseteq Int
    BY OrderTypes DEF TypeInv, StreamTypeOK
  <1>2. /\ Len(rest) = Len(queue) - 1
        /\ \A i \in 1 .. Len(rest) : rest[i] = queue[i + 1] /\ rest[i] \in Int
        /\ Head(queue) = queue[1] /\ Head(queue) \in Events /\ Head(queue) \in Int
    <2>1. /\ queue # <<>> /\ Len(rest) = Len(queue) - 1
          /\ \A i \in 1 .. Len(rest) : rest[i] = queue[i + 1]
      BY <1>1, HeadTailProperties
    <2>2. \A i \in 1 .. Len(queue) : queue[i] \in Events
      BY <1>1
    <2>3. Head(queue) = queue[1] /\ 1 \in 1 .. Len(queue)
      BY <1>1
    <2>4. \A i \in 1 .. Len(rest) : i + 1 \in 1 .. Len(queue)
      BY <1>1, <2>1
    <2> QED BY <1>1, <2>1, <2>2, <2>3, <2>4
  <1> HIDE DEF rest
  <1>3. Head(queue) \in accepted
    BY <1>1, <1>2 DEF ChannelOrdered
  <1>4. \A i \in 1 .. Len(rest) : Head(queue) < rest[i]
    BY <1>1, <1>2 DEF ChannelOrdered
  <1>5. \A x \in accepted : Head(queue) < x => \E j \in 1 .. Len(rest) : rest[j] = x
    <2> SUFFICES ASSUME NEW x \in accepted, Head(queue) < x
                 PROVE  \E j \in 1 .. Len(rest) : rest[j] = x
      OBVIOUS
    <2>1. PICK j \in 1 .. Len(queue) : queue[j] = x
      BY <1>1, <1>2 DEF ChannelOrdered
    <2>2. j # 1
      BY <1>1, <1>2, <2>1
    <2>3. j - 1 \in 1 .. Len(rest) /\ rest[j - 1] = queue[j]
      BY <1>1, <1>2, <2>2
    <2> QED BY <2>1, <2>3
  <1>6. \A i, j \in 1 .. Len(rest) : i < j => rest[i] < rest[j]
    BY <1>1, <1>2 DEF ChannelOrdered
  <1>7. \A i \in 1 .. Len(rest) : rest[i] \in accepted
    BY <1>1, <1>2 DEF ChannelOrdered
  <1>8. \A x \in accepted, i \in 1 .. Len(rest) : rest[i] <= x => Head(queue) < x
    BY <1>1, <1>2, <1>4
  <1> QED BY <1>1, <1>2, <1>3, <1>4, <1>5, <1>6, <1>7, <1>8 DEF rest

LEMMA TailKeepsChannel ==
    ASSUME TypeInv, ChannelOrdered, queue # <<>>, queue' = Tail(queue),
           accepted' = accepted, produced' = produced
    PROVE  ChannelOrdered'
  <1> DEFINE rest == Tail(queue)
  <1>1. queue' = rest
    OBVIOUS
  <1>2. /\ \A i, j \in 1 .. Len(rest) : i < j => rest[i] < rest[j]
        /\ \A i \in 1 .. Len(rest) : rest[i] \in accepted
        /\ \A x \in accepted, i \in 1 .. Len(rest) :
                    rest[i] <= x => \E j \in 1 .. Len(rest) : rest[j] = x
    BY ChannelTail
  <1>3. \A e \in accepted : e <= produced
    BY DEF ChannelOrdered
  <1> HIDE DEF rest
  <1> QED BY <1>1, <1>2, <1>3 DEF ChannelOrdered

(* An event goes nowhere *)
LEMMA DroppedKeepsOrder ==
    ASSUME TypeInv, OrderInv, EventDropped
    PROVE  OrderInv'
  <1>0. Lines' = Lines /\ UNCHANGED <<accepted, produced, current>>
    BY DEF EventDropped
  <1>1. ~streams'[current'].up /\ current' \in StreamIds
    BY DEF EventDropped, StaysDown
  <1>2. Unused'
    BY <1>0 DEF OrderInv, Unused, EventDropped, StaysDown
  <1>3. SenderMarks'
    BY <1>0, <1>1 DEF OrderInv, SenderMarks, EventDropped, SenderCalm
  <1>4. MeetsChannel'
    BY <1>1 DEF MeetsChannel
  <1>5. LinesMarked' /\ LinesOrdered'
    BY <1>0 DEF OrderInv, LinesMarked, LinesOrdered
  <1>6. ChannelOrdered'
    BY TailKeepsChannel DEF OrderInv, EventDropped
  <1>7. ASSUME NEW s \in StreamIds
        PROVE  LineOrdered(Lines[s])'
    <2> DEFINE rest == Tail(queue)
    <2>1. /\ Len(rest) = Len(queue) - 1 /\ Len(queue) \in Nat \ {0} /\ queue' = rest
          /\ \A i \in 1 .. Len(rest) : rest[i] = queue[i + 1]
      BY ChannelTail DEF OrderInv, EventDropped
    <2> HIDE DEF rest
    <2>2. LineOrdered(Lines[s])
      BY DEF OrderInv
    <2>3. \A i \in 2 .. Len(Lines[s]), j \in 1 .. Len(rest) : Lines[s][i] < rest[j]
      BY <2>1, <2>2 DEF LineOrdered
    <2> QED BY <1>0, <2>1, <2>2, <2>3 DEF LineOrdered
  <1> QED BY <1>2, <1>3, <1>4, <1>5, <1>6, <1>7 DEF OrderInv

LEMMA AppendAt ==
    ASSUME NEW S, NEW a \in Seq(S), NEW m \in S
    PROVE  /\ Len(a) \in Nat
           /\ Len(Append(a, m)) = Len(a) + 1
           /\ Append(a, m)[Len(a) + 1] = m
           /\ \A i \in 1 .. Len(a) : Append(a, m)[i] = a[i] /\ a[i] \in S
  OBVIOUS

(* One line gets longer by a message at its end *)
LEMMA LongerLine ==
    ASSUME TypeInv, NEW s \in StreamIds, NEW m \in Messages,
           Lines' = [Lines EXCEPT ![s] = Append(@, m)]
    PROVE  /\ Len(Lines[s]) \in Nat
           /\ Len(Lines'[s]) = Len(Lines[s]) + 1
           /\ Lines'[s][Len(Lines[s]) + 1] = m
           /\ \A i \in 1 .. Len(Lines[s]) : Lines'[s][i] = Lines[s][i] /\ Lines[s][i] \in Int
           /\ \A t \in StreamIds : t # s => Lines'[t] = Lines[t]
  <1>1. Lines \in [StreamIds -> Seq(Messages)] /\ Messages \subseteq Int
    BY OrderTypes
  <1>2. Lines'[s] = Append(Lines[s], m) /\ \A t \in StreamIds : t # s => Lines'[t] = Lines[t]
    BY <1>1
  <1>3. Lines[s] \in Seq(Messages)
    BY <1>1
  <1> DEFINE a == Lines[s]
  <1>4. /\ Len(a) \in Nat
        /\ Len(Append(a, m)) = Len(a) + 1
        /\ Append(a, m)[Len(a) + 1] = m
        /\ \A i \in 1 .. Len(a) : Append(a, m)[i] = a[i] /\ a[i] \in Messages
    BY <1>3, AppendAt
  <1> HIDE DEF a
  <1>5. Lines'[s] = Append(a, m)
    BY <1>2 DEF a
  <1>6. /\ Len(Lines'[s]) = Len(a) + 1
        /\ Lines'[s][Len(a) + 1] = m
        /\ \A i \in 1 .. Len(a) : Lines'[s][i] = a[i] /\ a[i] \in Int
    BY <1>1, <1>4, <1>5
  <1> QED BY <1>2, <1>4, <1>6 DEF a

LEMMA ResumedKeepsOrder ==
    ASSUME TypeInv, OrderInv, ResumedSent
    PROVE  OrderInv'
  <1>0. /\ current \in StreamIds /\ StreamIds \subseteq Int /\ RESUMED \in Messages
        /\ UNCHANGED <<queue, accepted, produced, current>>
    BY OrderTypes DEF ResumedSent, SentOn, Messages
  <1>1. Lines[current] = <<>>
    BY DEF OrderInv, SenderMarks, ResumedSent
  <1>2. /\ Len(Lines'[current]) = 1 /\ Lines'[current][1] = RESUMED
        /\ \A t \in StreamIds : t # current => Lines'[t] = Lines[t]
    <2>1. Lines' = [Lines EXCEPT ![current] = Append(@, RESUMED)]
      BY DEF ResumedSent, SentOn
    <2>2. Len(Lines[current]) = 0
      BY <1>1
    <2>3. /\ Len(Lines'[current]) = Len(Lines[current]) + 1
          /\ Lines'[current][Len(Lines[current]) + 1] = RESUMED
          /\ \A t \in StreamIds : t # current => Lines'[t] = Lines[t]
      BY <1>0, <2>1, LongerLine
    <2>4. Len(Lines[current]) + 1 = 1
      BY <2>2
    <2> QED BY <2>3, <2>4
  <1>3. Unused'
    BY <1>0, <1>2 DEF OrderInv, Unused, ResumedSent, SentOn, StaysDown
  <1>4. LinesMarked'
    BY <1>2 DEF OrderInv, LinesMarked
  <1>5. SenderMarks'
    <2>1. Lines'[current] # <<>>
      BY <1>2
    <2> QED BY <1>0, <2>1 DEF SenderMarks, ResumedSent, SentOn
  <1>6. ChannelOrdered'
    BY <1>0 DEF OrderInv, ChannelOrdered
  <1>7. ASSUME NEW s \in StreamIds
        PROVE  LineOrdered(Lines[s])'
    <2>1. CASE s = current
      BY <1>2, <2>1 DEF LineOrdered, RESUMED
    <2>2. CASE s # current
      BY <1>0, <1>2, <2>2 DEF OrderInv, LineOrdered
    <2> QED BY <2>1, <2>2
  <1>8. LinesOrdered'
    <2>1. \A s \in StreamIds : Lines'[s] = Lines[s] \/ Len(Lines'[s]) = 1
      BY <1>2
    <2> QED BY <2>1 DEF OrderInv, LinesOrdered
  <1>9. MeetsChannel'
    BY <1>0, <1>2 DEF MeetsChannel
  <1> QED BY <1>3, <1>4, <1>5, <1>6, <1>7, <1>8, <1>9 DEF OrderInv

LEMMA SentKeepsOrder ==
    ASSUME TypeInv, OrderInv, EventSent
    PROVE  OrderInv'
  <1> DEFINE e == Head(queue)
             rest == Tail(queue)
             line == Lines[current]
             new == Lines'[current]
             n == Len(line)
  <1>0. /\ current \in StreamIds /\ StreamIds \subseteq Int /\ streams[current].up
        /\ UNCHANGED <<accepted, produced, current>> /\ queue' = rest
    BY OrderTypes DEF EventSent, SentOn
  <1>c. /\ Len(rest) = Len(queue) - 1 /\ Len(queue) \in Nat \ {0}
        /\ \A i \in 1 .. Len(rest) : rest[i] = queue[i + 1] /\ rest[i] \in Int
        /\ e = queue[1] /\ e \in accepted /\ e \in Events
        /\ \A i \in 1 .. Len(rest) : e < rest[i]
        /\ \A x \in accepted : e < x => \E j \in 1 .. Len(rest) : rest[j] = x
    BY ChannelTail DEF OrderInv, EventSent
  <1>e. e \in Int /\ e # RESUMED /\ e \in Messages /\ accepted \subseteq Int
    BY <1>c, OrderTypes DEF RESUMED
  <1>1. /\ n \in Nat /\ Len(new) = n + 1 /\ new[n + 1] = e
        /\ \A i \in 1 .. n : new[i] = line[i] /\ line[i] \in Int
        /\ \A t \in StreamIds : t # current => Lines'[t] = Lines[t]
    BY <1>0, <1>e, LongerLine DEF EventSent, SentOn
  <1>2. n >= 1
    <2>1. line # <<>> /\ line \in Seq(Messages)
      BY <1>0, OrderTypes DEF OrderInv, SenderMarks, EventSent
    <2> QED BY <2>1
  <1>l. LineOrdered(line)
    BY <1>0 DEF OrderInv
  <1>m. Lines'[current'] = new
    BY <1>0
  <1> HIDE DEF e, rest, line, new, n
  <1>b. \A i \in 2 .. n : line[i] < e
    <2>1. 1 \in 1 .. Len(queue)
      BY <1>c
    <2> QED BY <1>c, <1>l, <2>1 DEF LineOrdered, n
  <1>3. Unused'
    BY <1>0, <1>1 DEF OrderInv, Unused, EventSent, SentOn, StaysDown
  <1>4. LinesMarked'
    <2>1. \A i \in 1 .. Len(new) : new[i] = RESUMED <=> i = 1
      <3>1. \A i \in 1 .. n : line[i] = RESUMED <=> i = 1
        BY <1>0 DEF OrderInv, LinesMarked, line, n
      <3>2. \A i \in 1 .. Len(new) : i \in 1 .. n \/ i = n + 1
        BY <1>1
      <3>3. n + 1 # 1
        BY <1>1, <1>2
      <3> QED BY <1>1, <1>e, <3>1, <3>2, <3>3
    <2> QED BY <1>1, <2>1 DEF OrderInv, LinesMarked, new
  <1>5. SenderMarks'
    <2>1. new # <<>>
      BY <1>1
    <2> QED BY <1>m, <2>1 DEF SenderMarks, EventSent, SentOn
  <1>6. ChannelOrdered'
    BY <1>0, TailKeepsChannel DEF OrderInv, EventSent, SentOn, rest
  <1>q. ASSUME NEW s \in StreamIds, s # current
        PROVE  LineOrdered(Lines[s])'
    <2>1. LineOrdered(Lines[s]) /\ Lines'[s] = Lines[s]
      BY <1>1, <1>q DEF OrderInv
    <2>2. \A i \in 2 .. Len(Lines[s]), j \in 1 .. Len(rest) : Lines[s][i] < rest[j]
      BY <1>c, <2>1 DEF LineOrdered
    <2> QED BY <1>0, <2>1, <2>2 DEF LineOrdered
  <1>7. ASSUME NEW s \in StreamIds, s = current
        PROVE  LineOrdered(Lines[s])'
    <2>1. Lines'[s] = new /\ accepted' = accepted /\ queue' = rest
      BY <1>0, <1>7 DEF new
    <2>2. \A i \in 1 .. Len(new) : i \in 1 .. n \/ i = n + 1
      BY <1>1
    <2>3. \A i \in 1 .. Len(new) : new[i] >= i - 1
      <3>1. \A i \in 1 .. n : line[i] >= i - 1
        BY <1>l DEF LineOrdered, n
      <3>2. e >= n
        <4>1. CASE n = 1
          BY <1>e, <1>c, <4>1, StreamAssumption DEF Events
        <4>2. CASE n # 1
          <5>1. n \in 2 .. n /\ n \in 1 .. n
            BY <1>1, <1>2, <4>2
          <5>2. line[n] \in Int /\ line[n] < e /\ line[n] >= n - 1
            BY <1>1, <1>b, <3>1, <5>1
          <5> QED BY <1>1, <1>e, <5>2
        <4> QED BY <4>1, <4>2
      <3> QED BY <1>1, <1>e, <2>2, <3>1, <3>2
    <2>4. \A i \in 2 .. Len(new) : i \in 2 .. n \/ i = n + 1
      BY <1>1
    <2>5. \A i \in 2 .. n : new[i] = line[i] /\ line[i] \in accepted
      BY <1>1, <1>l DEF LineOrdered, n
    <2>6. \A i \in 2 .. Len(new) : new[i] \in accepted
      BY <1>1, <1>c, <2>4, <2>5
    <2>7. \A i, j \in 2 .. Len(new) : i < j => new[i] < new[j]
      <3> SUFFICES ASSUME NEW i \in 2 .. Len(new), NEW j \in 2 .. Len(new), i < j
                   PROVE  new[i] < new[j]
        OBVIOUS
      <3>1. i \in 2 .. n
        BY <1>1
      <3>2. CASE j \in 2 .. n
        BY <1>l, <2>5, <3>1, <3>2 DEF LineOrdered, n
      <3>3. CASE j = n + 1
        BY <1>1, <1>b, <2>5, <3>1, <3>3
      <3> QED BY <2>4, <3>2, <3>3
    <2>8. \A i \in 2 .. Len(new) - 1, x \in accepted : ~(new[i] < x /\ x < new[i + 1])
      <3> SUFFICES ASSUME NEW i \in 2 .. Len(new) - 1, NEW x \in accepted,
                          new[i] < x, x < new[i + 1]
                   PROVE  FALSE
        OBVIOUS
      <3>1. CASE i \in 2 .. n - 1
        <4>1. i + 1 \in 2 .. n /\ i \in 2 .. n
          BY <1>1, <3>1
        <4> QED BY <1>l, <2>5, <3>1, <4>1 DEF LineOrdered, n
      <3>2. CASE i = n
        <4>1. n >= 2 /\ n \in 2 .. n /\ new[i] = line[n] /\ new[i + 1] = e
          BY <1>1, <2>5, <3>2
        <4>2. \E j \in 1 .. Len(queue) : queue[j] = x
          BY <1>0, <4>1 DEF OrderInv, MeetsChannel, line, n
        <4>3. \A j \in 1 .. Len(queue) : queue[j] >= e
          <5> SUFFICES ASSUME NEW j \in 1 .. Len(queue) PROVE queue[j] >= e
            OBVIOUS
          <5>1. CASE j = 1
            BY <1>c, <1>e, <5>1
          <5>2. CASE j # 1
            <6>1. j - 1 \in 1 .. Len(rest) /\ (j - 1) + 1 = j
              BY <1>c, <5>2
            <6>2. rest[j - 1] = queue[j] /\ rest[j - 1] \in Int /\ e < rest[j - 1]
              BY <1>c, <6>1
            <6> QED BY <1>e, <6>2
          <5> QED BY <5>1, <5>2
        <4> QED BY <1>e, <4>1, <4>2, <4>3
      <3> QED BY <1>1, <3>1, <3>2
    <2>9. \A i \in 2 .. Len(new), j \in 1 .. Len(rest) : new[i] < rest[j]
      <3>1. \A i \in 2 .. n, j \in 1 .. Len(rest) : line[i] < rest[j]
        <4>1. \A j \in 1 .. Len(rest) : j + 1 \in 1 .. Len(queue) /\ rest[j] = queue[j + 1]
          BY <1>c
        <4> QED BY <1>l, <4>1 DEF LineOrdered, n
      <3> QED BY <1>1, <1>c, <2>4, <2>5, <3>1
    <2> QED BY <2>1, <2>3, <2>6, <2>7, <2>8, <2>9 DEF LineOrdered
  <1>8. LinesOrdered'
    <2> SUFFICES ASSUME NEW s \in StreamIds, NEW t \in StreamIds, s < t,
                        NEW i \in 2 .. Len(Lines'[s]), NEW j \in 2 .. Len(Lines'[t])
                 PROVE  Lines'[s][i] < Lines'[t][j]
      BY DEF LinesOrdered
    <2>1. CASE s # current /\ t # current
      BY <1>1, <2>1 DEF OrderInv, LinesOrdered
    <2>2. CASE s = current
      <3>1. Lines'[t] = <<>>
        BY <1>0, <1>1, <2>2 DEF OrderInv, Unused
      <3> QED BY <3>1
    <2>3. CASE t = current
      <3>1. Lines'[s] = Lines[s] /\ s # current
        BY <1>0, <1>1, <2>3
      <3>2. CASE j \in 2 .. n
        <4>1. Lines'[t][j] = Lines[t][j] /\ j \in 2 .. Len(Lines[t])
          BY <1>1, <2>3, <3>2 DEF new, line, n
        <4> QED BY <3>1, <4>1 DEF OrderInv, LinesOrdered
      <3>3. CASE j = n + 1
        <4>1. Lines'[t][j] = e /\ e = queue[1] /\ 1 \in 1 .. Len(queue)
          BY <1>1, <1>c, <2>3, <3>3 DEF new
        <4>2. LineOrdered(Lines[s])
          BY DEF OrderInv
        <4> QED BY <3>1, <4>1, <4>2 DEF LineOrdered
      <3> QED BY <1>1, <2>3, <3>2, <3>3 DEF new
    <2> QED BY <2>1, <2>2, <2>3
  <1>9. MeetsChannel'
    <2>1. Lines'[current'][Len(Lines'[current'])] = e
      BY <1>1, <1>m
    <2> QED BY <1>0, <1>c, <2>1 DEF MeetsChannel
  <1>10. \A s \in StreamIds : LineOrdered(Lines[s])'
    BY <1>7, <1>q
  <1> QED BY <1>3, <1>4, <1>5, <1>6, <1>8, <1>9, <1>10 DEF OrderInv

(* One line gets shorter *)
LEMMA ShorterLine ==
    ASSUME TypeInv, NEW s \in StreamIds, NEW k \in 0 .. Len(Lines[s]),
           Lines' = [Lines EXCEPT ![s] = SubSeq(@, 1, k)]
    PROVE  /\ Len(Lines[s]) \in Nat
           /\ Len(Lines'[s]) = k
           /\ \A i \in 1 .. k : Lines'[s][i] = Lines[s][i]
           /\ \A t \in StreamIds : t # s => Lines'[t] = Lines[t]
  <1>1. Lines \in [StreamIds -> Seq(Messages)]
    BY OrderTypes
  <1>2. Lines'[s] = SubSeq(Lines[s], 1, k) /\ \A t \in StreamIds : t # s => Lines'[t] = Lines[t]
    BY <1>1
  <1> DEFINE a == Lines[s]
  <1>3. a \in Seq(Messages) /\ k \in 0 .. Len(a)
    BY <1>1
  <1> HIDE DEF a
  <1>4. Len(a) \in Nat /\ Len(SubSeq(a, 1, k)) = k /\ \A i \in 1 .. k : SubSeq(a, 1, k)[i] = a[i]
    BY <1>3
  <1> QED BY <1>2, <1>4 DEF a

LEMMA CutKeepsOrder ==
    ASSUME TypeInv, TypeInv', OrderInv, NEW s \in StreamIds, NEW k \in Nat, CutOff(s, k)
    PROVE  OrderInv'
  <1> DEFINE line == Lines[s]
             new  == Lines'[s]
  <1>0. UNCHANGED <<queue, accepted, produced, current>>
    BY DEF CutOff
  <1>1. /\ Len(line) \in Nat /\ Len(new) = k /\ k <= Len(line)
        /\ \A i \in 1 .. k : new[i] = line[i]
        /\ \A t \in StreamIds : t # s => Lines'[t] = Lines[t]
    <2>1. k \in 0 .. Len(Lines[s])
      BY LinesTyped DEF CutOff
    <2>2. Lines' = [Lines EXCEPT ![s] = SubSeq(@, 1, k)]
      BY DEF CutOff
    <2>3. /\ Len(Lines[s]) \in Nat
          /\ Len(Lines'[s]) = k
          /\ \A i \in 1 .. k : Lines'[s][i] = Lines[s][i]
          /\ \A t \in StreamIds : t # s => Lines'[t] = Lines[t]
      BY <2>1, <2>2, ShorterLine
    <2>4. k <= Len(Lines[s])
      BY <2>1, <2>3
    <2> QED BY <2>3, <2>4
  <1>2. new \in Seq(Messages) /\ line \in Seq(Messages)
    <2>1. line \in Seq(Messages) /\ Lines \in [StreamIds -> Seq(Messages)]
      BY LinesTyped
    <2>2. new = SubSeq(line, 1, k) /\ k \in 0 .. Len(line)
      BY <1>1, <2>1 DEF CutOff
    <2> HIDE DEF line, new
    <2> QED BY <2>1, <2>2
  <1>3. Unused'
    <2> SUFFICES ASSUME NEW t \in StreamIds, t > current
                 PROVE  Lines'[t] = <<>> /\ ~streams'[t].up
      BY <1>0 DEF Unused
    <2>1. Lines[t] = <<>> /\ ~streams[t].up
      BY DEF OrderInv, Unused
    <2>2. CASE t = s
      <3>1. Len(new) = 0
        BY <1>1, <2>1, <2>2
      <3> QED BY <1>2, <2>2, <3>1 DEF CutOff
    <2>3. CASE t # s
      BY <1>1, <2>1, <2>3 DEF CutOff, StaysDown
    <2> QED BY <2>2, <2>3
  <1>4. SenderMarks'
    <2>1. ASSUME sender' = "resume" PROVE Lines'[current] = <<>>
      <3>1. Lines[current] = <<>> /\ current \in StreamIds
        BY <1>0, <2>1 DEF OrderInv, SenderMarks, CutOff, SenderCalm, TypeInv, SenderHasStream, StreamTypeOK
      <3>2. CASE current = s
        <4>1. Len(new) = 0
          BY <1>1, <3>1, <3>2
        <4> QED BY <1>2, <3>2, <4>1
      <3> QED BY <1>1, <3>1, <3>2
    <2>2. ASSUME sender' = "send", streams'[current].up PROVE Lines'[current] # <<>>
      <3>1. current \in StreamIds /\ current # s /\ streams[current].up
        BY <1>0, <2>2 DEF CutOff, StaysDown, TypeInv, SenderHasStream, StreamTypeOK
      <3> QED BY <1>1, <2>2, <3>1 DEF OrderInv, SenderMarks, CutOff, SenderCalm
    <2> QED BY <1>0, <2>1, <2>2 DEF SenderMarks
  <1>5. MeetsChannel'
    <2> SUFFICES ASSUME current \in StreamIds, streams'[current].up, Len(Lines'[current]) >= 2,
                        NEW e \in accepted, Lines'[current][Len(Lines'[current])] < e
                 PROVE  \E j \in 1 .. Len(queue) : queue[j] = e
      BY <1>0 DEF MeetsChannel
    <2>1. current # s /\ streams[current].up
      BY DEF CutOff, StaysDown
    <2> QED BY <1>1, <2>1 DEF OrderInv, MeetsChannel
  <1>6. ChannelOrdered'
    BY <1>0 DEF OrderInv, ChannelOrdered
  <1>7. LinesMarked'
    <2>1. \A i \in 1 .. k : new[i] = RESUMED <=> i = 1
      BY <1>1 DEF OrderInv, LinesMarked
    <2> QED BY <1>1, <2>1 DEF OrderInv, LinesMarked
  <1>8. ASSUME NEW t \in StreamIds
        PROVE  LineOrdered(Lines[t])'
    <2>1. CASE t = s
      <3>1. LineOrdered(line)
        BY DEF OrderInv
      <3>2. Lines'[t] = new
        BY <2>1
      <3> HIDE DEF line, new
      <3>3. \A i \in 1 .. k : new[i] >= i - 1
        BY <1>1, <3>1 DEF LineOrdered
      <3>4. \A i \in 2 .. k : new[i] \in accepted
        BY <1>1, <3>1 DEF LineOrdered
      <3>5. \A i, j \in 2 .. k : i < j => new[i] < new[j]
        BY <1>1, <3>1 DEF LineOrdered
      <3>6. \A i \in 2 .. k - 1, e \in accepted : ~(new[i] < e /\ e < new[i + 1])
        <4>1. \A i \in 2 .. k - 1 : /\ i \in 1 .. k /\ i + 1 \in 1 .. k
                                    /\ i \in 2 .. Len(line) - 1
          BY <1>1
        <4>2. \A i \in 2 .. k - 1 : new[i] = line[i] /\ new[i + 1] = line[i + 1]
          BY <1>1, <4>1
        <4> QED BY <3>1, <4>1, <4>2 DEF LineOrdered
      <3>7. \A i \in 2 .. k, j \in 1 .. Len(queue) : new[i] < queue[j]
        BY <1>1, <3>1 DEF LineOrdered
      <3> QED BY <1>0, <1>1, <3>2, <3>3, <3>4, <3>5, <3>6, <3>7 DEF LineOrdered
    <2>2. CASE t # s
      <3>1. LineOrdered(Lines[t]) /\ Lines'[t] = Lines[t]
        BY <1>1, <2>2 DEF OrderInv
      <3> QED BY <1>0, <3>1 DEF LineOrdered
    <2> QED BY <2>1, <2>2
  <1>9. LinesOrdered'
    <2> SUFFICES ASSUME NEW t \in StreamIds, NEW u \in StreamIds, t < u,
                        NEW i \in 2 .. Len(Lines'[t]), NEW j \in 2 .. Len(Lines'[u])
                 PROVE  Lines'[t][i] < Lines'[u][j]
      BY DEF LinesOrdered
    <2>1. /\ i \in 2 .. Len(Lines[t]) /\ Lines'[t][i] = Lines[t][i]
          /\ j \in 2 .. Len(Lines[u]) /\ Lines'[u][j] = Lines[u][j]
      <3>1. \A v \in StreamIds : \A m \in 2 .. Len(Lines'[v]) :
                m \in 2 .. Len(Lines[v]) /\ Lines'[v][m] = Lines[v][m]
        BY <1>1
      <3> QED BY <3>1
    <2> QED BY <2>1 DEF OrderInv, LinesOrdered
  <1> QED BY <1>3, <1>4, <1>5, <1>6, <1>7, <1>8, <1>9 DEF OrderInv

LEMMA OrderStep == TypeInv /\ TypeInv' /\ OrderInv /\ [StreamNext]_streamVars => OrderInv'
  <1> SUFFICES ASSUME TypeInv, TypeInv', OrderInv, [StreamNext]_streamVars PROVE OrderInv'
    OBVIOUS
  <1>1. LineStep
    BY EveryStepIsLineStep DEF OrderInv
  <1> QED
    BY <1>1, QuietKeepsOrder, OpenedKeepsOrder, OfferedKeepsOrder, ResumedKeepsOrder,
       SentKeepsOrder, DroppedKeepsOrder, CutKeepsOrder
    DEF LineStep

LEMMA ConcatAt ==
    ASSUME NEW S, NEW a \in Seq(S), NEW b \in Seq(S)
    PROVE  /\ a \o b \in Seq(S) /\ Len(a) \in Nat /\ Len(b) \in Nat
           /\ Len(a \o b) = Len(a) + Len(b)
           /\ \A i \in 1 .. Len(a) : (a \o b)[i] = a[i]
           /\ \A i \in 1 .. Len(b) : (a \o b)[Len(a) + i] = b[i]
  OBVIOUS

(* What was applied is the beginning of a line *)
LEMMA AppliedIsPrefix ==
    ASSUME TypeInv, NEW s \in StreamIds
    PROVE  /\ Len(applied[s]) \in Nat /\ Len(Received(s)) \in Nat /\ Len(Lines[s]) \in Nat
           /\ Len(applied[s]) <= Len(Received(s)) /\ Len(Received(s)) <= Len(Lines[s])
           /\ \A i \in 1 .. Len(applied[s]) : Lines[s][i] = applied[s][i]
           /\ \A i \in 1 .. Len(Received(s)) : Lines[s][i] = Received(s)[i]
           /\ \A i \in 1 .. Len(streams[s].wire) :
                 Lines[s][Len(Received(s)) + i] = streams[s].wire[i]
  <1> DEFINE a == applied[s]
             b == Held(s)
             c == streams[s].wire
  <1>1. a \in Seq(Messages) /\ b \in Seq(Messages) /\ c \in Seq(Messages)
    BY LinesTyped
  <1>2. Received(s) = a \o b /\ Lines[s] = (a \o b) \o c
    BY LineAt DEF Received
  <1> HIDE DEF a, b, c
  <1>3. /\ a \o b \in Seq(Messages) /\ Len(a) \in Nat /\ Len(b) \in Nat
        /\ Len(a \o b) = Len(a) + Len(b)
        /\ \A i \in 1 .. Len(a) : (a \o b)[i] = a[i]
    BY <1>1, ConcatAt
  <1>4. PICK ab \in Seq(Messages) : ab = a \o b
    BY <1>3
  <1>5. /\ Len(ab) \in Nat /\ Len(c) \in Nat
        /\ Len(ab \o c) = Len(ab) + Len(c)
        /\ \A i \in 1 .. Len(ab) : (ab \o c)[i] = ab[i]
        /\ \A i \in 1 .. Len(c) : (ab \o c)[Len(ab) + i] = c[i]
    BY <1>1, ConcatAt
  <1>6. Received(s) = ab /\ Lines[s] = ab \o c
    BY <1>2, <1>4
  <1>7. /\ Len(ab) = Len(a) + Len(b)
        /\ \A i \in 1 .. Len(a) : ab[i] = a[i]
    BY <1>3, <1>4
  <1>8. Len(a) <= Len(ab) /\ Len(ab) <= Len(ab \o c) /\ Len(ab \o c) \in Nat
    BY <1>3, <1>5, <1>7
  <1>9. \A i \in 1 .. Len(a) : (ab \o c)[i] = a[i]
    BY <1>3, <1>5, <1>7, <1>8
  <1>10. applied[s] = a /\ streams[s].wire = c
    BY DEF a, c
  <1> QED BY <1>3, <1>5, <1>6, <1>8, <1>9, <1>10

(* A gap can be seen: on every stream the handler gets STREAM_RESUMED      *)
(* first and only once, under any faults (ResumedComesFirst).              *)
THEOREM ResumedFirstCorrect == StreamSpec => []ResumedComesFirst
  <1>1. TypeInv /\ OrderInv => ResumedComesFirst
    <2> SUFFICES ASSUME TypeInv, OrderInv, NEW s \in StreamIds, NEW i \in 1 .. Len(applied[s])
                 PROVE  applied[s][i] = RESUMED <=> i = 1
      BY DEF ResumedComesFirst
    <2>1. i \in 1 .. Len(Lines[s]) /\ Lines[s][i] = applied[s][i]
      BY AppliedIsPrefix
    <2> QED BY <2>1 DEF OrderInv, LinesMarked
  <1> QED BY <1>1, TypeInit, TypeStep, OrderInit, OrderStep, PTL DEF StreamSpec

(* No other gap: neighbours on a stream are neighbours in the channel, so  *)
(* nothing is missing between two resumptions (NoSilentGap).               *)
THEOREM NoSilentGapCorrect == StreamSpec => []NoSilentGap
  <1>1. TypeInv /\ OrderInv => NoSilentGap
    <2> SUFFICES ASSUME TypeInv, OrderInv, NEW s \in StreamIds,
                        NEW i \in 2 .. Len(applied[s]) - 1
                 PROVE  /\ applied[s][i] < applied[s][i + 1]
                        /\ \A e \in accepted : ~(applied[s][i] < e /\ e < applied[s][i + 1])
      BY DEF NoSilentGap
    <2>1. /\ Len(applied[s]) \in Nat /\ Len(Lines[s]) \in Nat
          /\ Len(applied[s]) <= Len(Lines[s])
      BY AppliedIsPrefix
    <2>2. /\ i \in 1 .. Len(applied[s]) /\ i + 1 \in 1 .. Len(applied[s])
          /\ i \in 2 .. Len(Lines[s]) - 1 /\ i + 1 \in 2 .. Len(Lines[s]) /\ i \in 2 .. Len(Lines[s])
          /\ i < i + 1
      BY <2>1
    <2>3. Lines[s][i] = applied[s][i] /\ Lines[s][i + 1] = applied[s][i + 1]
      BY <2>2, AppliedIsPrefix
    <2>4. LineOrdered(Lines[s])
      BY DEF OrderInv
    <2> QED BY <2>2, <2>3, <2>4 DEF LineOrdered
  <1> QED BY <1>1, TypeInit, TypeStep, OrderInit, OrderStep, PTL DEF StreamSpec

-----------------------------------------------------------------------------
(* Where the accepted events are: in the channel, on a line, or lost.      *)
OnLines == {e \in Events : \E s \in StreamIds : \E i \in 2 .. Len(Lines[s]) : Lines[s][i] = e}
Known == Entries(queue) \cup OnLines

(* A delivered event is one of a line that was applied, and it was         *)
(* delivered once.                                                         *)
DeliveredOnce ==
    /\ \A e \in Events : e \in Delivered <=>
          \E s \in StreamIds : \E i \in 2 .. Len(applied[s]) : Lines[s][i] = e
    /\ \A e \in Events : Cardinality(Deliveries(e)) = IF e \in Delivered THEN 1 ELSE 0

KnownIsPlaced == InFlight \cup Delivered = Known

LEMMA EventAt ==
    ASSUME TypeInv, OrderInv, NEW s \in StreamIds, NEW i \in 2 .. Len(Lines[s])
    PROVE  /\ Lines[s][i] \in accepted /\ Lines[s][i] \in Events
           /\ i - 1 \in Events /\ Lines[s][i] # RESUMED
  <1>1. Len(Lines[s]) \in Nat
    BY AppliedIsPrefix
  <1>2. i \in 1 .. Len(Lines[s])
    BY <1>1
  <1>3. LineOrdered(Lines[s])
    BY DEF OrderInv
  <1>4. Lines[s][i] \in accepted /\ Lines[s][i] >= i - 1
    BY <1>2, <1>3 DEF LineOrdered
  <1>5. Lines[s][i] \in Events
    BY <1>4 DEF TypeInv, StreamTypeOK
  <1>6. Lines[s][i] # RESUMED
    BY <1>5, StreamAssumption DEF Events, RESUMED
  <1>7. i - 1 \in Events
    BY <1>1, <1>4, <1>5, StreamAssumption DEF Events
  <1> QED BY <1>4, <1>5, <1>6, <1>7

(* An event has one place only *)
LEMMA PlaceIsUnique ==
    ASSUME TypeInv, OrderInv, NEW s \in StreamIds, NEW t \in StreamIds,
           NEW i \in 2 .. Len(Lines[s]), NEW j \in 2 .. Len(Lines[t]),
           Lines[s][i] = Lines[t][j]
    PROVE  s = t /\ i = j
  <1>0. Lines[s][i] \in Int /\ s \in Int /\ t \in Int /\ i \in Int /\ j \in Int
    BY EventAt DEF Events, StreamIds
  <1>1. s = t
    BY <1>0 DEF OrderInv, LinesOrdered
  <1>2. i = j
    <2>1. LineOrdered(Lines[s])
      BY DEF OrderInv
    <2>2. i \in 2 .. Len(Lines[s]) /\ j \in 2 .. Len(Lines[s]) /\ Lines[s][i] = Lines[s][j]
      BY <1>1
    <2>3. CASE i < j
      <3>1. Lines[s][i] < Lines[s][j]
        BY <2>1, <2>2, <2>3 DEF LineOrdered
      <3> QED BY <1>0, <2>2, <3>1
    <2>4. CASE j < i
      <3>1. Lines[s][j] < Lines[s][i]
        BY <2>1, <2>2, <2>4 DEF LineOrdered
      <3> QED BY <1>0, <2>2, <3>1
    <2> QED BY <1>0, <2>3, <2>4
  <1> QED BY <1>1, <1>2

LEMMA DeliveryAt ==
    ASSUME TypeInv, OrderInv, NEW e \in Events, NEW s \in StreamIds, NEW n \in Events
    PROVE  <<s, n>> \in Deliveries(e) <=>
               n + 1 \in 2 .. Len(applied[s]) /\ Lines[s][n + 1] = e
  <1>1. n \in Nat \ {0}
    BY StreamAssumption DEF Events
  <1>2. Len(applied[s]) \in Nat /\ \A i \in 1 .. Len(applied[s]) : Lines[s][i] = applied[s][i]
    BY AppliedIsPrefix
  <1>3. <<s, n>> \in Deliveries(e) <=> n + 1 <= Len(applied[s]) /\ applied[s][n + 1] = e
    BY DEF Deliveries
  <1> QED BY <1>1, <1>2, <1>3

LEMMA DeliveredOnceHolds == TypeInv /\ OrderInv => DeliveredOnce
  <1> SUFFICES ASSUME TypeInv, OrderInv, NEW e \in Events
               PROVE  /\ e \in Delivered <=>
                           \E s \in StreamIds : \E i \in 2 .. Len(applied[s]) : Lines[s][i] = e
                      /\ Cardinality(Deliveries(e)) = IF e \in Delivered THEN 1 ELSE 0
    BY DEF DeliveredOnce
  <1>0. e \in Delivered <=> Deliveries(e) # {}
    BY DEF Delivered
  <1>1. \A d \in Deliveries(e) : \E s \in StreamIds, n \in Events : d = <<s, n>>
    BY DEF Deliveries
  <1>2. ASSUME NEW s \in StreamIds, NEW i \in 2 .. Len(applied[s]), Lines[s][i] = e
        PROVE  <<s, i - 1>> \in Deliveries(e)
    <2>1. i \in 2 .. Len(Lines[s]) /\ i \in Int /\ (i - 1) + 1 = i
      BY AppliedIsPrefix
    <2>2. i - 1 \in Events
      BY <2>1, EventAt
    <2> QED BY <1>2, <2>1, <2>2, DeliveryAt
  <1>3. ASSUME NEW s \in StreamIds, NEW n \in Events, <<s, n>> \in Deliveries(e)
        PROVE  \E i \in 2 .. Len(applied[s]) : Lines[s][i] = e
    <2>1. n + 1 \in 2 .. Len(applied[s]) /\ Lines[s][n + 1] = e
      BY <1>3, DeliveryAt
    <2> QED BY <2>1
  <1>4. e \in Delivered <=> \E s \in StreamIds : \E i \in 2 .. Len(applied[s]) : Lines[s][i] = e
    BY <1>0, <1>1, <1>2, <1>3
  <1>5. CASE Deliveries(e) = {}
    BY <1>0, <1>4, <1>5, FS_EmptySet
  <1>6. CASE Deliveries(e) # {}
    <2>1. PICK s \in StreamIds, n \in Events : <<s, n>> \in Deliveries(e)
      BY <1>1, <1>6
    <2>2. ASSUME NEW t \in StreamIds, NEW m \in Events, <<t, m>> \in Deliveries(e)
          PROVE  t = s /\ m = n
      <3>1. /\ n + 1 \in 2 .. Len(applied[s]) /\ Lines[s][n + 1] = e
            /\ m + 1 \in 2 .. Len(applied[t]) /\ Lines[t][m + 1] = e
        BY <2>1, <2>2, DeliveryAt
      <3>2. n + 1 \in 2 .. Len(Lines[s]) /\ m + 1 \in 2 .. Len(Lines[t])
        <4>1. /\ Len(applied[s]) \in Nat /\ Len(Lines[s]) \in Nat /\ Len(applied[s]) <= Len(Lines[s])
              /\ Len(applied[t]) \in Nat /\ Len(Lines[t]) \in Nat /\ Len(applied[t]) <= Len(Lines[t])
          BY AppliedIsPrefix
        <4> QED BY <3>1, <4>1
      <3>3. s = t /\ n + 1 = m + 1
        BY <3>1, <3>2, PlaceIsUnique
      <3> QED BY <3>3 DEF Events
    <2>3. Deliveries(e) = {<<s, n>>}
      BY <1>1, <2>1, <2>2
    <2>4. Cardinality({<<s, n>>}) = 1
      BY FS_Singleton
    <2> QED BY <1>0, <1>4, <1>6, <2>3, <2>4
  <1> QED BY <1>4, <1>5, <1>6

LEMMA KnownIsPlacedHolds == TypeInv /\ OrderInv => KnownIsPlaced
  <1> SUFFICES ASSUME TypeInv, OrderInv PROVE InFlight \cup Delivered = Known
    BY DEF KnownIsPlaced
  <1>0. /\ \A s \in StreamIds : /\ streams[s].wire \in Seq(Messages) /\ Held(s) \in Seq(Messages)
                                /\ applied[s] \in Seq(Messages)
    BY LinesTyped
  <1>h. ASSUME NEW s \in StreamIds
        PROVE  Len(Received(s)) = IF streams[s].handler = "handle" THEN Len(applied[s]) + 1
                                                                  ELSE Len(applied[s])
    <2>1. Len(Received(s)) = Len(applied[s]) + Len(Held(s)) /\ Len(applied[s]) \in Nat
      BY <1>0, ConcatAt DEF Received
    <2>2. CASE streams[s].handler = "handle"
      <3>1. Len(Held(s)) = 1
        BY <2>2 DEF Held
      <3> QED BY <2>1, <2>2, <3>1
    <2>3. CASE streams[s].handler # "handle"
      <3>1. Len(Held(s)) = 0
        BY <2>3 DEF Held
      <3> QED BY <2>1, <2>3, <3>1
    <2> QED BY <2>2, <2>3
  <1>l. ASSUME NEW s \in StreamIds
        PROVE  /\ Len(Lines[s]) = Len(Received(s)) + Len(streams[s].wire)
               /\ Len(streams[s].wire) \in Nat
    <2>1. Received(s) \in Seq(Messages) /\ streams[s].wire \in Seq(Messages)
      BY LinesTyped
    <2>2. Lines[s] = Received(s) \o streams[s].wire
      BY LineAt
    <2>3. PICK a \in Seq(Messages), b \in Seq(Messages) : a = Received(s) /\ b = streams[s].wire
      BY <2>1
    <2>4. Len(a \o b) = Len(a) + Len(b) /\ Len(b) \in Nat
      BY ConcatAt
    <2> QED BY <2>2, <2>3, <2>4
  <1>n. \A s \in StreamIds : streams[s].handler = "handle" =>
            Lines[s][Len(applied[s]) + 1] = streams[s].held
    <2> SUFFICES ASSUME NEW s \in StreamIds, streams[s].handler = "handle"
                 PROVE  Lines[s][Len(applied[s]) + 1] = streams[s].held
      OBVIOUS
    <2>1. Received(s) = applied[s] \o <<streams[s].held>>
      BY DEF Received, Held
    <2>2. <<streams[s].held>> \in Seq(Messages)
      BY <1>0 DEF Held
    <2>3. PICK a \in Seq(Messages), h \in Seq(Messages) : a = applied[s] /\ h = <<streams[s].held>>
      BY <1>0, <2>2
    <2>4. Len(h) = 1 /\ h[1] = streams[s].held /\ Len(a) \in Nat
      BY <2>3
    <2>5. Received(s)[Len(a) + 1] = h[1]
      BY <2>1, <2>3, <2>4, ConcatAt
    <2>6. Len(a) + 1 \in 1 .. Len(Received(s)) /\ Lines[s][Len(a) + 1] = Received(s)[Len(a) + 1]
      BY <1>h, <2>3, <2>4, AppliedIsPrefix
    <2> QED BY <2>3, <2>4, <2>5, <2>6
  <1>1. ASSUME NEW e \in InHand PROVE e \in Known
    <2>1. PICK s \in StreamIds : streams[s].handler = "handle" /\ e = streams[s].held /\ e # RESUMED
      BY <1>1 DEF InHand
    <2>2. PICK i \in Nat : i = Len(applied[s]) + 1
      BY AppliedIsPrefix
    <2>3. Lines[s][i] = e
      BY <1>n, <2>1, <2>2
    <2>4. i \in 1 .. Len(Lines[s])
      BY <1>h, <1>l, <2>1, <2>2, AppliedIsPrefix
    <2>5. i # 1
      BY <2>1, <2>3, <2>4 DEF OrderInv, LinesMarked
    <2>6. i \in 2 .. Len(Lines[s])
      BY <2>4, <2>5
    <2> QED BY <2>3, <2>6, EventAt DEF Known, OnLines
  <1>2. ASSUME NEW e \in OnWires PROVE e \in Known
    <2>1. PICK s \in StreamIds : e \in Entries(streams[s].wire) /\ e # RESUMED
      <3>1. e \in UNION {Entries(streams[s].wire) : s \in StreamIds} /\ e # RESUMED
        BY <1>2, Zenon DEF OnWires
      <3> QED BY <3>1
    <2>2. PICK j \in 1 .. Len(streams[s].wire) : e = streams[s].wire[j]
      BY <2>1 DEF Entries
    <2>3. PICK i \in Nat : i = Len(Received(s)) + j
      BY AppliedIsPrefix
    <2>4. Lines[s][i] = e
      BY <2>2, <2>3, AppliedIsPrefix
    <2>5. i \in 1 .. Len(Lines[s])
      BY <1>l, <2>3, AppliedIsPrefix
    <2>6. i # 1
      BY <2>1, <2>4, <2>5 DEF OrderInv, LinesMarked
    <2>7. i \in 2 .. Len(Lines[s])
      BY <2>5, <2>6
    <2> QED BY <2>4, <2>7, EventAt DEF Known, OnLines
  <1>3. ASSUME NEW e \in Delivered PROVE e \in Known
    <2>0. DeliveredOnce /\ e \in Events
      BY <1>3, DeliveredOnceHolds DEF Delivered
    <2>s. PICK s \in StreamIds : \E i \in 2 .. Len(applied[s]) : Lines[s][i] = e
      BY <2>0, <1>3 DEF DeliveredOnce
    <2>1. PICK i \in 2 .. Len(applied[s]) : Lines[s][i] = e
      BY <2>s
    <2>2. i \in 2 .. Len(Lines[s])
      BY AppliedIsPrefix
    <2> QED BY <2>0, <2>1, <2>2 DEF Known, OnLines
  <1>4. ASSUME NEW e \in OnLines PROVE e \in InFlight \cup Delivered
    <2>0. e \in Events /\ DeliveredOnce
      BY <1>4, DeliveredOnceHolds DEF OnLines
    <2>s. PICK s \in StreamIds : \E i \in 2 .. Len(Lines[s]) : Lines[s][i] = e
      BY <1>4 DEF OnLines
    <2>1. PICK i \in 2 .. Len(Lines[s]) : Lines[s][i] = e
      BY <2>s
    <2>2. e # RESUMED /\ i \in Nat
      BY <2>1, EventAt
    <2>a. /\ Len(applied[s]) \in Nat /\ Len(Received(s)) \in Nat /\ Len(Lines[s]) \in Nat
      BY AppliedIsPrefix
    <2>3. CASE i \in 2 .. Len(applied[s])
      BY <2>0, <2>1, <2>3 DEF DeliveredOnce
    <2>4. CASE i = Len(applied[s]) + 1 /\ streams[s].handler = "handle"
      BY <1>n, <2>1, <2>2, <2>4 DEF InFlight, InHand
    <2>5. CASE i > Len(Received(s))
      <3>1. PICK j \in 1 .. Len(streams[s].wire) : i = Len(Received(s)) + j
        <4>1. i - Len(Received(s)) \in 1 .. Len(streams[s].wire)
          BY <1>l, <2>1, <2>5, <2>a
        <4>2. i = Len(Received(s)) + (i - Len(Received(s)))
          BY <2>2, <2>a
        <4> QED BY <4>1, <4>2
      <3>2. streams[s].wire[j] = e
        BY <2>1, <3>1, AppliedIsPrefix
      <3>3. e \in Entries(streams[s].wire)
        BY <3>2 DEF Entries
      <3>4. e \in UNION {Entries(streams[t].wire) : t \in StreamIds}
        BY <3>3
      <3>5. e \in OnWires
        BY <2>2, <3>4, Zenon DEF OnWires
      <3> QED BY <3>5 DEF InFlight
    <2> QED BY <1>h, <2>1, <2>2, <2>a, <2>3, <2>4, <2>5
  <1> QED BY <1>1, <1>2, <1>3, <1>4 DEF InFlight, Known

(* What a step does to the events known *)
LEMMA TailEntries ==
    ASSUME NEW S, NEW q \in Seq(S), q # <<>>
    PROVE  Entries(q) = {Head(q)} \cup Entries(Tail(q))
  <1>1. /\ Len(q) \in Nat \ {0} /\ Len(Tail(q)) = Len(q) - 1 /\ q[1] = Head(q)
        /\ \A i \in 1 .. Len(q) - 1 : Tail(q)[i] = q[i + 1]
    OBVIOUS
  <1>2. \A i \in 1 .. Len(q) - 1 : i + 1 \in 1 .. Len(q)
    BY <1>1
  <1>3. \A i \in 1 .. Len(q) : i = 1 \/ (i - 1 \in 1 .. Len(q) - 1 /\ (i - 1) + 1 = i)
    BY <1>1
  <1>4. Entries(q) \subseteq {Head(q)} \cup Entries(Tail(q))
    <2> SUFFICES ASSUME NEW i \in 1 .. Len(q) PROVE q[i] \in {Head(q)} \cup Entries(Tail(q))
      BY DEF Entries
    <2>1. CASE i = 1
      BY <1>1, <2>1
    <2>2. CASE i - 1 \in 1 .. Len(q) - 1 /\ (i - 1) + 1 = i
      <3>1. q[i] = Tail(q)[i - 1] /\ i - 1 \in 1 .. Len(Tail(q))
        BY <1>1, <2>2
      <3> QED BY <3>1 DEF Entries
    <2> QED BY <1>3, <2>1, <2>2
  <1>5. {Head(q)} \cup Entries(Tail(q)) \subseteq Entries(q)
    <2>1. 1 \in 1 .. Len(q)
      BY <1>1
    <2> QED BY <1>1, <1>2, <2>1 DEF Entries
  <1> QED BY <1>4, <1>5

LEMMA AppendEntries ==
    ASSUME NEW S, NEW q \in Seq(S), NEW e \in S
    PROVE  Entries(Append(q, e)) = Entries(q) \cup {e}
  <1>1. /\ Len(q) \in Nat /\ Len(Append(q, e)) = Len(q) + 1 /\ Append(q, e)[Len(q) + 1] = e
        /\ \A i \in 1 .. Len(q) : Append(q, e)[i] = q[i]
    OBVIOUS
  <1>2. \A i : i \in 1 .. Len(q) + 1 <=> i \in 1 .. Len(q) \/ i = Len(q) + 1
    BY <1>1
  <1> HIDE DEF Entries
  <1>3. ASSUME NEW x \in Entries(Append(q, e)) PROVE x \in Entries(q) \cup {e}
    <2>1. PICK i \in 1 .. Len(q) + 1 : x = Append(q, e)[i]
      BY <1>1, <1>3 DEF Entries
    <2> QED BY <1>1, <1>2, <2>1 DEF Entries
  <1>4. ASSUME NEW x \in Entries(q) \cup {e} PROVE x \in Entries(Append(q, e))
    <2>1. CASE x = e
      <3>1. Len(q) + 1 \in 1 .. Len(Append(q, e))
        BY <1>1
      <3> QED BY <1>1, <2>1, <3>1 DEF Entries
    <2>2. CASE x \in Entries(q)
      <3>1. PICK i \in 1 .. Len(q) : x = q[i]
        BY <2>2 DEF Entries
      <3>2. i \in 1 .. Len(Append(q, e)) /\ x = Append(q, e)[i]
        BY <1>1, <1>2, <3>1
      <3> QED BY <3>2 DEF Entries
    <2> QED BY <1>4, <2>1, <2>2
  <1> QED BY <1>3, <1>4

LEMMA KnownWhenQuiet ==
    ASSUME Lines' = Lines, queue' = queue
    PROVE  Known' = Known
  BY DEF Known, OnLines, Entries

LEMMA KnownWhenOffered ==
    ASSUME TypeInv, Offered
    PROVE  \/ queue' = queue /\ accepted' = accepted /\ Known' = Known
           \/ accepted' = accepted \cup {produced + 1} /\ Known' = Known \cup {produced + 1}
  <1>1. CASE UNCHANGED <<queue, accepted>>
    BY <1>1, KnownWhenQuiet DEF Offered
  <1>2. CASE queue' = Append(queue, produced + 1) /\ accepted' = accepted \cup {produced + 1}
    <2>1. queue \in Seq(Events) /\ produced + 1 \in Events
      BY DEF TypeInv, StreamTypeOK, Offered
    <2>2. Entries(queue') = Entries(queue) \cup {produced + 1}
      BY <1>2, <2>1, AppendEntries
    <2>3. OnLines' = OnLines
      BY DEF Offered, OnLines
    <2> QED BY <1>2, <2>2, <2>3 DEF Known, Entries
  <1> QED BY <1>1, <1>2 DEF Offered

LEMMA KnownWhenResumed ==
    ASSUME TypeInv, OrderInv, ResumedSent
    PROVE  Known' = Known
  <1>0. current \in StreamIds /\ Lines[current] = <<>> /\ queue' = queue
    BY DEF ResumedSent, SentOn, OrderInv, SenderMarks
  <1>1. Lines \in [StreamIds -> Seq(Messages)]
    BY OrderTypes
  <1>2. Lines'[current] = Append(Lines[current], RESUMED)
    BY <1>0, <1>1 DEF ResumedSent, SentOn
  <1>3. Len(Lines'[current]) = 1
    BY <1>0, <1>2
  <1>4. \A s \in StreamIds : s # current => Lines'[s] = Lines[s]
    BY <1>1 DEF ResumedSent, SentOn
  <1>5. OnLines' = OnLines
    <2>1. ASSUME NEW s \in StreamIds, NEW i \in 2 .. Len(Lines'[s])
          PROVE  i \in 2 .. Len(Lines[s]) /\ Lines'[s][i] = Lines[s][i]
      BY <1>3, <1>4
    <2>2. ASSUME NEW s \in StreamIds, NEW i \in 2 .. Len(Lines[s])
          PROVE  i \in 2 .. Len(Lines'[s]) /\ Lines'[s][i] = Lines[s][i]
      BY <1>0, <1>4
    <2> QED BY <2>1, <2>2 DEF OnLines
  <1> QED BY <1>0, <1>5 DEF Known, Entries

LEMMA KnownWhenSent ==
    ASSUME TypeInv, OrderInv, EventSent
    PROVE  Known' = Known
  <1>0. /\ current \in StreamIds /\ queue \in Seq(Events) /\ queue # <<>>
        /\ queue' = Tail(queue) /\ Lines[current] # <<>>
    BY DEF EventSent, SentOn, OrderInv, SenderMarks, TypeInv, StreamTypeOK
  <1>c. PICK c \in StreamIds : c = current
    BY <1>0
  <1>1. PICK e \in Events : e = Head(queue)
    BY <1>0, TailInSeq
  <1>2. Lines \in [StreamIds -> Seq(Messages)]
    BY OrderTypes
  <1>3. PICK line \in Seq(Messages) : line = Lines[c]
    BY <1>2
  <1>4. Lines'[c] = Append(line, e) /\ \A s \in StreamIds : s # c => Lines'[s] = Lines[s]
    BY <1>c, <1>1, <1>2, <1>3 DEF EventSent, SentOn
  <1>5. /\ Len(line) \in Nat /\ Len(line) # 0
        /\ Len(Append(line, e)) = Len(line) + 1 /\ Append(line, e)[Len(line) + 1] = e
        /\ \A i \in 1 .. Len(line) : Append(line, e)[i] = line[i]
    <2>1. line # <<>>
      BY <1>0, <1>c, <1>3
    <2>2. e \in Messages
      BY <1>1 DEF Messages
    <2> QED BY <2>1, <2>2
  <1>6. /\ Len(line) + 1 \in 2 .. Len(Lines'[c]) /\ Lines'[c][Len(line) + 1] = e
        /\ \A i \in 2 .. Len(Lines'[c]) : i \in 2 .. Len(line) \/ i = Len(line) + 1
        /\ \A i \in 2 .. Len(line) : i \in 2 .. Len(Lines'[c]) /\ Lines'[c][i] = line[i]
    BY <1>4, <1>5
  <1>7. OnLines' = OnLines \cup {e}
    <2>1. ASSUME NEW x \in OnLines' PROVE x \in OnLines \cup {e}
      <3>1. PICK s \in StreamIds : x \in Events /\ \E i \in 2 .. Len(Lines'[s]) : Lines'[s][i] = x
        BY <2>1 DEF OnLines
      <3>2. PICK i \in 2 .. Len(Lines'[s]) : Lines'[s][i] = x
        BY <3>1
      <3>3. CASE s # c
        BY <1>4, <3>1, <3>3 DEF OnLines
      <3>4. CASE s = c /\ i = Len(line) + 1
        BY <1>6, <3>2, <3>4
      <3>5. CASE s = c /\ i \in 2 .. Len(line)
        BY <1>3, <1>6, <3>1, <3>2, <3>5 DEF OnLines
      <3> QED BY <1>6, <3>3, <3>4, <3>5
    <2>2. ASSUME NEW x \in OnLines \cup {e} PROVE x \in OnLines'
      <3>1. CASE x = e
        BY <1>6, <3>1 DEF OnLines
      <3>2. CASE x \in OnLines
        <4>1. PICK s \in StreamIds : x \in Events /\ \E i \in 2 .. Len(Lines[s]) : Lines[s][i] = x
          BY <3>2 DEF OnLines
        <4>2. PICK i \in 2 .. Len(Lines[s]) : Lines[s][i] = x
          BY <4>1
        <4>3. i \in 2 .. Len(Lines'[s]) /\ Lines'[s][i] = x
          <5>1. CASE s = c
            BY <1>3, <1>6, <4>2, <5>1
          <5>2. CASE s # c
            BY <1>4, <4>2, <5>2
          <5> QED BY <5>1, <5>2
        <4> QED BY <4>1, <4>3 DEF OnLines
      <3> QED BY <2>2, <3>1, <3>2
    <2> QED BY <2>1, <2>2
  <1>8. Entries(queue) = {e} \cup Entries(queue')
    BY <1>0, <1>1, TailEntries
  <1>9. Entries(queue)' = Entries(queue')
    BY DEF Entries
  <1> QED BY <1>7, <1>8, <1>9 DEF Known

LEMMA KnownWhenDropped ==
    ASSUME TypeInv, EventDropped
    PROVE  Known' \subseteq Known
  <1>1. queue \in Seq(Events) /\ queue # <<>> /\ queue' = Tail(queue)
    BY DEF EventDropped, TypeInv, StreamTypeOK
  <1>2. Entries(queue') \subseteq Entries(queue)
    BY <1>1, TailEntries
  <1>3. OnLines' = OnLines
    BY DEF EventDropped, OnLines
  <1> QED BY <1>2, <1>3 DEF Known, Entries

LEMMA KnownWhenCut ==
    ASSUME TypeInv, NEW s \in StreamIds, NEW k \in Nat, CutOff(s, k)
    PROVE  Known' \subseteq Known
  <1>1. /\ Len(Lines[s]) \in Nat /\ k \in 0 .. Len(Lines[s])
        /\ Lines' = [Lines EXCEPT ![s] = SubSeq(@, 1, k)] /\ queue' = queue
    BY AppliedIsPrefix DEF CutOff
  <1>2. /\ Len(Lines'[s]) = k
        /\ \A i \in 1 .. k : Lines'[s][i] = Lines[s][i]
        /\ \A t \in StreamIds : t # s => Lines'[t] = Lines[t]
    BY <1>1, ShorterLine
  <1>3. ASSUME NEW t \in StreamIds, NEW i \in 2 .. Len(Lines'[t])
        PROVE  i \in 2 .. Len(Lines[t]) /\ Lines'[t][i] = Lines[t][i]
    BY <1>1, <1>2
  <1>4. OnLines' \subseteq OnLines
    BY <1>3 DEF OnLines
  <1> QED BY <1>1, <1>4 DEF Known, Entries

-----------------------------------------------------------------------------
(* While no stream has broken, every accepted event is known *)
NothingLost ==
    (sender # "stopped" /\ \A s \in 1 .. current : streams[s].up) => accepted \subseteq Known

LEMMA StoppedForGood ==
    ASSUME [StreamNext]_streamVars, sender = "stopped"
    PROVE  sender' = "stopped"
  BY DEF StreamNext, streamVars, Produce, Sender, Connect, ConnectFails, Wait, SendResumed, Send,
         SendFails, Shutdown, Tick, StreamEvents, Start, Recv, Handle, RecvFails, Break

LEMMA NothingLostStep ==
    TypeInv /\ OrderInv /\ NothingLost /\ [StreamNext]_streamVars => NothingLost'
  <1> SUFFICES ASSUME TypeInv, OrderInv, NothingLost, [StreamNext]_streamVars,
                      sender' # "stopped", \A s \in 1 .. current' : streams'[s].up
               PROVE  accepted' \subseteq Known'
    BY DEF NothingLost
  <1>0. sender # "stopped" /\ current \in StreamIds \cup {0}
    BY StoppedForGood DEF TypeInv, StreamTypeOK
  <1>i. /\ current \in Nat
        /\ \A s \in 1 .. current : s \in StreamIds
        /\ current \in StreamIds => current \in 1 .. current
    BY <1>0, StreamAssumption DEF StreamIds
  <1>s. ASSUME current' = current, StaysDown PROVE accepted \subseteq Known
    BY <1>0, <1>i, <1>s DEF StaysDown, NothingLost
  <1>1. CASE Quiet
    BY <1>1, <1>s, KnownWhenQuiet DEF Quiet
  <1>2. CASE Opened
    <2>1. \A s \in 1 .. current : s \in 1 .. current' /\ s # current'
      BY <1>2, <1>i DEF Opened
    <2>2. \A s \in 1 .. current : streams[s].up
      BY <1>2, <1>i, <2>1 DEF Opened
    <2> QED BY <1>0, <1>2, <2>2, KnownWhenQuiet DEF Opened, NothingLost
  <1>3. CASE Offered
    <2>1. accepted \subseteq Known
      BY <1>3, <1>s DEF Offered, StaysDown
    <2> QED BY <1>3, <2>1, KnownWhenOffered
  <1>4. CASE ResumedSent
    BY <1>4, <1>s, KnownWhenResumed DEF ResumedSent, SentOn
  <1>5. CASE EventSent
    BY <1>5, <1>s, KnownWhenSent DEF EventSent, SentOn
  <1>6. CASE EventDropped
    BY <1>6, <1>i DEF EventDropped, StaysDown
  <1>7. ASSUME NEW s \in StreamIds, NEW k \in Nat, CutOff(s, k)
        PROVE  accepted' \subseteq Known'
    <2>1. s > current
      BY <1>7, <1>i DEF CutOff, StreamIds
    <2>2. Lines[s] = <<>>
      BY <2>1 DEF OrderInv, Unused
    <2>3. k = 0
      <3>1. k <= Len(Lines[s]) /\ Len(Lines[s]) = 0
        BY <1>7, <2>2, AppliedIsPrefix DEF CutOff
      <3> QED BY <3>1
    <2>4. Lines' = Lines
      <3>1. Lines \in [StreamIds -> Seq(Messages)]
        BY OrderTypes
      <3>2. SubSeq(Lines[s], 1, k) = Lines[s]
        BY <2>2, <2>3
      <3> QED BY <1>7, <3>1, <3>2 DEF CutOff
    <2> QED BY <1>7, <1>s, <2>4, KnownWhenQuiet DEF CutOff
  <1>8. LineStep
    BY EveryStepIsLineStep DEF OrderInv
  <1> QED BY <1>1, <1>2, <1>3, <1>4, <1>5, <1>6, <1>7, <1>8 DEF LineStep

(* Events that entered the channel are lost only with a stream *)
THEOREM LossNeedsFaultCorrect == StreamSpec => []LossNeedsFault
  <1>1. StreamInit => NothingLost
    BY DEF StreamInit, NothingLost
  <1>2. TypeInv /\ OrderInv /\ NothingLost => LossNeedsFault
    BY KnownIsPlacedHolds DEF NothingLost, LossNeedsFault, KnownIsPlaced
  <1> QED BY <1>1, <1>2, TypeInit, TypeStep, OrderInit, OrderStep, NothingLostStep, PTL DEF StreamSpec

-----------------------------------------------------------------------------
(* The stream implements the lossy feed.  In its terms an event is offered *)
(* when it enters the channel, delivered by Handle, and lost when it       *)
(* leaves the channel and the lines undelivered.                           *)
FeedDeliveries == [e \in Events |-> Cardinality(Deliveries(e))]
FeedLost == accepted \ (InFlight \cup Delivered)

FeedByPlaces ==
    /\ FeedDeliveries = [e \in Events |-> IF e \in Delivered THEN 1 ELSE 0]
    /\ FeedLost = accepted \ Known
    /\ Delivered \subseteq Known

LEMMA FeedState == TypeInv /\ OrderInv => FeedByPlaces
  BY DeliveredOnceHolds, KnownIsPlacedHolds
  DEF FeedByPlaces, DeliveredOnce, KnownIsPlaced, FeedDeliveries, FeedLost

FeedStep ==
    \/ UNCHANGED <<accepted, FeedDeliveries, FeedLost>>
    \/ \E e \in Events : Feed!Offer(e) \/ Feed!Deliver(e)
    \/ \E S \in SUBSET Feed!Pending : Feed!Lose(S)

LEMMA FeedStepIsFeed == FeedStep => [Feed!FeedNext]_(Feed!feedVars)
  BY DEF FeedStep, Feed!FeedNext, Feed!feedVars, FeedDeliveries, FeedLost

(* Only Handle calls the handler *)
LEMMA AppliedByHandle ==
    ASSUME [StreamNext]_streamVars, applied' # applied
    PROVE  \E s \in StreamIds : Handle(s)
  BY DEF StreamNext, streamVars, Produce, Sender, Connect, ConnectFails, Wait, SendResumed, Send,
         SendFails, Shutdown, Tick, StreamEvents, Start, Recv, RecvFails, Break

(* Known events that disappear were pending *)
LEMMA LosingIsFeedStep ==
    ASSUME TypeInv, OrderInv, TypeInv', OrderInv',
           UNCHANGED <<applied, accepted>>, Known' \subseteq Known
    PROVE  FeedStep
  <1>1. /\ FeedDeliveries = [e \in Events |-> IF e \in Delivered THEN 1 ELSE 0]
        /\ FeedLost = accepted \ Known /\ Delivered \subseteq Known
    BY FeedState DEF FeedByPlaces
  <1>p. FeedByPlaces'
    BY FeedState, PTL
  <1>2. FeedLost' = accepted' \ Known' /\ Delivered' \subseteq Known'
    BY <1>p DEF FeedByPlaces
  <1>3. Delivered' = Delivered /\ FeedDeliveries' = FeedDeliveries
    BY DEF Delivered, Deliveries, FeedDeliveries
  <1>4. CASE FeedLost' = FeedLost
    BY <1>3, <1>4 DEF FeedStep
  <1>5. CASE FeedLost' # FeedLost
    <2> DEFINE S == FeedLost' \ FeedLost
    <2>1. FeedLost' = FeedLost \cup S /\ S # {}
      BY <1>1, <1>2, <1>5
    <2>2. accepted \subseteq Events
      BY DEF TypeInv, StreamTypeOK
    <2>3. S \subseteq {e \in accepted \ FeedLost : FeedDeliveries[e] = 0}
      BY <1>1, <1>2, <1>3, <2>2
    <2>4. Feed!Lose(S)
      BY <1>3, <2>1 DEF Feed!Lose, FeedLost, FeedDeliveries
    <2>5. S \in SUBSET Feed!Pending
      BY <2>3 DEF Feed!Pending, FeedLost, FeedDeliveries
    <2> HIDE DEF S
    <2> QED BY <2>4, <2>5 DEF FeedStep
  <1> QED BY <1>4, <1>5

LEMMA OfferedIsFeedStep ==
    ASSUME TypeInv, OrderInv, TypeInv', OrderInv', applied' = applied, Offered
    PROVE  FeedStep
  <1>1. FeedLost = accepted \ Known
    BY FeedState DEF FeedByPlaces
  <1>p. FeedByPlaces'
    BY FeedState, PTL
  <1>2. FeedLost' = accepted' \ Known'
    BY <1>p DEF FeedByPlaces
  <1>3. FeedDeliveries' = FeedDeliveries
    BY DEF Deliveries, FeedDeliveries
  <1>4. CASE queue' = queue /\ accepted' = accepted /\ Known' = Known
    BY <1>1, <1>2, <1>3, <1>4 DEF FeedStep
  <1>5. CASE accepted' = accepted \cup {produced + 1} /\ Known' = Known \cup {produced + 1}
    <2>1. PICK e \in Events : e = produced + 1
      BY DEF Offered
    <2>2. e \notin accepted
      <3>1. produced \in Int /\ produced < produced + 1 /\ e \in Int
        BY <2>1, StreamAssumption DEF TypeInv, StreamTypeOK
      <3>2. \A f \in accepted : f <= produced
        BY DEF OrderInv, ChannelOrdered
      <3> QED BY <2>1, <3>1, <3>2
    <2>3. FeedLost' = FeedLost
      BY <1>1, <1>2, <1>5, <2>1, <2>2
    <2>4. Feed!Offer(e)
      BY <1>3, <1>5, <2>1, <2>2, <2>3 DEF Feed!Offer, FeedLost, FeedDeliveries
    <2> QED BY <2>4 DEF FeedStep
  <1> QED BY <1>4, <1>5, KnownWhenOffered

LEMMA HandleIsFeedStep ==
    ASSUME TypeInv, OrderInv, TypeInv', OrderInv', NEW s \in StreamIds, Handle(s)
    PROVE  FeedStep
  <1>1. /\ FeedDeliveries = [e \in Events |-> IF e \in Delivered THEN 1 ELSE 0]
        /\ FeedLost = accepted \ Known
    BY FeedState DEF FeedByPlaces
  <1>2. /\ FeedDeliveries' = [e \in Events |-> IF e \in Delivered' THEN 1 ELSE 0]
        /\ FeedLost' = accepted' \ Known'
    <2>1. FeedByPlaces'
      BY FeedState, PTL
    <2> QED BY <2>1 DEF FeedByPlaces
  <1>3. Lines' = Lines /\ applied' = [applied EXCEPT ![s] = Received(s)]
    BY HandleKeepsLines
  <1>4. UNCHANGED <<queue, accepted>>
    BY DEF Handle
  <1>5. FeedLost' = FeedLost
    BY <1>1, <1>2, <1>3, <1>4, KnownWhenQuiet
  <1>6. applied \in [StreamIds -> Seq(Messages)]
    BY DEF TypeInv, StreamTypeOK
  <1>7. PICK n \in Nat : n = Len(applied[s])
    BY <1>6
  <1>8. Len(applied'[s]) = n + 1 /\ \A t \in StreamIds : t # s => applied'[t] = applied[t]
    <2>1. Received(s) = Append(applied[s], streams[s].held) /\ streams[s].held \in Messages
      BY <1>6 DEF Received, Held, Handle, TypeInv, StreamTypeOK, StreamRecords
    <2>2. Len(Received(s)) = n + 1
      BY <1>6, <1>7, <2>1
    <2> QED BY <1>3, <1>6, <2>2
  <1>9. n + 1 <= Len(Lines[s]) /\ Len(Lines[s]) \in Nat
    <2>1. Len(applied'[s]) <= Len(Lines'[s]) /\ Len(Lines'[s]) \in Nat
      BY <1>3, <1>6, AppliedIsPrefix
    <2> QED BY <1>3, <1>8, <2>1
  <1>d. /\ \A e \in Events : e \in Delivered <=>
              \E t \in StreamIds : \E i \in 2 .. Len(applied[t]) : Lines[t][i] = e
        /\ \A e \in Events : e \in Delivered' <=>
              \E t \in StreamIds : \E i \in 2 .. Len(applied'[t]) : Lines'[t][i] = e
    <2>1. DeliveredOnce
      BY DeliveredOnceHolds
    <2>2. DeliveredOnce'
      BY DeliveredOnceHolds, PTL
    <2> QED BY <2>1, <2>2 DEF DeliveredOnce
  <1>10. CASE n = 0
    <2>1. Delivered' = Delivered
      <3>1. \A t \in StreamIds : \A i : i \in 2 .. Len(applied'[t]) <=> i \in 2 .. Len(applied[t])
        <4>1. Len(applied[s]) = 0 /\ Len(applied'[s]) = 1
          BY <1>7, <1>8, <1>10
        <4>2. ASSUME NEW t \in StreamIds, NEW i
              PROVE  i \in 2 .. Len(applied'[t]) <=> i \in 2 .. Len(applied[t])
          <5>1. CASE t = s
            <6>1. 2 .. 0 = {} /\ 2 .. 1 = {}
              OBVIOUS
            <6>2. Len(applied'[t]) = 1 /\ Len(applied[t]) = 0
              BY <4>1, <5>1
            <6> QED BY <6>1, <6>2
          <5>2. CASE t # s
            BY <1>8, <5>2
          <5> QED BY <5>1, <5>2
        <4> QED BY <4>2
      <3>2. \A e \in Events : e \in Delivered' <=> e \in Delivered
        BY <1>3, <1>d, <3>1
      <3> QED BY <3>2 DEF Delivered
    <2>2. FeedDeliveries' = FeedDeliveries
      BY <1>1, <1>2, <2>1
    <2> QED BY <1>4, <1>5, <2>2 DEF FeedStep
  <1>11. CASE n # 0
    <2>0. n + 1 \in 2 .. Len(Lines[s])
      BY <1>9, <1>11
    <2>1. PICK e \in Events : e = Lines[s][n + 1] /\ e \in accepted
      BY <2>0, EventAt
    <2>2. e \notin Delivered
      <3> SUFFICES ASSUME e \in Delivered PROVE FALSE
        OBVIOUS
      <3>1. PICK t \in StreamIds : \E i \in 2 .. Len(applied[t]) : Lines[t][i] = e
        BY <1>d
      <3>2. PICK i \in 2 .. Len(applied[t]) : Lines[t][i] = e
        BY <3>1
      <3>3. i \in 2 .. Len(Lines[t])
        BY AppliedIsPrefix
      <3>4. t = s /\ i = n + 1
        BY <2>0, <2>1, <3>2, <3>3, PlaceIsUnique
      <3> QED BY <1>7, <3>4
    <2>3. \A f \in Events : f \in Delivered' <=> f \in Delivered \/ f = e
      <3>1. ASSUME NEW f \in Events, f \in Delivered' PROVE f \in Delivered \/ f = e
        <4>1. PICK t \in StreamIds : \E i \in 2 .. Len(applied'[t]) : Lines[t][i] = f
          BY <1>3, <1>d, <3>1
        <4>2. PICK i \in 2 .. Len(applied'[t]) : Lines[t][i] = f
          BY <4>1
        <4>3. i \in 2 .. Len(applied[t]) \/ (t = s /\ i = n + 1)
          <5>1. CASE t = s
            BY <1>7, <1>8, <5>1
          <5>2. CASE t # s
            BY <1>8, <5>2
          <5> QED BY <5>1, <5>2
        <4> QED BY <1>d, <2>1, <4>2, <4>3
      <3>2. ASSUME NEW f \in Events, f \in Delivered \/ f = e PROVE f \in Delivered'
        <4>1. CASE f = e
          <5>1. n + 1 \in 2 .. Len(applied'[s]) /\ Lines'[s][n + 1] = e
            BY <1>3, <1>8, <1>11, <2>1
          <5> QED BY <1>d, <4>1, <5>1
        <4>2. CASE f \in Delivered
          <5>1. PICK t \in StreamIds : \E i \in 2 .. Len(applied[t]) : Lines[t][i] = f
            BY <1>d, <4>2
          <5>2. PICK i \in 2 .. Len(applied[t]) : Lines[t][i] = f
            BY <5>1
          <5>3. i \in 2 .. Len(applied'[t])
            <6>1. CASE t = s
              BY <1>7, <1>8, <6>1
            <6>2. CASE t # s
              BY <1>8, <6>2
            <6> QED BY <6>1, <6>2
          <5> QED BY <1>3, <1>d, <5>2, <5>3
        <4> QED BY <3>2, <4>1, <4>2
      <3> QED BY <3>1, <3>2
    <2>4. FeedDeliveries' = [FeedDeliveries EXCEPT ![e] = 1]
      BY <1>1, <1>2, <2>3
    <2>5. e \in Known
      BY <2>0, <2>1 DEF Known, OnLines
    <2>6. e \in accepted \ FeedLost /\ FeedDeliveries[e] = 0
      BY <1>1, <2>1, <2>2, <2>5
    <2>7. Feed!Deliver(e)
      BY <1>4, <1>5, <2>4, <2>6 DEF Feed!Deliver, Feed!Pending, FeedLost, FeedDeliveries
    <2> QED BY <2>7 DEF FeedStep
  <1> QED BY <1>10, <1>11

LEMMA EveryStepIsFeedStep ==
    TypeInv /\ OrderInv /\ TypeInv' /\ OrderInv' /\ [StreamNext]_streamVars
        => [Feed!FeedNext]_(Feed!feedVars)
  <1> SUFFICES ASSUME TypeInv, OrderInv, TypeInv', OrderInv', [StreamNext]_streamVars
               PROVE  FeedStep
    BY FeedStepIsFeed
  <1>1. CASE applied' # applied
    BY <1>1, AppliedByHandle, HandleIsFeedStep
  <1>2. CASE applied' = applied
    <2>1. LineStep
      BY EveryStepIsLineStep DEF OrderInv
    <2>2. CASE Offered
      BY <1>2, <2>2, OfferedIsFeedStep
    <2>3. CASE ~Offered
      <3>1. Known' \subseteq Known /\ accepted' = accepted
        <4>1. CASE Quiet \/ Opened
          BY <4>1, KnownWhenQuiet DEF Quiet, Opened
        <4>2. CASE ResumedSent
          BY <4>2, KnownWhenResumed DEF ResumedSent, SentOn
        <4>3. CASE EventSent
          BY <4>3, KnownWhenSent DEF EventSent, SentOn
        <4>4. CASE EventDropped
          BY <4>4, KnownWhenDropped DEF EventDropped
        <4>5. ASSUME NEW s \in StreamIds, NEW k \in Nat, CutOff(s, k)
              PROVE  Known' \subseteq Known /\ accepted' = accepted
          BY <4>5, KnownWhenCut DEF CutOff
        <4> QED BY <2>1, <2>3, <4>1, <4>2, <4>3, <4>4, <4>5 DEF LineStep
      <3> QED BY <1>2, <3>1, LosingIsFeedStep
    <2> QED BY <2>2, <2>3
  <1> QED BY <1>1, <1>2

LEMMA FeedStart == StreamInit => Feed!FeedInit
  <1> SUFFICES ASSUME StreamInit PROVE Feed!FeedInit
    OBVIOUS
  <1>1. TypeInv /\ OrderInv
    BY TypeInit, OrderInit
  <1>2. \A s \in StreamIds : Len(applied[s]) = 0
    BY DEF StreamInit
  <1>3. Delivered = {}
    <2>1. \A e \in Events : e \notin Delivered
      BY <1>1, <1>2, DeliveredOnceHolds DEF DeliveredOnce
    <2> QED BY <2>1 DEF Delivered
  <1>4. FeedDeliveries = [e \in Events |-> 0]
    BY <1>1, <1>3, FeedState DEF FeedByPlaces
  <1> QED BY <1>4 DEF StreamInit, Feed!FeedInit, FeedDeliveries

(* The stream implements the lossy feed: no event is delivered twice and   *)
(* none that was lost comes back (ImplementsFeed).                         *)
THEOREM StreamImplementsFeed == StreamSpec => ImplementsFeed
  BY FeedStart, EveryStepIsFeedStep, TypeInit, TypeStep, OrderInit, OrderStep, PTL
  DEF StreamSpec, ImplementsFeed, Feed!FeedSpec
=============================================================================
