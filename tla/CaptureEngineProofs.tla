------------------------- MODULE CaptureEngineProofs -------------------------
(***************************************************************************)
(* Proofs about CaptureEngine, for any number of start calls, any channel  *)
(* capacity and batch size and any number of messages and failing writes.  *)
(***************************************************************************)
EXTENDS CaptureEngine, QueueLemmas

USE EngineAssumption DEF EngineAssumption

-----------------------------------------------------------------------------
(* The line of messages: written, being retried, buffered, queued, to come.*)

\* Appending, taking and joining, for queues of messages.
LEMMA AppendMessage ==
    ASSUME NEW q \in Seq(Messages), NEW e \in Messages
    PROVE  \E d \in Seq(Messages) :
              /\ d = Append(q, e)
              /\ Len(d) = Len(q) + 1
              /\ ToSet(d) = ToSet(q) \cup {e}
              /\ Up(d) <=> Up(q) /\ Before(ToSet(q), {e})
<1>1. Messages \subseteq Nat
    BY DEF Messages
<1>2. /\ Append(q, e) \in Seq(Messages)
      /\ Len(Append(q, e)) = Len(q) + 1
      /\ ToSet(Append(q, e)) = ToSet(q) \cup {e}
    BY Elements
<1>3. Up(Append(q, e)) <=> Up(q) /\ Before(ToSet(q), {e})
    BY <1>1, Order
<1> QED
    BY <1>2, <1>3, Zenon

\* Receiving a message leaves a queue of the others.
LEMMA TakeMessage ==
    ASSUME NEW q \in Seq(Messages), q # <<>>
    PROVE  \E e \in Messages, t \in Seq(Messages) :
              /\ e = Head(q)
              /\ t = Tail(q)
              /\ Len(t) = Len(q) - 1
              /\ ToSet(q) = {e} \cup ToSet(t)
              /\ Up(q) <=> Up(t) /\ Before({e}, ToSet(t))
<1>1. Messages \subseteq Nat
    BY DEF Messages
<1>2. /\ Head(q) \in Messages
      /\ Tail(q) \in Seq(Messages)
      /\ Len(Tail(q)) = Len(q) - 1
      /\ ToSet(q) = {Head(q)} \cup ToSet(Tail(q))
    BY Elements
<1>3. Up(q) <=> Up(Tail(q)) /\ Before({Head(q)}, ToSet(Tail(q)))
    BY <1>1, Order
<1> QED
    BY <1>2, <1>3, Zenon

\* Two queues, one after the other: what they hold, and when they are in order together.
LEMMA JoinMessages ==
    ASSUME NEW q \in Seq(Messages), NEW p \in Seq(Messages)
    PROVE  \E d \in Seq(Messages) :
              /\ d = q \o p
              /\ ToSet(d) = ToSet(q) \cup ToSet(p)
              /\ Up(d) <=> Up(q) /\ Up(p) /\ Before(ToSet(q), ToSet(p))
<1>1. Messages \subseteq Nat
    BY DEF Messages
<1>2. q \o p \in Seq(Messages) /\ ToSet(q \o p) = ToSet(q) \cup ToSet(p)
    BY Elements
<1>3. Up(q \o p) <=> Up(q) /\ Up(p) /\ Before(ToSet(q), ToSet(p))
    BY <1>1, Order
<1> QED
    BY <1>2, <1>3, Zenon

\* Rows w, retried rows r, buffer b and channel c hold increasing numbers, in
\* this order, all at most n.
InLine(w, r, b, c, n) ==
    /\ Up(w) /\ Up(r) /\ Up(b) /\ Up(c)
    /\ Before(ToSet(w), ToSet(r) \cup ToSet(b) \cup ToSet(c) \cup {n + 1})
    /\ Before(ToSet(r), ToSet(b) \cup ToSet(c) \cup {n + 1})
    /\ Before(ToSet(b), ToSet(c) \cup {n + 1})
    /\ Before(ToSet(c), {n + 1})

\* What the line holds.
Content(w, r, b, c) == ToSet(w) \cup ToSet(r) \cup ToSet(b) \cup ToSet(c)

\* The channel accepts the next message.
LEMMA AcceptInLine ==
    ASSUME NEW w \in Seq(Messages), NEW r \in Seq(Messages), NEW b \in Seq(Messages),
           NEW c \in Seq(Messages), NEW n \in Nat, n + 1 \in Messages,
           InLine(w, r, b, c, n)
    PROVE  /\ Append(c, n + 1) \in Seq(Messages)
           /\ InLine(w, r, b, Append(c, n + 1), n + 1)
           /\ Content(w, r, b, Append(c, n + 1)) = Content(w, r, b, c) \cup {n + 1}
<1>1. Messages \subseteq Nat
    BY DEF Messages
<1>2. /\ ToSet(w) \subseteq Nat /\ ToSet(r) \subseteq Nat /\ ToSet(b) \subseteq Nat
      /\ ToSet(c) \subseteq Nat
    BY <1>1, Elements
<1>3. PICK d \in Seq(Messages) :
        /\ d = Append(c, n + 1)
        /\ ToSet(d) = ToSet(c) \cup {n + 1}
        /\ Up(d) <=> Up(c) /\ Before(ToSet(c), {n + 1})
    BY AppendMessage
<1>4. InLine(w, r, b, d, n + 1)
    <2>1. Up(w) /\ Up(r) /\ Up(b) /\ Up(d)
        BY <1>3 DEF InLine
    <2>2. \A x \in Nat : x < n + 1 => x < (n + 1) + 1
        OBVIOUS
    <2>3. Before(ToSet(w), ToSet(r) \cup ToSet(b) \cup ToSet(d) \cup {(n + 1) + 1})
        BY <1>2, <1>3, <2>2 DEF InLine, Before
    <2>4. Before(ToSet(r), ToSet(b) \cup ToSet(d) \cup {(n + 1) + 1})
        BY <1>2, <1>3, <2>2 DEF InLine, Before
    <2>5. Before(ToSet(b), ToSet(d) \cup {(n + 1) + 1})
        BY <1>2, <1>3, <2>2 DEF InLine, Before
    <2>6. Before(ToSet(d), {(n + 1) + 1})
        BY <1>2, <1>3, <2>2 DEF InLine, Before
    <2> QED
        BY <2>1, <2>3, <2>4, <2>5, <2>6 DEF InLine
<1> QED
    BY <1>3, <1>4 DEF Content

\* The writer buffers the oldest message of the channel.
LEMMA TakeInLine ==
    ASSUME NEW w \in Seq(Messages), NEW r \in Seq(Messages), NEW b \in Seq(Messages),
           NEW c \in Seq(Messages), NEW n \in Nat, c # <<>>,
           InLine(w, r, b, c, n)
    PROVE  /\ Append(b, Head(c)) \in Seq(Messages)
           /\ Len(Append(b, Head(c))) = Len(b) + 1
           /\ Tail(c) \in Seq(Messages)
           /\ Len(Tail(c)) = Len(c) - 1
           /\ InLine(w, r, Append(b, Head(c)), Tail(c), n)
           /\ Content(w, r, Append(b, Head(c)), Tail(c)) = Content(w, r, b, c)
<1>1. Messages \subseteq Nat
    BY DEF Messages
<1>2. /\ ToSet(w) \subseteq Nat /\ ToSet(r) \subseteq Nat /\ ToSet(b) \subseteq Nat
      /\ ToSet(c) \subseteq Nat
    BY <1>1, Elements
<1>3. PICK e \in Messages, t \in Seq(Messages) :
        /\ e = Head(c) /\ t = Tail(c) /\ Len(t) = Len(c) - 1
        /\ ToSet(c) = {e} \cup ToSet(t)
        /\ Up(c) <=> Up(t) /\ Before({e}, ToSet(t))
    BY TakeMessage
<1>4. PICK d \in Seq(Messages) :
        /\ d = Append(b, e) /\ Len(d) = Len(b) + 1
        /\ ToSet(d) = ToSet(b) \cup {e}
        /\ Up(d) <=> Up(b) /\ Before(ToSet(b), {e})
    BY AppendMessage
<1>5. InLine(w, r, d, t, n)
    <2>1. Up(w) /\ Up(r) /\ Up(d) /\ Up(t)
        BY <1>3, <1>4 DEF InLine, Before
    <2>2. Before(ToSet(w), ToSet(r) \cup ToSet(d) \cup ToSet(t) \cup {n + 1})
        BY <1>3, <1>4 DEF InLine, Before
    <2>3. Before(ToSet(r), ToSet(d) \cup ToSet(t) \cup {n + 1})
        BY <1>3, <1>4 DEF InLine, Before
    <2>4. Before(ToSet(d), ToSet(t) \cup {n + 1})
        BY <1>3, <1>4 DEF InLine, Before
    <2>5. Before(ToSet(t), {n + 1})
        BY <1>3, <1>4 DEF InLine, Before
    <2> QED
        BY <2>1, <2>2, <2>3, <2>4, <2>5 DEF InLine
<1>6. Content(w, r, d, t) = Content(w, r, b, c)
    BY <1>3, <1>4 DEF Content
<1> QED
    BY <1>3, <1>4, <1>5, <1>6

\* The buffer is committed, or is to be retried.
LEMMA FlushInLine ==
    ASSUME NEW w \in Seq(Messages), NEW b \in Seq(Messages), NEW c \in Seq(Messages),
           NEW n \in Nat, InLine(w, <<>>, b, c, n)
    PROVE  /\ w \o b \in Seq(Messages)
           /\ InLine(w \o b, <<>>, <<>>, c, n)
           /\ InLine(w, b, <<>>, c, n)
           /\ Content(w \o b, <<>>, <<>>, c) = Content(w, <<>>, b, c)
           /\ Content(w, b, <<>>, c) = Content(w, <<>>, b, c)
<1>1. Messages \subseteq Nat
    BY DEF Messages
<1>2. /\ ToSet(w) \subseteq Nat /\ ToSet(b) \subseteq Nat /\ ToSet(c) \subseteq Nat
      /\ ToSet(<<>>) = {} /\ Up(<<>>)
    BY <1>1, Elements, Order
<1>3. PICK d \in Seq(Messages) :
        /\ d = w \o b
        /\ ToSet(d) = ToSet(w) \cup ToSet(b)
        /\ Up(d) <=> Up(w) /\ Up(b) /\ Before(ToSet(w), ToSet(b))
    BY JoinMessages
<1>4. InLine(d, <<>>, <<>>, c, n) /\ InLine(w, b, <<>>, c, n)
    BY <1>2, <1>3 DEF InLine, Before
<1>5. /\ Content(d, <<>>, <<>>, c) = Content(w, <<>>, b, c)
      /\ Content(w, b, <<>>, c) = Content(w, <<>>, b, c)
    BY <1>2, <1>3 DEF Content
<1> QED
    BY <1>3, <1>4, <1>5

\* One row is inserted by itself, or dropped.
LEMMA RetryInLine ==
    ASSUME NEW w \in Seq(Messages), NEW r \in Seq(Messages), NEW b \in Seq(Messages),
           NEW c \in Seq(Messages), NEW n \in Nat, r # <<>>,
           InLine(w, r, b, c, n)
    PROVE  /\ Append(w, Head(r)) \in Seq(Messages)
           /\ Tail(r) \in Seq(Messages)
           /\ Head(r) \in Messages
           /\ InLine(Append(w, Head(r)), Tail(r), b, c, n)
           /\ InLine(w, Tail(r), b, c, n)
           /\ Content(Append(w, Head(r)), Tail(r), b, c) = Content(w, r, b, c)
           /\ {Head(r)} \cup Content(w, Tail(r), b, c) = Content(w, r, b, c)
<1>1. Messages \subseteq Nat
    BY DEF Messages
<1>2. /\ ToSet(w) \subseteq Nat /\ ToSet(r) \subseteq Nat /\ ToSet(b) \subseteq Nat
      /\ ToSet(c) \subseteq Nat
    BY <1>1, Elements
<1>3. PICK e \in Messages, t \in Seq(Messages) :
        /\ e = Head(r) /\ t = Tail(r)
        /\ ToSet(r) = {e} \cup ToSet(t)
        /\ Up(r) <=> Up(t) /\ Before({e}, ToSet(t))
    BY TakeMessage
<1>4. PICK d \in Seq(Messages) :
        /\ d = Append(w, e)
        /\ ToSet(d) = ToSet(w) \cup {e}
        /\ Up(d) <=> Up(w) /\ Before(ToSet(w), {e})
    BY AppendMessage
<1>5. InLine(d, t, b, c, n) /\ InLine(w, t, b, c, n)
    BY <1>2, <1>3, <1>4 DEF InLine, Before
<1>6. Content(d, t, b, c) = Content(w, r, b, c) /\ {e} \cup Content(w, t, b, c) = Content(w, r, b, c)
    BY <1>3, <1>4 DEF Content
<1> QED
    BY <1>3, <1>4, <1>5, <1>6

\* The receiver is dropped with what is queued.
LEMMA DropInLine ==
    ASSUME NEW w \in Seq(Messages), NEW r \in Seq(Messages), NEW b \in Seq(Messages),
           NEW c \in Seq(Messages), NEW n \in Nat, InLine(w, r, b, c, n)
    PROVE  InLine(w, r, b, <<>>, n)
<1>1. ToSet(<<>>) = {} /\ Up(<<>>)
    BY DEF ToSet, Up
<1> QED
    BY <1>1 DEF InLine, Before

-----------------------------------------------------------------------------
(* Type correctness.                                                       *)

\* EngineTypeOK in parts, for the steps that change one of them.
CallTypes ==
    /\ current \in Sessions \cup {NoSession}
    /\ row \in [Sessions -> {"absent", "open", "stopped"}]
    /\ start \in [Sessions -> {"none", "checked", "starting", "up", "done", "failed"}]
    /\ stop \in [Sessions -> {"none", "capture", "writer", "row"}]

CaptureTypes ==
    /\ capture \in [Sessions -> {"off", "on", "sending", "lastSend", "closing"}]
    /\ told \in [Sessions -> BOOLEAN]
    /\ late \in [Sessions -> BOOLEAN]
    /\ overran \in [Sessions -> BOOLEAN]

WriterTypes ==
    /\ writer \in [Sessions -> {"none", "run", "drain", "lastFlush", "gone"}]
    /\ writerTold \in [Sessions -> BOOLEAN]
    /\ failed \in [Sessions -> SUBSET Messages]
    /\ faults \in 0..MaxFaults

QueueTypes ==
    /\ channel \in [Sessions -> Seq(Messages)]
    /\ \A s \in Sessions : Len(channel[s]) <= ChannelCapacity

BufferTypes ==
    /\ buf \in [Sessions -> Seq(Messages)]
    /\ retry \in [Sessions -> Seq(Messages)]
    /\ written \in [Sessions -> Seq(Messages)]
    /\ \A s \in Sessions : Len(buf[s]) < BatchMax

SentTypes == sent \in [Sessions -> 0..MaxMessages]

Typed == CallTypes /\ CaptureTypes /\ WriterTypes /\ QueueTypes /\ BufferTypes /\ SentTypes

\* The parts are the whole.
LEMMA TypedIsOK == Typed <=> EngineTypeOK
BY DEF Typed, EngineTypeOK, CallTypes, CaptureTypes, WriterTypes, QueueTypes, BufferTypes,
   SentTypes

\* At launch nothing has been captured.
LEMMA TypedInit == Init => Typed
<1> SUFFICES ASSUME Init PROVE Typed
    OBVIOUS
<1>1. <<>> \in Seq(Messages) /\ Len(<<>>) = 0
    BY EmptySeq
<1>2. CallTypes
    BY DEF Init, CallTypes
<1>3. CaptureTypes
    BY DEF Init, CaptureTypes
<1>4. WriterTypes
    BY DEF Init, WriterTypes
<1>5. QueueTypes /\ BufferTypes
    BY <1>1 DEF Init, QueueTypes, BufferTypes
<1>6. SentTypes
    BY DEF Init, SentTypes
<1> QED
    BY <1>2, <1>3, <1>4, <1>5, <1>6 DEF Typed

\* A flush empties the buffer and keeps the messages messages.
LEMMA FlushTypes ==
    ASSUME BufferTypes, WriterTypes, NEW t \in Sessions, NEW batch \in Seq(Messages),
           FlushBatch(t, batch)
    PROVE  BufferTypes' /\ faults' \in 0..MaxFaults
<1>1. <<>> \in Seq(Messages) /\ Len(<<>>) = 0
    BY EmptySeq
<1>2. buf' \in [Sessions -> Seq(Messages)] /\ \A s \in Sessions : Len(buf'[s]) < BatchMax
    BY <1>1 DEF FlushBatch, BufferTypes
<1>3. CASE /\ written' = [written EXCEPT ![t] = @ \o batch]
           /\ UNCHANGED <<retry, faults>>
    <2>1. written[t] \o batch \in Seq(Messages)
        BY Elements DEF BufferTypes
    <2>2. written' \in [Sessions -> Seq(Messages)]
        BY <1>3, <2>1 DEF BufferTypes
    <2> QED
        BY <1>2, <1>3, <2>2 DEF BufferTypes, WriterTypes
<1>4. CASE /\ faults < MaxFaults
           /\ faults' = faults + 1
           /\ retry' = [retry EXCEPT ![t] = batch]
           /\ UNCHANGED written
    <2>1. retry' \in [Sessions -> Seq(Messages)] /\ faults' \in 0..MaxFaults
        BY <1>4 DEF BufferTypes, WriterTypes
    <2> QED
        BY <1>2, <1>4, <2>1 DEF BufferTypes
<1> QED
    BY <1>3, <1>4 DEF FlushBatch

\* So does buffering one message.
LEMMA TakeTypes ==
    ASSUME QueueTypes, BufferTypes, WriterTypes, NEW t \in Sessions, channel[t] # <<>>,
           Take(t)
    PROVE  QueueTypes' /\ BufferTypes' /\ faults' \in 0..MaxFaults
<1>1. PICK batch \in Seq(Messages) :
        batch = Append(buf[t], Head(channel[t])) /\ Len(batch) = Len(buf[t]) + 1
    <2>1. buf[t] \in Seq(Messages) /\ channel[t] \in Seq(Messages)
        BY DEF BufferTypes, QueueTypes
    <2>2. Head(channel[t]) \in Messages
        BY <2>1, Elements
    <2> QED
        BY <2>1, <2>2, AppendMessage
<1>2. Len(batch) \in Nat
    BY LenProperties
<1>3. QueueTypes'
    <2>1. /\ Tail(channel[t]) \in Seq(Messages)
          /\ Len(Tail(channel[t])) = Len(channel[t]) - 1
          /\ Len(channel[t]) \in Nat
        BY Elements, LenProperties DEF QueueTypes
    <2> QED
        BY <2>1 DEF QueueTypes, Take
<1>4. CASE Len(batch) < BatchMax /\ buf' = [buf EXCEPT ![t] = batch] /\ UNCHANGED <<retry, written, faults>>
    <2>1. buf' \in [Sessions -> Seq(Messages)] /\ \A s \in Sessions : Len(buf'[s]) < BatchMax
        BY <1>4 DEF BufferTypes
    <2> QED
        BY <1>3, <1>4, <2>1 DEF BufferTypes, WriterTypes
<1>5. CASE FlushBatch(t, batch)
    BY <1>3, <1>5, FlushTypes
<1> QED
    BY <1>1, <1>4, <1>5 DEF Take

\* Every step keeps every part well typed.
LEMMA TypedStep == Typed /\ [Next]_engineVars => Typed'
<1> SUFFICES ASSUME Typed, [Next]_engineVars PROVE Typed'
    OBVIOUS
<1>a. CallTypes /\ CaptureTypes /\ WriterTypes /\ QueueTypes /\ BufferTypes /\ SentTypes
    BY DEF Typed
<1>b. SUFFICES /\ CallTypes' /\ CaptureTypes' /\ WriterTypes' /\ QueueTypes' /\ BufferTypes'
               /\ SentTypes'
    BY DEF Typed
<1>c. UNCHANGED <<current, row, start, stop>> => CallTypes'
    BY <1>a DEF CallTypes
<1>d. UNCHANGED <<capture, told, late, overran>> => CaptureTypes'
    BY <1>a DEF CaptureTypes
<1>e. UNCHANGED <<writer, writerTold, failed, faults>> => WriterTypes'
    BY <1>a DEF WriterTypes
<1>f. UNCHANGED channel => QueueTypes'
    BY <1>a DEF QueueTypes
<1>g. UNCHANGED <<buf, retry, written>> => BufferTypes'
    BY <1>a DEF BufferTypes
<1>h. UNCHANGED sent => SentTypes'
    BY <1>a DEF SentTypes
<1>i. ASSUME NEW t \in Sessions, TrySend(t) PROVE QueueTypes' /\ SentTypes'
    <2>1. sent[t] + 1 \in Messages /\ sent[t] + 1 \in 0..MaxMessages
        BY <1>a, <1>i DEF SentTypes, TrySend, Messages
    <2>2. /\ Append(channel[t], sent[t] + 1) \in Seq(Messages)
          /\ Len(Append(channel[t], sent[t] + 1)) = Len(channel[t]) + 1
          /\ Len(channel[t]) \in Nat
        BY <1>a, <2>1, Elements, LenProperties DEF QueueTypes
    <2>3. QueueTypes'
        BY <1>a, <1>i, <2>2 DEF QueueTypes, TrySend, Accept
    <2>4. SentTypes'
        BY <1>a, <1>i, <2>1 DEF SentTypes, TrySend, Accept
    <2> QED
        BY <2>3, <2>4
<1> USE DEF startVars, captureVars, writerVars
<1>1. ASSUME NEW t \in Sessions, StartCheck(t) \/ StopTake(t) \/ StopJoin(t)
      PROVE  Typed'
    <2>1. CallTypes'
        BY <1>a, <1>1 DEF StartCheck, StopTake, StopJoin, CallTypes
    <2>2. CaptureTypes'
        BY <1>a, <1>1 DEF StartCheck, StopTake, StopJoin, CaptureTypes
    <2> QED
        BY <1>1, <1>e, <1>f, <1>g, <1>h, <2>1, <2>2 DEF StartCheck, StopTake, StopJoin, Typed
<1>2. ASSUME NEW t \in Sessions, StartSession(t) \/ StopSession(t)
      PROVE  Typed'
    <2>1. CallTypes'
        BY <1>a, <1>2 DEF StartSession, StopSession, CallTypes
    <2>2. WriterTypes'
        BY <1>a, <1>2 DEF StartSession, StopSession, WriterTypes
    <2> QED
        BY <1>2, <1>d, <1>f, <1>g, <1>h, <2>1, <2>2 DEF StartSession, StopSession, Typed
<1>3. ASSUME NEW t \in Sessions, StartPlatform(t)
      PROVE  Typed'
    <2>1. CallTypes'
        BY <1>a, <1>3 DEF StartPlatform, CallTypes
    <2>2. CaptureTypes'
        BY <1>a, <1>3 DEF StartPlatform, CaptureTypes
    <2>3. WriterTypes'
        BY <1>a, <1>3 DEF StartPlatform, WriterTypes
    <2> QED
        BY <1>3, <1>f, <1>g, <1>h, <2>1, <2>2, <2>3 DEF StartPlatform, Typed
<1>4. ASSUME NEW t \in Sessions, StartInstall(t)
      PROVE  Typed'
    <2>1. CallTypes'
        BY <1>a, <1>4 DEF StartInstall, CallTypes
    <2>2. CaptureTypes'
        BY <1>a, <1>4 DEF StartInstall, CaptureTypes
    <2>3. WriterTypes'
        BY <1>a, <1>4 DEF StartInstall, WriterTypes
    <2> QED
        BY <1>4, <1>f, <1>g, <1>h, <2>1, <2>2, <2>3 DEF StartInstall, Typed
<1>5. ASSUME NEW t \in Sessions, StopWriter(t)
      PROVE  Typed'
    <2>1. CallTypes'
        BY <1>a, <1>5 DEF StopWriter, CallTypes
    <2>2. WriterTypes'
        BY <1>a, <1>5 DEF StopWriter, WriterTypes
    <2> QED
        BY <1>5, <1>d, <1>f, <1>g, <1>h, <2>1, <2>2 DEF StopWriter, Typed
<1>6. ASSUME NEW t \in Sessions, EmitLossy(t) \/ Snapshot(t)
      PROVE  Typed'
    BY <1>6, <1>c, <1>d, <1>e, <1>g, <1>i DEF EmitLossy, Snapshot, Typed
<1>7. ASSUME NEW t \in Sessions,
             EmitBlocking(t) \/ NormalizerStops(t) \/ SupervisorEnds(t) \/ LateWorkerEnds(t)
      PROVE  Typed'
    <2>1. CaptureTypes'
        BY <1>a, <1>7
        DEF EmitBlocking, NormalizerStops, SupervisorEnds, LateWorkerEnds, CaptureTypes
    <2> QED
        BY <1>7, <1>c, <1>e, <1>f, <1>g, <1>h, <2>1
        DEF EmitBlocking, NormalizerStops, SupervisorEnds, LateWorkerEnds, Typed
<1>8. ASSUME NEW t \in Sessions, Sent(t)
      PROVE  Typed'
    <2>1. CaptureTypes'
        BY <1>a, <1>8 DEF Sent, CaptureTypes
    <2>2. QueueTypes' /\ SentTypes'
        BY <1>8, <1>f, <1>h, <1>i DEF Sent
    <2> QED
        BY <1>8, <1>c, <1>e, <1>g, <2>1, <2>2 DEF Sent, Typed
<1>9. ASSUME NEW t \in Sessions, WriteOne(t)
      PROVE  Typed'
    <2>1. PICK e \in Messages, r \in Seq(Messages) : e = Head(retry[t]) /\ r = Tail(retry[t])
        BY <1>a, <1>9, TakeMessage DEF WriteOne, BufferTypes
    <2>2. Append(written[t], e) \in Seq(Messages)
        BY <1>a, <2>1, Elements DEF BufferTypes
    <2>3. BufferTypes'
        BY <1>a, <1>9, <2>1, <2>2 DEF WriteOne, BufferTypes
    <2>4. WriterTypes'
        BY <1>a, <1>9, <2>1 DEF WriteOne, WriterTypes
    <2> QED
        BY <1>9, <1>c, <1>d, <1>f, <1>h, <2>3, <2>4 DEF WriteOne, Typed
<1>10. ASSUME NEW t \in Sessions, Receive(t)
       PROVE  Typed'
    <2>1. QueueTypes' /\ BufferTypes' /\ faults' \in 0..MaxFaults
        BY <1>a, <1>10, TakeTypes DEF Receive
    <2>2. WriterTypes'
        BY <1>a, <1>10, <2>1 DEF Receive, WriterTypes
    <2> QED
        BY <1>10, <1>c, <1>d, <1>h, <2>1, <2>2 DEF Receive, Typed
<1>11. ASSUME NEW t \in Sessions, FlushTick(t) \/ LastFlush(t)
       PROVE  Typed'
    <2>1. buf[t] \in Seq(Messages)
        BY <1>a DEF BufferTypes
    <2>2. BufferTypes' /\ faults' \in 0..MaxFaults
        BY <1>a, <1>11, <2>1, FlushTypes DEF FlushTick, LastFlush
    <2>3. WriterTypes'
        BY <1>a, <1>11, <2>2 DEF FlushTick, LastFlush, WriterTypes
    <2> QED
        BY <1>11, <1>c, <1>d, <1>f, <1>h, <2>2, <2>3 DEF FlushTick, LastFlush, Typed
<1>12. ASSUME NEW t \in Sessions, ChannelClosed(t) \/ ShutdownSeen(t)
       PROVE  Typed'
    <2>1. WriterTypes'
        BY <1>a, <1>12 DEF ChannelClosed, ShutdownSeen, WriterTypes
    <2> QED
        BY <1>12, <1>c, <1>d, <1>f, <1>g, <1>h, <2>1 DEF ChannelClosed, ShutdownSeen, Typed
<1>13. ASSUME NEW t \in Sessions, Drain(t)
       PROVE  Typed'
    <2>1. QueueTypes' /\ BufferTypes' /\ faults' \in 0..MaxFaults
        <3>1. CASE channel[t] # <<>> /\ Take(t)
            BY <1>a, <3>1, TakeTypes
        <3>2. CASE UNCHANGED <<channel, buf, retry, written, faults>>
            BY <1>a, <3>2, <1>f, <1>g DEF WriterTypes
        <3> QED
            BY <1>13, <3>1, <3>2 DEF Drain
    <2>2. WriterTypes'
        BY <1>a, <1>13, <2>1 DEF Drain, WriterTypes
    <2> QED
        BY <1>13, <1>c, <1>d, <1>h, <2>1, <2>2 DEF Drain, Typed
<1>14. ASSUME NEW t \in Sessions, WriterEnds(t)
       PROVE  Typed'
    <2>1. WriterTypes'
        BY <1>a, <1>14 DEF WriterEnds, WriterTypes
    <2>2. <<>> \in Seq(Messages) /\ Len(<<>>) = 0
        BY EmptySeq
    <2>3. QueueTypes'
        BY <1>a, <1>14, <2>2 DEF WriterEnds, QueueTypes
    <2> QED
        BY <1>14, <1>c, <1>d, <1>g, <1>h, <2>1, <2>3 DEF WriterEnds, Typed
<1>15. CASE UNCHANGED engineVars
    BY <1>15, <1>c, <1>d, <1>e, <1>f, <1>g, <1>h DEF engineVars, Typed
<1> QED
    BY <1>1, <1>2, <1>3, <1>4, <1>5, <1>6, <1>7, <1>8, <1>9, <1>10, <1>11, <1>12, <1>13,
       <1>14, <1>15
    DEF Next, StopStep, CaptureStep, WriterStep, Typed

\* Typed holds in every reachable state.
LEMMA TypedAlways == Spec => []Typed
<1>1. Init => Typed
    BY TypedInit
<1>2. Typed /\ [Next]_engineVars => Typed'
    BY TypedStep
<1> QED
    BY <1>1, <1>2, PTL DEF Spec

\* Every variable of the engine keeps its type: a channel stays within its
\* capacity and a buffer below the batch that flushes it.
THEOREM EngineTypeCorrect == Spec => []EngineTypeOK
<1>1. Typed => EngineTypeOK
    BY TypedIsOK
<1> QED
    BY <1>1, TypedAlways, PTL

-----------------------------------------------------------------------------
(* What a step does to the line of a session.                              *)

Ordered(s) == InLine(written[s], retry[s], buf[s], channel[s], sent[s])

\* The messages of a session that are somewhere.
Known(s) == failed[s] \cup Content(written[s], retry[s], buf[s], channel[s])

Accepts(s) ==
    /\ sent'[s] = sent[s] + 1
    /\ Known(s)' = Known(s) \cup {sent[s] + 1}
    /\ capture[s] # "off" \/ late[s]
    /\ writer[s] # "gone"

Keeps(s) ==
    /\ sent'[s] = sent[s]
    /\ Known(s)' = Known(s)
    /\ channel[s] = <<>> => channel'[s] = <<>>

\* A flush moves the batch to the rows or to the rows to be retried.
LEMMA FlushLine ==
    ASSUME BufferTypes, NEW s \in Sessions, NEW b \in Seq(Messages), NEW c \in Seq(Messages),
           NEW n \in Nat, FlushBatch(s, b), retry[s] = <<>>,
           InLine(written[s], <<>>, b, c, n)
    PROVE  /\ InLine(written'[s], retry'[s], buf'[s], c, n)
           /\ Content(written'[s], retry'[s], buf'[s], c) = Content(written[s], <<>>, b, c)
<1>1. written[s] \in Seq(Messages) /\ buf'[s] = <<>>
    BY DEF BufferTypes, FlushBatch
<1>2. /\ InLine(written[s] \o b, <<>>, <<>>, c, n)
      /\ InLine(written[s], b, <<>>, c, n)
      /\ Content(written[s] \o b, <<>>, <<>>, c) = Content(written[s], <<>>, b, c)
      /\ Content(written[s], b, <<>>, c) = Content(written[s], <<>>, b, c)
    BY <1>1, FlushInLine
<1>3. CASE written' = [written EXCEPT ![s] = @ \o b] /\ UNCHANGED <<retry, faults>>
    <2>1. written'[s] = written[s] \o b /\ retry'[s] = <<>>
        BY <1>3 DEF BufferTypes
    <2> QED
        BY <1>1, <1>2, <2>1
<1>4. CASE retry' = [retry EXCEPT ![s] = b] /\ UNCHANGED written
    <2>1. written'[s] = written[s] /\ retry'[s] = b
        BY <1>4 DEF BufferTypes
    <2> QED
        BY <1>1, <1>2, <2>1
<1> QED
    BY <1>3, <1>4 DEF FlushBatch

\* Every step of any session keeps the line of session s in order, and loses
\* nothing but what its channel holds when its writer ends.
LEMMA LineStep ==
    ASSUME Typed, [Next]_engineVars, NEW s \in Sessions, Ordered(s)
    PROVE  /\ Ordered(s)'
           /\ Keeps(s) \/ Accepts(s) \/ (WriterEnds(s) /\ retry[s] = <<>>)
<1>a. /\ written[s] \in Seq(Messages) /\ retry[s] \in Seq(Messages)
      /\ buf[s] \in Seq(Messages) /\ channel[s] \in Seq(Messages)
      /\ sent[s] \in 0..MaxMessages /\ sent[s] \in Nat
      /\ failed[s] \in SUBSET Messages
    BY DEF Typed, BufferTypes, QueueTypes, SentTypes, WriterTypes
<1>b. InLine(written[s], retry[s], buf[s], channel[s], sent[s])
    BY DEF Ordered
<1>c. ASSUME /\ written'[s] = written[s] /\ retry'[s] = retry[s] /\ buf'[s] = buf[s]
             /\ channel'[s] = channel[s] /\ sent'[s] = sent[s] /\ failed'[s] = failed[s]
      PROVE  Ordered(s)' /\ Keeps(s)
    BY <1>b, <1>c DEF Ordered, Keeps, Known
<1>d. UNCHANGED <<written, retry, buf, channel, sent, failed>> => Ordered(s)' /\ Keeps(s)
    BY <1>c
<1>e. ASSUME NEW t \in Sessions, t # s, TrySend(t),
             UNCHANGED <<written, retry, buf, failed>>
      PROVE  Ordered(s)' /\ Keeps(s)
    <2>1. channel'[s] = channel[s] /\ sent'[s] = sent[s]
        BY <1>e DEF TrySend, Accept, Typed, QueueTypes, SentTypes
    <2> QED
        BY <1>c, <1>e, <2>1
<1>f. ASSUME TrySend(s), capture[s] # "off" \/ late[s],
             UNCHANGED <<written, retry, buf, failed>>
      PROVE  Ordered(s)' /\ Accepts(s)
    <2>1. sent[s] + 1 \in Messages
        BY <1>a, <1>f DEF TrySend, Messages
    <2>2. channel'[s] = Append(channel[s], sent[s] + 1) /\ sent'[s] = sent[s] + 1
        BY <1>f DEF TrySend, Accept, Typed, QueueTypes, SentTypes
    <2>3. /\ InLine(written[s], retry[s], buf[s], Append(channel[s], sent[s] + 1), sent[s] + 1)
          /\ Content(written[s], retry[s], buf[s], Append(channel[s], sent[s] + 1))
               = Content(written[s], retry[s], buf[s], channel[s]) \cup {sent[s] + 1}
        <3>1. PICK n \in Nat : n = sent[s]
            BY <1>a
        <3>2. n + 1 \in Messages /\ InLine(written[s], retry[s], buf[s], channel[s], n)
            BY <1>b, <2>1, <3>1
        <3>3. PICK w \in Seq(Messages), r \in Seq(Messages), b \in Seq(Messages),
                   c \in Seq(Messages) :
                w = written[s] /\ r = retry[s] /\ b = buf[s] /\ c = channel[s]
            BY <1>a
        <3>4. InLine(w, r, b, c, n)
            BY <3>2, <3>3
        <3>5. /\ InLine(w, r, b, Append(c, n + 1), n + 1)
              /\ Content(w, r, b, Append(c, n + 1)) = Content(w, r, b, c) \cup {n + 1}
            BY <3>2, <3>4, AcceptInLine
        <3> QED
            BY <3>1, <3>3, <3>5
    <2>4. Ordered(s)'
        BY <1>f, <2>2, <2>3 DEF Ordered
    <2>5. Known(s)' = Known(s) \cup {sent[s] + 1}
        BY <1>f, <2>2, <2>3 DEF Known
    <2> QED
        BY <1>f, <2>2, <2>4, <2>5 DEF Accepts, TrySend
<1>g. ASSUME NEW t \in Sessions, t # s, NEW b, FlushBatch(t, b)
      PROVE  written'[s] = written[s] /\ retry'[s] = retry[s] /\ buf'[s] = buf[s]
    BY <1>g DEF FlushBatch, Typed, BufferTypes
<1>h. ASSUME NEW t \in Sessions, Take(t), retry[t] = <<>>, channel[t] # <<>>,
             UNCHANGED <<sent, failed>>
      PROVE  Ordered(s)' /\ Keeps(s)
    <2>1. CASE t # s
        <3>1. channel'[s] = channel[s]
            BY <1>h, <2>1 DEF Take, Typed, QueueTypes
        <3>2. PICK b : b = Append(buf[t], Head(channel[t]))
            OBVIOUS
        <3>3. written'[s] = written[s] /\ retry'[s] = retry[s] /\ buf'[s] = buf[s]
            <4>1. CASE buf' = [buf EXCEPT ![t] = b] /\ UNCHANGED <<retry, written, faults>>
                BY <2>1, <4>1 DEF Typed, BufferTypes
            <4>2. CASE FlushBatch(t, b)
                BY <1>g, <2>1, <4>2
            <4> QED
                BY <1>h, <3>2, <4>1, <4>2 DEF Take
        <3> QED
            BY <1>c, <1>h, <3>1, <3>3
    <2>2. CASE t = s
        <3>1. PICK b \in Seq(Messages), c \in Seq(Messages) :
                /\ b = Append(buf[s], Head(channel[s]))
                /\ c = Tail(channel[s])
                /\ InLine(written[s], <<>>, b, c, sent[s])
                /\ Content(written[s], <<>>, b, c)
                     = Content(written[s], retry[s], buf[s], channel[s])
            <4>1. /\ Append(buf[s], Head(channel[s])) \in Seq(Messages)
                  /\ Tail(channel[s]) \in Seq(Messages)
                  /\ InLine(written[s], retry[s], Append(buf[s], Head(channel[s])),
                            Tail(channel[s]), sent[s])
                  /\ Content(written[s], retry[s], Append(buf[s], Head(channel[s])),
                             Tail(channel[s]))
                       = Content(written[s], retry[s], buf[s], channel[s])
                BY <1>a, <1>b, <1>h, <2>2, TakeInLine
            <4>2. retry[s] = <<>>
                BY <1>h, <2>2
            <4> QED
                BY <4>1, <4>2, Zenon
        <3>2. channel'[s] = c
            BY <1>h, <2>2, <3>1 DEF Take, Typed, QueueTypes
        <3>3. /\ InLine(written'[s], retry'[s], buf'[s], c, sent[s])
              /\ Content(written'[s], retry'[s], buf'[s], c) = Content(written[s], <<>>, b, c)
            <4>1. CASE buf' = [buf EXCEPT ![s] = b] /\ UNCHANGED <<retry, written, faults>>
                <5>1. buf'[s] = b /\ written'[s] = written[s] /\ retry'[s] = <<>>
                    BY <1>h, <2>2, <4>1 DEF Typed, BufferTypes
                <5> QED
                    BY <3>1, <5>1
            <4>2. CASE FlushBatch(s, b)
                <5>1. PICK n \in Nat : n = sent[s]
                    BY <1>a
                <5>2. FlushBatch(s, b) /\ retry[s] = <<>>
                    BY <1>h, <2>2, <4>2
                <5>3. InLine(written[s], <<>>, b, c, n)
                    BY <3>1, <5>1
                <5>4. BufferTypes
                    BY DEF Typed
                <5>5. /\ InLine(written'[s], retry'[s], buf'[s], c, n)
                      /\ Content(written'[s], retry'[s], buf'[s], c) = Content(written[s], <<>>, b, c)
                    BY <5>2, <5>3, <5>4, FlushLine
                <5> QED
                    BY <5>1, <5>5
            <4> QED
                BY <1>h, <2>2, <3>1, <4>1, <4>2 DEF Take
        <3>4. Ordered(s)'
            BY <1>h, <3>2, <3>3 DEF Ordered
        <3>5. Known(s)' = Known(s)
            BY <1>h, <3>1, <3>2, <3>3 DEF Known
        <3> QED
            BY <1>h, <2>2, <3>4, <3>5 DEF Keeps
    <2> QED
        BY <2>1, <2>2
<1>i. ASSUME NEW t \in Sessions, FlushBatch(t, buf[t]), retry[t] = <<>>,
             UNCHANGED <<channel, sent, failed>>
      PROVE  Ordered(s)' /\ Keeps(s)
    <2>1. CASE t # s
        <3>1. written'[s] = written[s] /\ retry'[s] = retry[s] /\ buf'[s] = buf[s]
            BY <1>i, <2>1 DEF FlushBatch, Typed, BufferTypes
        <3> QED
            BY <1>c, <1>i, <3>1
    <2>2. CASE t = s
        <3>1. PICK b \in Seq(Messages), c \in Seq(Messages), n \in Nat :
                b = buf[s] /\ c = channel[s] /\ n = sent[s]
            BY <1>a
        <3>2. FlushBatch(s, b) /\ InLine(written[s], <<>>, b, c, n) /\ retry[s] = <<>>
            BY <1>b, <1>i, <2>2, <3>1
        <3>3. /\ InLine(written'[s], retry'[s], buf'[s], c, n)
              /\ Content(written'[s], retry'[s], buf'[s], c) = Content(written[s], <<>>, b, c)
            BY <3>2, FlushLine DEF Typed
        <3>4. channel'[s] = c /\ sent'[s] = n /\ failed'[s] = failed[s]
            BY <1>i, <3>1
        <3>5. Ordered(s)'
            BY <3>3, <3>4 DEF Ordered
        <3>6. Known(s)' = Known(s)
            BY <3>1, <3>2, <3>3, <3>4 DEF Known
        <3> QED
            BY <3>1, <3>4, <3>5, <3>6 DEF Keeps
    <2> QED
        BY <2>1, <2>2
<1> USE DEF startVars, captureVars, writerVars
<1>1. ASSUME NEW t \in Sessions,
             \/ StartCheck(t) \/ StartSession(t) \/ StartPlatform(t) \/ StartInstall(t)
             \/ StopTake(t) \/ StopStep(t)
             \/ EmitBlocking(t) \/ LateWorkerEnds(t) \/ NormalizerStops(t) \/ SupervisorEnds(t)
             \/ ShutdownSeen(t) \/ ChannelClosed(t)
      PROVE  Ordered(s)' /\ Keeps(s)
    BY <1>1, <1>d
    DEF StartCheck, StartSession, StartPlatform, StartInstall, StopTake, StopStep, StopWriter,
        StopJoin, StopSession, EmitBlocking, LateWorkerEnds, NormalizerStops, SupervisorEnds,
        ShutdownSeen, ChannelClosed
<1>2. ASSUME NEW t \in Sessions, EmitLossy(t) \/ Snapshot(t)
      PROVE  Ordered(s)' /\ (Keeps(s) \/ Accepts(s))
    <2>1. TrySend(t) /\ (capture[t] # "off" \/ late[t]) /\ UNCHANGED <<written, retry, buf, failed>>
        BY <1>2 DEF EmitLossy, Snapshot
    <2> QED
        BY <1>e, <1>f, <2>1
<1>3. ASSUME NEW t \in Sessions, Sent(t)
      PROVE  Ordered(s)' /\ (Keeps(s) \/ Accepts(s))
    <2>1. capture[t] # "off" /\ UNCHANGED <<written, retry, buf, failed>>
        BY <1>3 DEF Sent
    <2>2. CASE TrySend(t)
        BY <1>e, <1>f, <2>1, <2>2
    <2>3. CASE UNCHANGED <<channel, sent>>
        BY <1>d, <2>1, <2>3
    <2> QED
        BY <1>3, <2>2, <2>3 DEF Sent
<1>4. ASSUME NEW t \in Sessions, WriteOne(t)
      PROVE  Ordered(s)' /\ Keeps(s)
    <2>1. CASE t # s
        <3>1. /\ written'[s] = written[s] /\ retry'[s] = retry[s] /\ failed'[s] = failed[s]
              /\ UNCHANGED <<buf, channel, sent>>
            BY <1>4, <2>1 DEF WriteOne, Typed, BufferTypes, WriterTypes
        <3> QED
            BY <1>c, <3>1
    <2>2. CASE t = s
        <3>1. /\ InLine(Append(written[s], Head(retry[s])), Tail(retry[s]), buf[s], channel[s],
                        sent[s])
              /\ InLine(written[s], Tail(retry[s]), buf[s], channel[s], sent[s])
              /\ Content(Append(written[s], Head(retry[s])), Tail(retry[s]), buf[s], channel[s])
                   = Content(written[s], retry[s], buf[s], channel[s])
              /\ {Head(retry[s])} \cup Content(written[s], Tail(retry[s]), buf[s], channel[s])
                   = Content(written[s], retry[s], buf[s], channel[s])
            <4>1. PICK w \in Seq(Messages), r \in Seq(Messages), b \in Seq(Messages),
                       c \in Seq(Messages), n \in Nat :
                    /\ w = written[s] /\ r = retry[s] /\ b = buf[s]
                    /\ c = channel[s] /\ n = sent[s]
                BY <1>a
            <4>2. r # <<>> /\ InLine(w, r, b, c, n)
                BY <1>b, <1>4, <2>2, <4>1 DEF WriteOne
            <4>3. /\ InLine(Append(w, Head(r)), Tail(r), b, c, n)
                  /\ InLine(w, Tail(r), b, c, n)
                  /\ Content(Append(w, Head(r)), Tail(r), b, c) = Content(w, r, b, c)
                  /\ {Head(r)} \cup Content(w, Tail(r), b, c) = Content(w, r, b, c)
                BY <4>2, RetryInLine
            <4> QED
                BY <4>1, <4>3
        <3>2. retry'[s] = Tail(retry[s]) /\ UNCHANGED <<buf, channel, sent>>
            BY <1>4, <2>2 DEF WriteOne, Typed, BufferTypes
        <3>3. CASE /\ written' = [written EXCEPT ![s] = Append(@, Head(retry[s]))]
                   /\ UNCHANGED failed
            <4>1. written'[s] = Append(written[s], Head(retry[s])) /\ failed'[s] = failed[s]
                BY <3>3 DEF Typed, BufferTypes
            <4>2. Ordered(s)'
                BY <3>1, <3>2, <4>1 DEF Ordered
            <4>3. Known(s)' = Known(s)
                BY <3>1, <3>2, <4>1 DEF Known
            <4> QED
                BY <3>2, <4>2, <4>3 DEF Keeps
        <3>4. CASE /\ failed' = [failed EXCEPT ![s] = @ \cup {Head(retry[s])}]
                   /\ UNCHANGED written
            <4>1. written'[s] = written[s] /\ failed'[s] = failed[s] \cup {Head(retry[s])}
                BY <3>4 DEF Typed, WriterTypes
            <4>2. Ordered(s)'
                BY <3>1, <3>2, <4>1 DEF Ordered
            <4>3. Known(s)' = Known(s)
                BY <3>1, <3>2, <4>1 DEF Known
            <4> QED
                BY <3>2, <4>2, <4>3 DEF Keeps
        <3> QED
            BY <1>4, <2>2, <3>3, <3>4 DEF WriteOne
    <2> QED
        BY <2>1, <2>2
<1>5. ASSUME NEW t \in Sessions, retry[t] = <<>>, Receive(t)
      PROVE  Ordered(s)' /\ Keeps(s)
    BY <1>5, <1>h DEF Receive
<1>6. ASSUME NEW t \in Sessions, retry[t] = <<>>, FlushTick(t) \/ LastFlush(t)
      PROVE  Ordered(s)' /\ Keeps(s)
    BY <1>6, <1>i DEF FlushTick, LastFlush
<1>7. ASSUME NEW t \in Sessions, retry[t] = <<>>, Drain(t)
      PROVE  Ordered(s)' /\ Keeps(s)
    <2>1. UNCHANGED <<sent, failed>>
        BY <1>7 DEF Drain
    <2>2. CASE channel[t] # <<>> /\ Take(t)
        BY <1>7, <1>h, <2>1, <2>2
    <2>3. CASE UNCHANGED <<channel, buf, retry, written, faults>>
        BY <1>d, <2>1, <2>3
    <2> QED
        BY <1>7, <2>2, <2>3 DEF Drain
<1>8. ASSUME NEW t \in Sessions, retry[t] = <<>>, WriterEnds(t)
      PROVE  Ordered(s)' /\ (Keeps(s) \/ (WriterEnds(s) /\ retry[s] = <<>>))
    <2>1. CASE t # s
        <3>1. channel'[s] = channel[s] /\ UNCHANGED <<written, retry, buf, sent, failed>>
            BY <1>8, <2>1 DEF WriterEnds, Typed, QueueTypes
        <3> QED
            BY <1>c, <3>1
    <2>2. CASE t = s
        <3>1. channel'[s] = <<>> /\ UNCHANGED <<written, retry, buf, sent, failed>>
            BY <1>8, <2>2 DEF WriterEnds, Typed, QueueTypes
        <3>2. InLine(written[s], retry[s], buf[s], <<>>, sent[s])
            BY <1>a, <1>b, DropInLine
        <3>3. Ordered(s)'
            BY <3>1, <3>2 DEF Ordered
        <3> QED
            BY <1>8, <2>2, <3>3
    <2> QED
        BY <2>1, <2>2
<1>9. CASE UNCHANGED engineVars
    BY <1>9, <1>d DEF engineVars
<1> QED
    BY <1>1, <1>2, <1>3, <1>4, <1>5, <1>6, <1>7, <1>8, <1>9
    DEF Next, CaptureStep, WriterStep

-----------------------------------------------------------------------------
(* The calls, the captures and the writers.                                *)

\* A handle in the state is that of a call that returned and of a session nobody
\* stops; the writer of a session is told once, when its start failed, its
\* handle was displaced, or its stop has seen the capture end.
Held(s) ==
    /\ current = s =>
          start[s] = "done" /\ stop[s] = "none" /\ ~writerTold[s] /\ row[s] # "stopped"
    /\ stop[s] # "none" => start[s] = "done" /\ row[s] # "stopped"
    /\ stop[s] = "capture" => ~writerTold[s]
    /\ row[s] = "stopped" => start[s] = "done"
    /\ writerTold[s] => start[s] \in {"done", "failed"}

\* The stop of the session has seen its capture end.
Ended(s) == stop[s] \in {"writer", "row"} \/ row[s] = "stopped"

Posture(s) ==
    /\ late[s] => overran[s]
    /\ Ended(s) => capture[s] = "off"
    /\ stop[s] = "row" \/ row[s] = "stopped" => writer[s] = "gone"
    /\ start[s] \in {"none", "checked", "starting", "failed"} => capture[s] = "off" /\ ~late[s]
    /\ start[s] \in {"none", "checked"} => writer[s] = "none"
    /\ writer[s] = "drain" => writerTold[s]
    /\ writer[s] = "gone" => buf[s] = <<>> /\ retry[s] = <<>> /\ channel[s] = <<>>

\* At launch there are none.
LEMMA PostureInit == ASSUME Init, NEW s \in Sessions PROVE Held(s) /\ Posture(s)
BY DEF Init, Held, Posture, Ended

\* Every step of the calls keeps them apart.
LEMMA HeldStep ==
    ASSUME Typed, [Next]_engineVars, NEW s \in Sessions, Held(s)
    PROVE  Held(s)'
<1>a. CallTypes /\ WriterTypes
    BY DEF Typed
<1>b. UNCHANGED <<current, row, start, stop, writerTold>> => Held(s)'
    BY DEF Held
<1> USE DEF startVars, captureVars, writerVars
<1>1. ASSUME NEW t \in Sessions, StartCheck(t) PROVE Held(s)'
    BY <1>a, <1>1 DEF StartCheck, Held, CallTypes
<1>2. ASSUME NEW t \in Sessions, StartSession(t) PROVE Held(s)'
    BY <1>a, <1>2 DEF StartSession, Held, CallTypes
<1>3. ASSUME NEW t \in Sessions, StartPlatform(t) PROVE Held(s)'
    BY <1>a, <1>3 DEF StartPlatform, Held, CallTypes, WriterTypes
<1>4. ASSUME NEW t \in Sessions, StartInstall(t) PROVE Held(s)'
    BY <1>a, <1>4 DEF StartInstall, Held, CallTypes, WriterTypes
<1>5. ASSUME NEW t \in Sessions, StopTake(t) PROVE Held(s)'
    BY <1>a, <1>5 DEF StopTake, Held, CallTypes
<1>6. ASSUME NEW t \in Sessions, StopWriter(t) PROVE Held(s)'
    BY <1>a, <1>6 DEF StopWriter, Held, CallTypes, WriterTypes
<1>7. ASSUME NEW t \in Sessions, StopJoin(t) PROVE Held(s)'
    BY <1>a, <1>7 DEF StopJoin, Held, CallTypes
<1>8. ASSUME NEW t \in Sessions, StopSession(t) PROVE Held(s)'
    BY <1>a, <1>8 DEF StopSession, Held, CallTypes
<1>9. ASSUME NEW t \in Sessions,
             \/ EmitLossy(t) \/ EmitBlocking(t) \/ Snapshot(t) \/ LateWorkerEnds(t)
             \/ CaptureStep(t)
      PROVE  Held(s)'
    BY <1>9, <1>b
    DEF EmitLossy, EmitBlocking, Snapshot, LateWorkerEnds, CaptureStep, NormalizerStops, Sent,
        SupervisorEnds
<1>10. ASSUME NEW t \in Sessions, WriterStep(t) PROVE Held(s)'
    BY <1>10, <1>b
    DEF WriterStep, WriteOne, Receive, FlushTick, ChannelClosed, ShutdownSeen, Drain, LastFlush,
        WriterEnds
<1>11. CASE UNCHANGED engineVars
    BY <1>11, <1>b DEF engineVars
<1> QED
    BY <1>1, <1>2, <1>3, <1>4, <1>5, <1>6, <1>7, <1>8, <1>9, <1>10, <1>11
    DEF Next, StopStep

\* So does every step of the captures and the writers.
LEMMA PostureStep ==
    ASSUME Typed, [Next]_engineVars, NEW s \in Sessions, Held(s), Posture(s)
    PROVE  Posture(s)'
<1>a. CallTypes /\ CaptureTypes /\ WriterTypes /\ QueueTypes /\ BufferTypes /\ SentTypes
    BY DEF Typed
<1> DEFINE Calls == /\ Ended(s)' => capture'[s] = "off"
                    /\ stop'[s] = "row" \/ row'[s] = "stopped" => writer'[s] = "gone"
                    /\ start'[s] \in {"none", "checked", "starting", "failed"} =>
                          capture'[s] = "off" /\ ~late'[s]
                    /\ start'[s] \in {"none", "checked"} => writer'[s] = "none"
           Late == late'[s] => overran'[s]
           Told == writer'[s] = "drain" => writerTold'[s]
           Gone == writer'[s] = "gone" =>
                      buf'[s] = <<>> /\ retry'[s] = <<>> /\ channel'[s] = <<>>
<1>b. SUFFICES Calls /\ Late /\ Told /\ Gone
    BY DEF Posture, Ended
<1>c. UNCHANGED <<row, start, stop, capture, late, writer>> => Calls
    BY DEF Posture, Ended
<1>d. UNCHANGED <<late, overran>> => Late
    BY DEF Posture
<1>e. UNCHANGED <<writer, writerTold>> => Told
    BY DEF Posture
<1>f. UNCHANGED <<writer, buf, retry, channel>> => Gone
    BY DEF Posture
<1> USE DEF startVars, captureVars, writerVars
<1>1. ASSUME NEW t \in Sessions, StartCheck(t) \/ StopTake(t) \/ StopJoin(t)
      PROVE  Calls /\ Late /\ Told /\ Gone
    <2>1. Calls
        BY <1>a, <1>1 DEF StartCheck, StopTake, StopJoin, Held, Posture, Ended, CallTypes
    <2> HIDE DEF Calls, Late, Told, Gone
    <2> QED
        BY <1>1, <1>d, <1>e, <1>f, <2>1 DEF StartCheck, StopTake, StopJoin
<1>2. ASSUME NEW t \in Sessions, StartSession(t)
      PROVE  Calls /\ Late /\ Told /\ Gone
    <2>1. Calls
        BY <1>a, <1>2 DEF StartSession, Held, Posture, Ended, CallTypes, WriterTypes
    <2>2. Told /\ Gone
        BY <1>a, <1>2 DEF StartSession, Posture, WriterTypes
    <2> HIDE DEF Calls, Late, Told, Gone
    <2> QED
        BY <1>2, <1>d, <2>1, <2>2 DEF StartSession
<1>3. ASSUME NEW t \in Sessions, StartPlatform(t)
      PROVE  Calls /\ Late /\ Told /\ Gone
    <2>1. Calls
        BY <1>a, <1>3 DEF StartPlatform, Held, Posture, Ended, CallTypes, CaptureTypes
    <2>2. Told
        BY <1>a, <1>3 DEF StartPlatform, Posture, WriterTypes
    <2> HIDE DEF Calls, Late, Told, Gone
    <2> QED
        BY <1>3, <1>d, <1>f, <2>1, <2>2 DEF StartPlatform
<1>4. ASSUME NEW t \in Sessions, StartInstall(t)
      PROVE  Calls /\ Late /\ Told /\ Gone
    <2>1. Calls
        BY <1>a, <1>4 DEF StartInstall, Held, Posture, Ended, CallTypes
    <2>2. Told
        BY <1>a, <1>4 DEF StartInstall, Posture, WriterTypes
    <2> HIDE DEF Calls, Late, Told, Gone
    <2> QED
        BY <1>4, <1>d, <1>f, <2>1, <2>2 DEF StartInstall
<1>5. ASSUME NEW t \in Sessions, StopWriter(t)
      PROVE  Calls /\ Late /\ Told /\ Gone
    <2>1. Calls
        BY <1>a, <1>5 DEF StopWriter, Held, Posture, Ended, CallTypes
    <2>2. Told
        BY <1>a, <1>5 DEF StopWriter, Posture, WriterTypes
    <2> HIDE DEF Calls, Late, Told, Gone
    <2> QED
        BY <1>5, <1>d, <1>f, <2>1, <2>2 DEF StopWriter
<1>6. ASSUME NEW t \in Sessions, StopSession(t)
      PROVE  Calls /\ Late /\ Told /\ Gone
    <2>1. Calls
        BY <1>a, <1>6 DEF StopSession, Held, Posture, Ended, CallTypes
    <2> HIDE DEF Calls, Late, Told, Gone
    <2> QED
        BY <1>6, <1>d, <1>e, <1>f, <2>1 DEF StopSession
<1>7. ASSUME NEW t \in Sessions, TrySend(t), UNCHANGED <<buf, retry, writer>>
      PROVE  Gone
    BY <1>a, <1>7 DEF TrySend, Accept, Posture, QueueTypes
<1>8. ASSUME NEW t \in Sessions, EmitLossy(t) \/ Snapshot(t)
      PROVE  Calls /\ Late /\ Told /\ Gone
    <2>1. Gone
        BY <1>7, <1>8 DEF EmitLossy, Snapshot
    <2> HIDE DEF Calls, Late, Told, Gone
    <2> QED
        BY <1>8, <1>c, <1>d, <1>e, <2>1 DEF EmitLossy, Snapshot
<1>9. ASSUME NEW t \in Sessions, EmitBlocking(t) \/ NormalizerStops(t) \/ Sent(t)
      PROVE  Calls /\ Late /\ Told /\ Gone
    <2>1. Calls
        BY <1>a, <1>9
        DEF EmitBlocking, NormalizerStops, Sent, Posture, Ended, CallTypes, CaptureTypes
    <2>2. Gone
        BY <1>7, <1>9, <1>f DEF EmitBlocking, NormalizerStops, Sent
    <2> HIDE DEF Calls, Late, Told, Gone
    <2> QED
        BY <1>9, <1>d, <1>e, <2>1, <2>2 DEF EmitBlocking, NormalizerStops, Sent
<1>10. ASSUME NEW t \in Sessions, SupervisorEnds(t) \/ LateWorkerEnds(t)
       PROVE  Calls /\ Late /\ Told /\ Gone
    <2>1. Calls
        BY <1>a, <1>10
        DEF SupervisorEnds, LateWorkerEnds, Posture, Ended, CallTypes, CaptureTypes
    <2>2. Late
        BY <1>a, <1>10 DEF SupervisorEnds, LateWorkerEnds, Posture, CaptureTypes
    <2> HIDE DEF Calls, Late, Told, Gone
    <2> QED
        BY <1>10, <1>e, <1>f, <2>1, <2>2 DEF SupervisorEnds, LateWorkerEnds
<1>11. ASSUME NEW t \in Sessions, WriteOne(t)
       PROVE  Calls /\ Late /\ Told /\ Gone
    <2>1. Gone
        BY <1>a, <1>11 DEF WriteOne, Posture, BufferTypes
    <2> HIDE DEF Calls, Late, Told, Gone
    <2> QED
        BY <1>11, <1>c, <1>d, <1>e, <2>1 DEF WriteOne
<1>12. ASSUME NEW t \in Sessions, Receive(t) \/ FlushTick(t) \/ LastFlush(t)
       PROVE  Calls /\ Late /\ Told /\ Gone
    <2>1. Gone
        <3>1. writer[t] # "gone" /\ UNCHANGED writer
            BY <1>12 DEF Receive, FlushTick, LastFlush
        <3>2. t # s => buf'[s] = buf[s] /\ retry'[s] = retry[s] /\ channel'[s] = channel[s]
            BY <1>a, <1>12
            DEF Receive, FlushTick, LastFlush, Take, FlushBatch, BufferTypes, QueueTypes
        <3> QED
            BY <3>1, <3>2 DEF Posture
    <2> HIDE DEF Calls, Late, Told, Gone
    <2> QED
        BY <1>12, <1>c, <1>d, <1>e, <2>1 DEF Receive, FlushTick, LastFlush
<1>13. ASSUME NEW t \in Sessions, ChannelClosed(t) \/ ShutdownSeen(t)
       PROVE  Calls /\ Late /\ Told /\ Gone
    <2>1. Calls
        BY <1>a, <1>13 DEF ChannelClosed, ShutdownSeen, Posture, Ended, WriterTypes
    <2>2. Told /\ Gone
        BY <1>a, <1>13 DEF ChannelClosed, ShutdownSeen, Posture, WriterTypes
    <2> HIDE DEF Calls, Late, Told, Gone
    <2> QED
        BY <1>13, <1>d, <2>1, <2>2 DEF ChannelClosed, ShutdownSeen
<1>14. ASSUME NEW t \in Sessions, Drain(t)
       PROVE  Calls /\ Late /\ Told /\ Gone
    <2>1. writer[t] = "drain" /\ UNCHANGED <<row, start, stop, capture, late, writerTold>>
        BY <1>14 DEF Drain
    <2>2. writer' = writer \/ writer' = [writer EXCEPT ![t] = "lastFlush"]
        BY <1>14 DEF Drain
    <2>3. Calls
        BY <1>a, <2>1, <2>2 DEF Posture, Ended, WriterTypes
    <2>4. Told
        BY <1>a, <2>1, <2>2 DEF Posture, WriterTypes
    <2>5. t # s => buf'[s] = buf[s] /\ retry'[s] = retry[s] /\ channel'[s] = channel[s]
        BY <1>a, <1>14 DEF Drain, Take, FlushBatch, BufferTypes, QueueTypes
    <2>6. Gone
        BY <1>a, <2>1, <2>2, <2>5 DEF Posture, WriterTypes
    <2> HIDE DEF Calls, Late, Told, Gone
    <2> QED
        BY <1>14, <1>d, <2>3, <2>4, <2>6 DEF Drain
<1>15. ASSUME NEW t \in Sessions, retry[t] = <<>>, WriterEnds(t)
       PROVE  Calls /\ Late /\ Told /\ Gone
    <2>1. Calls
        BY <1>a, <1>15 DEF WriterEnds, Posture, Ended, WriterTypes
    <2>2. Told
        BY <1>a, <1>15 DEF WriterEnds, Posture, WriterTypes
    <2>3. Gone
        BY <1>a, <1>15 DEF WriterEnds, Posture, WriterTypes, QueueTypes
    <2> HIDE DEF Calls, Late, Told, Gone
    <2> QED
        BY <1>15, <1>d, <2>1, <2>2, <2>3 DEF WriterEnds
<1>16. CASE UNCHANGED engineVars
    <2> HIDE DEF Calls, Late, Told, Gone
    <2> QED
        BY <1>16, <1>c, <1>d, <1>e, <1>f DEF engineVars
<1> HIDE DEF Calls, Late, Told, Gone
<1> QED
    BY <1>1, <1>2, <1>3, <1>4, <1>5, <1>6, <1>8, <1>9, <1>10, <1>11, <1>12, <1>13, <1>14,
       <1>15, <1>16
    DEF Next, StopStep, CaptureStep, WriterStep

-----------------------------------------------------------------------------
(* Nothing is lost on the way to a closed row.                             *)

\* The shutdown of the writer, if it was told at all, came after the capture
\* had ended in time.
Clean(s) == (~writerTold[s] \/ Ended(s)) /\ ~overran[s]

Accounted(s) == Known(s) = 1..sent[s]

\* A writer that has not ended holds what was not inserted; one past its drain
\* that was told in time has seen all there will be.
Through(s) ==
    /\ writer[s] # "gone" => Accounted(s)
    /\ Clean(s) /\ writer[s] \in {"lastFlush", "gone"} =>
          SendersGone(s) /\ channel[s] = <<>> /\ Accounted(s)

\* What a step does to a writer and to those who send to it.
Moves(s) ==
    /\ writer[s] = "gone" => writer'[s] = "gone" /\ written'[s] = written[s]
    /\ writer'[s] = "gone" => writer[s] \in {"lastFlush", "gone"}
    /\ writer'[s] = "lastFlush" =>
          \/ writer[s] = "lastFlush"
          \/ channel'[s] = <<>> /\ (SendersGone(s)' \/ writerTold'[s])
    /\ sent'[s] = sent[s] \/ writer'[s] = writer[s]
    /\ Clean(s)' => Clean(s)
    /\ SendersGone(s) /\ ~overran'[s] => SendersGone(s)'

\* Every step moves them so.
LEMMA MovesStep ==
    ASSUME Typed, [Next]_engineVars, NEW s \in Sessions, Held(s), Posture(s)
    PROVE  Moves(s)
<1>a. CallTypes /\ CaptureTypes /\ WriterTypes /\ QueueTypes /\ BufferTypes /\ SentTypes
    BY DEF Typed
<1> DEFINE Writer == /\ writer[s] = "gone" => writer'[s] = "gone" /\ written'[s] = written[s]
                     /\ writer'[s] = "gone" => writer[s] \in {"lastFlush", "gone"}
                     /\ writer'[s] = "lastFlush" =>
                           \/ writer[s] = "lastFlush"
                           \/ channel'[s] = <<>> /\ (SendersGone(s)' \/ writerTold'[s])
                     /\ sent'[s] = sent[s] \/ writer'[s] = writer[s]
           Cleaner == Clean(s)' => Clean(s)
           Senders == SendersGone(s) /\ ~overran'[s] => SendersGone(s)'
<1>b. SUFFICES Writer /\ Cleaner /\ Senders
    BY DEF Moves
<1>c. UNCHANGED <<writer, written>> => Writer
    OBVIOUS
<1>d. UNCHANGED <<stop, row, writerTold, overran>> => Cleaner
    BY DEF Clean, Ended
<1>e. UNCHANGED <<start, capture, late>> => Senders
    BY DEF SendersGone
<1> USE DEF startVars, captureVars, writerVars
<1>1. ASSUME NEW t \in Sessions,
             \/ StartCheck(t) \/ StopTake(t) \/ StopJoin(t)
      PROVE  Writer /\ Cleaner /\ Senders
    <2>1. Cleaner
        BY <1>a, <1>1 DEF StartCheck, StopTake, StopJoin, Clean, Ended, Held, CallTypes
    <2>2. Senders
        BY <1>a, <1>1 DEF StartCheck, StopTake, StopJoin, SendersGone, CallTypes
    <2> HIDE DEF Writer, Cleaner, Senders
    <2> QED
        BY <1>1, <1>c, <2>1, <2>2 DEF StartCheck, StopTake, StopJoin
<1>2. ASSUME NEW t \in Sessions, StartSession(t)
      PROVE  Writer /\ Cleaner /\ Senders
    <2>1. Cleaner
        BY <1>a, <1>2 DEF StartSession, Clean, Ended, CallTypes
    <2>2. Senders
        BY <1>a, <1>2 DEF StartSession, SendersGone, CallTypes
    <2>3. Writer
        BY <1>a, <1>2 DEF StartSession, Posture, WriterTypes
    <2> HIDE DEF Writer, Cleaner, Senders
    <2> QED
        BY <2>1, <2>2, <2>3
<1>3. ASSUME NEW t \in Sessions, StartPlatform(t)
      PROVE  Writer /\ Cleaner /\ Senders
    <2>1. Cleaner
        BY <1>a, <1>3 DEF StartPlatform, Clean, Ended, WriterTypes
    <2>2. Senders
        BY <1>a, <1>3 DEF StartPlatform, SendersGone, CallTypes, CaptureTypes
    <2> HIDE DEF Writer, Cleaner, Senders
    <2> QED
        BY <1>3, <1>c, <2>1, <2>2 DEF StartPlatform
<1>4. ASSUME NEW t \in Sessions, StartInstall(t)
      PROVE  Writer /\ Cleaner /\ Senders
    <2>1. Cleaner
        BY <1>a, <1>4 DEF StartInstall, Clean, Ended, WriterTypes
    <2>2. Senders
        BY <1>a, <1>4 DEF StartInstall, SendersGone, CallTypes
    <2> HIDE DEF Writer, Cleaner, Senders
    <2> QED
        BY <1>4, <1>c, <2>1, <2>2 DEF StartInstall
<1>5. ASSUME NEW t \in Sessions, StopWriter(t)
      PROVE  Writer /\ Cleaner /\ Senders
    <2>1. Cleaner
        BY <1>a, <1>5 DEF StopWriter, Clean, Ended, Held, CallTypes, WriterTypes
    <2> HIDE DEF Writer, Cleaner, Senders
    <2> QED
        BY <1>5, <1>c, <1>e, <2>1 DEF StopWriter
<1>6. ASSUME NEW t \in Sessions, StopSession(t)
      PROVE  Writer /\ Cleaner /\ Senders
    <2>1. Cleaner
        BY <1>a, <1>6 DEF StopSession, Clean, Ended, CallTypes
    <2> HIDE DEF Writer, Cleaner, Senders
    <2> QED
        BY <1>6, <1>c, <1>e, <2>1 DEF StopSession
<1>7. ASSUME NEW t \in Sessions, EmitLossy(t) \/ Snapshot(t)
      PROVE  Writer /\ Cleaner /\ Senders
    <2> HIDE DEF Writer, Cleaner, Senders
    <2> QED
        BY <1>7, <1>c, <1>d, <1>e DEF EmitLossy, Snapshot
<1>8. ASSUME NEW t \in Sessions, EmitBlocking(t) \/ NormalizerStops(t) \/ Sent(t)
      PROVE  Writer /\ Cleaner /\ Senders
    <2>1. Senders
        BY <1>a, <1>8 DEF EmitBlocking, NormalizerStops, Sent, SendersGone, CaptureTypes
    <2> HIDE DEF Writer, Cleaner, Senders
    <2> QED
        BY <1>8, <1>c, <1>d, <2>1 DEF EmitBlocking, NormalizerStops, Sent
<1>9. ASSUME NEW t \in Sessions, SupervisorEnds(t) \/ LateWorkerEnds(t)
      PROVE  Writer /\ Cleaner /\ Senders
    <2>1. Senders
        BY <1>a, <1>9 DEF SupervisorEnds, LateWorkerEnds, SendersGone, CaptureTypes
    <2>2. Cleaner
        BY <1>a, <1>9 DEF SupervisorEnds, LateWorkerEnds, Clean, Ended, CaptureTypes
    <2> HIDE DEF Writer, Cleaner, Senders
    <2> QED
        BY <1>9, <1>c, <2>1, <2>2 DEF SupervisorEnds, LateWorkerEnds
<1>10. ASSUME NEW t \in Sessions, WriteOne(t)
       PROVE  Writer /\ Cleaner /\ Senders
    <2>1. Writer
        BY <1>a, <1>10 DEF WriteOne, Posture, BufferTypes
    <2> HIDE DEF Writer, Cleaner, Senders
    <2> QED
        BY <1>10, <1>d, <1>e, <2>1 DEF WriteOne
<1>11. ASSUME NEW t \in Sessions, Receive(t) \/ FlushTick(t) \/ LastFlush(t)
       PROVE  Writer /\ Cleaner /\ Senders
    <2>1. writer[t] # "gone" /\ UNCHANGED writer
        BY <1>11 DEF Receive, FlushTick, LastFlush
    <2>2. t # s => written'[s] = written[s]
        BY <1>a, <1>11 DEF Receive, FlushTick, LastFlush, Take, FlushBatch, BufferTypes
    <2>3. Writer
        BY <2>1, <2>2
    <2> HIDE DEF Writer, Cleaner, Senders
    <2> QED
        BY <1>11, <1>d, <1>e, <2>3 DEF Receive, FlushTick, LastFlush
<1>12. ASSUME NEW t \in Sessions, ChannelClosed(t) \/ ShutdownSeen(t)
       PROVE  Writer /\ Cleaner /\ Senders
    <2>1. Writer
        BY <1>a, <1>12 DEF ChannelClosed, ShutdownSeen, SendersGone, WriterTypes
    <2> HIDE DEF Writer, Cleaner, Senders
    <2> QED
        BY <1>12, <1>d, <1>e, <2>1 DEF ChannelClosed, ShutdownSeen
<1>13. ASSUME NEW t \in Sessions, Drain(t)
       PROVE  Writer /\ Cleaner /\ Senders
    <2>1. writer[t] = "drain" /\ UNCHANGED <<writerTold, sent>>
        BY <1>13 DEF Drain
    <2>2. \/ UNCHANGED writer
          \/ /\ writer' = [writer EXCEPT ![t] = "lastFlush"]
             /\ channel[t] = <<>>
             /\ UNCHANGED <<channel, written>>
        BY <1>13 DEF Drain
    <2>3. t # s => written'[s] = written[s]
        BY <1>a, <1>13 DEF Drain, Take, FlushBatch, BufferTypes
    <2>4. Writer
        BY <1>a, <2>1, <2>2, <2>3 DEF Posture, WriterTypes
    <2> HIDE DEF Writer, Cleaner, Senders
    <2> QED
        BY <1>13, <1>d, <1>e, <2>4 DEF Drain
<1>14. ASSUME NEW t \in Sessions, WriterEnds(t)
       PROVE  Writer /\ Cleaner /\ Senders
    <2>1. Writer
        BY <1>a, <1>14 DEF WriterEnds, WriterTypes
    <2> HIDE DEF Writer, Cleaner, Senders
    <2> QED
        BY <1>14, <1>d, <1>e, <2>1 DEF WriterEnds
<1>15. CASE UNCHANGED engineVars
    <2> HIDE DEF Writer, Cleaner, Senders
    <2> QED
        BY <1>15, <1>c, <1>d, <1>e DEF engineVars
<1> HIDE DEF Writer, Cleaner, Senders
<1> QED
    BY <1>1, <1>2, <1>3, <1>4, <1>5, <1>6, <1>7, <1>8, <1>9, <1>10, <1>11, <1>12, <1>13,
       <1>14, <1>15
    DEF Next, StopStep, CaptureStep, WriterStep

\* The invariant of the engine.
EngineInv ==
    /\ Typed
    /\ \A s \in Sessions : Ordered(s) /\ Held(s) /\ Posture(s) /\ Through(s)

\* Nothing is on its way at launch.
LEMMA EngineInit == Init => EngineInv
<1> SUFFICES ASSUME Init, NEW s \in Sessions PROVE Ordered(s) /\ Through(s)
    BY TypedInit, PostureInit DEF EngineInv
<1>1. ToSet(<<>>) = {} /\ Up(<<>>) /\ 1..0 = {}
    BY DEF ToSet, Up
<1>2. /\ written[s] = <<>> /\ retry[s] = <<>> /\ buf[s] = <<>> /\ channel[s] = <<>>
      /\ failed[s] = {} /\ sent[s] = 0 /\ writer[s] = "none"
    BY DEF Init
<1>3. Ordered(s)
    BY <1>1, <1>2 DEF Ordered, InLine, Before
<1>4. Through(s)
    BY <1>1, <1>2 DEF Through, Accounted, Known, Content
<1> QED
    BY <1>3, <1>4

\* Every step keeps the invariant.
LEMMA EngineStep == EngineInv /\ [Next]_engineVars => EngineInv'
<1> SUFFICES ASSUME EngineInv, [Next]_engineVars, NEW s \in Sessions
             PROVE  Ordered(s)' /\ Held(s)' /\ Posture(s)' /\ Through(s)'
    BY TypedStep DEF EngineInv
<1>1. Typed /\ Ordered(s) /\ Held(s) /\ Posture(s) /\ Through(s)
    BY DEF EngineInv
<1>2. Held(s)' /\ Posture(s)' /\ Moves(s) /\ Typed'
    BY <1>1, HeldStep, PostureStep, MovesStep, TypedStep
<1>3. /\ Ordered(s)'
      /\ Keeps(s) \/ Accepts(s) \/ (WriterEnds(s) /\ retry[s] = <<>>)
    BY <1>1, LineStep
<1>4. Clean(s)' /\ writerTold'[s] => SendersGone(s)'
    BY <1>2 DEF Held, Posture, Clean, Ended, SendersGone
<1>5. writer[s] # "gone" => Accounted(s)
    BY <1>1 DEF Through
<1>6. Clean(s)' => Clean(s) /\ ~overran'[s]
    BY <1>2 DEF Moves, Clean
<1>7. CASE Keeps(s)
    <2>1. Accounted(s) => Accounted(s)'
        BY <1>7 DEF Keeps, Accounted
    <2>2. writer'[s] # "gone" => Accounted(s)'
        BY <1>2, <1>5, <2>1 DEF Moves
    <2>3. ASSUME Clean(s)', writer'[s] \in {"lastFlush", "gone"}
          PROVE  SendersGone(s)' /\ channel'[s] = <<>> /\ Accounted(s)'
        <3>1. CASE writer[s] \in {"lastFlush", "gone"}
            <4>1. SendersGone(s) /\ channel[s] = <<>> /\ Accounted(s)
                BY <1>1, <1>6, <2>3, <3>1 DEF Through
            <4>2. SendersGone(s)'
                BY <1>2, <1>6, <2>3, <4>1 DEF Moves
            <4> QED
                BY <1>7, <2>1, <4>1, <4>2 DEF Keeps
        <3>2. CASE writer[s] \notin {"lastFlush", "gone"}
            <4>1. channel'[s] = <<>> /\ (SendersGone(s)' \/ writerTold'[s])
                BY <1>2, <2>3, <3>2 DEF Moves
            <4> QED
                BY <1>4, <1>5, <2>1, <2>3, <3>2, <4>1
        <3> QED
            BY <3>1, <3>2
    <2> QED
        BY <1>2, <1>3, <2>2, <2>3 DEF Through
<1>8. CASE Accepts(s)
    <2>1. sent[s] \in Nat /\ writer[s] # "gone" /\ writer'[s] = writer[s]
        BY <1>1, <1>2, <1>8 DEF Accepts, Moves, Typed, SentTypes
    <2>2. Accounted(s)'
        <3>1. Known(s) = 1..sent[s] /\ Known(s)' = Known(s) \cup {sent[s] + 1}
            BY <1>5, <1>8, <2>1 DEF Accepts, Accounted
        <3>2. 1..(sent[s] + 1) = (1..sent[s]) \cup {sent[s] + 1}
            BY <2>1
        <3>3. sent'[s] = sent[s] + 1
            BY <1>8 DEF Accepts
        <3> QED
            BY <3>1, <3>2, <3>3 DEF Accounted
    <2>3. ~(Clean(s)' /\ writer'[s] \in {"lastFlush", "gone"})
        BY <1>1, <1>6, <1>8, <2>1 DEF Through, Accepts, SendersGone
    <2> QED
        BY <1>2, <1>3, <2>2, <2>3 DEF Through
<1>9. CASE WriterEnds(s)
    <2>1. /\ writer[s] = "lastFlush" /\ writer'[s] = "gone" /\ channel'[s] = <<>>
          /\ UNCHANGED <<written, retry, buf, failed, sent, start, capture, late>>
        BY <1>1, <1>9
        DEF WriterEnds, Typed, WriterTypes, QueueTypes, startVars, captureVars
    <2>2. ASSUME Clean(s)' PROVE SendersGone(s)' /\ Accounted(s)'
        <3>1. SendersGone(s) /\ channel[s] = <<>> /\ Accounted(s)
            BY <1>1, <1>6, <2>1, <2>2 DEF Through
        <3> QED
            BY <2>1, <3>1 DEF SendersGone, Accounted, Known
    <2> QED
        BY <1>2, <1>3, <2>1, <2>2 DEF Through
<1> QED
    BY <1>3, <1>7, <1>8, <1>9

\* The invariant holds in every reachable state.
LEMMA EngineAlways == Spec => []EngineInv
<1>1. Init => EngineInv
    BY EngineInit
<1>2. EngineInv /\ [Next]_engineVars => EngineInv'
    BY EngineStep
<1> QED
    BY <1>1, <1>2, PTL DEF Spec

\* WrittenInOrder, for any capacities and any failures: rows are inserted in the
\* order the channel accepted their messages, none of them twice.
THEOREM RowsInOrder == Spec => []WrittenInOrder
<1>1. EngineInv => WrittenInOrder
    <2> SUFFICES ASSUME EngineInv, NEW s \in Sessions PROVE
            \A i, j \in DOMAIN written[s] : i < j => written[s][i] < written[s][j]
        BY DEF WrittenInOrder
    <2>1. Up(written[s]) /\ written[s] \in Seq(Messages)
        BY DEF EngineInv, Ordered, InLine, Typed, BufferTypes
    <2>2. DOMAIN written[s] = 1..Len(written[s])
        BY <2>1, LenProperties
    <2> QED
        BY <2>1, <2>2 DEF Up
<1> QED
    BY <1>1, EngineAlways, PTL

\* StoppedIsComplete, for any capacities and any failures: a closed row has every
\* message its channel accepted, but for those whose own insert failed.
THEOREM ClosedIsComplete == Spec => []StoppedIsComplete
<1>1. EngineInv => StoppedIsComplete
    <2> SUFFICES ASSUME EngineInv, NEW s \in Sessions, row[s] = "stopped", ~overran[s]
                 PROVE  ToSet(written[s]) \cup failed[s] = 1..sent[s]
        BY DEF StoppedIsComplete
    <2>1. writer[s] = "gone" /\ Clean(s) /\ buf[s] = <<>> /\ retry[s] = <<>>
        BY DEF EngineInv, Posture, Clean, Ended
    <2>2. channel[s] = <<>> /\ Known(s) = 1..sent[s]
        BY <2>1 DEF EngineInv, Through, Accounted
    <2>3. ToSet(<<>>) = {}
        BY DEF ToSet
    <2> QED
        BY <2>1, <2>2, <2>3 DEF Known, Content
<1> QED
    BY <1>1, EngineAlways, PTL

\* Nothing is added to a session after its row was closed.  ActivityLog implies
\* it, as its rows come from an open sink only.
StoppedIsFinal ==
    [][\A s \in Sessions : row[s] = "stopped" => written'[s] = written[s]]_engineVars

\* StoppedIsFinal, for any capacities and any failures: a closed row gets no
\* further messages.
THEOREM ClosedIsFinal == Spec => StoppedIsFinal
<1>1. ASSUME EngineInv, [Next]_engineVars, NEW s \in Sessions, row[s] = "stopped"
      PROVE  written'[s] = written[s]
    <2>1. Typed /\ Held(s) /\ Posture(s) /\ Moves(s)
        BY <1>1, MovesStep DEF EngineInv
    <2> QED
        BY <1>1, <2>1 DEF Posture, Moves
<1>2. EngineInv /\ [Next]_engineVars =>
         [\A s \in Sessions : row[s] = "stopped" => written'[s] = written[s]]_engineVars
    BY <1>1
<1> QED
    BY <1>2, EngineAlways, PTL DEF Spec, StoppedIsFinal

-----------------------------------------------------------------------------
(* The session is the log of ActivityLog.                                  *)

\* Only a session whose INSERT succeeded has a writer, and then it has a row.
Born(s) ==
    /\ writer[s] = "none" => start[s] \in {"none", "checked", "failed"} /\ retry[s] = <<>>
    /\ row[s] = "absent" <=> writer[s] = "none"

LogInv == EngineInv /\ \A s \in Sessions : Born(s)

\* A writer is born with its row, by the step that inserts it, and from then on
\* its states are its own.
LEMMA BornStep ==
    ASSUME Typed, [Next]_engineVars, NEW s \in Sessions, Posture(s), Born(s)
    PROVE  Born(s)'
<1>a. CallTypes /\ WriterTypes /\ BufferTypes
    BY DEF Typed
<1>b. UNCHANGED <<row, start, writer, retry>> => Born(s)'
    BY DEF Born
<1> USE DEF startVars, captureVars, writerVars
<1>1. ASSUME NEW t \in Sessions, StartCheck(t) PROVE Born(s)'
    <2>1. start'[s] \in {start[s], "checked"} /\ UNCHANGED <<row, writer, retry>>
        BY <1>a, <1>1 DEF StartCheck, CallTypes
    <2> QED
        BY <2>1 DEF Born
<1>2. ASSUME NEW t \in Sessions, StartSession(t) PROVE Born(s)'
    <2>1. UNCHANGED retry /\ (t # s => row'[s] = row[s] /\ start'[s] = start[s]
                                         /\ writer'[s] = writer[s])
        BY <1>a, <1>2 DEF StartSession, CallTypes, WriterTypes
    <2>2. CASE t = s
        <3>1. \/ row'[s] = "open" /\ writer'[s] = "run"
              \/ row'[s] = row[s] /\ writer'[s] = writer[s] /\ start'[s] = "failed"
            BY <1>a, <1>2, <2>2 DEF StartSession, CallTypes, WriterTypes
        <3> QED
            BY <2>1, <3>1 DEF Born
    <2> QED
        BY <2>1, <2>2 DEF Born
<1>3. ASSUME NEW t \in Sessions, StartPlatform(t) \/ StartInstall(t) PROVE Born(s)'
    <2>1. UNCHANGED <<row, writer, retry>>
        BY <1>3 DEF StartPlatform, StartInstall
    <2>2. start'[s] = start[s] \/ start[s] \in {"starting", "up"}
        BY <1>a, <1>3 DEF StartPlatform, StartInstall, CallTypes
    <2> QED
        BY <2>1, <2>2 DEF Born
<1>4. ASSUME NEW t \in Sessions, StopSession(t) PROVE Born(s)'
    <2>1. UNCHANGED <<start, writer, retry>>
        BY <1>4 DEF StopSession
    <2>2. row'[s] = row[s] \/ (row'[s] = "stopped" /\ stop[s] = "row")
        BY <1>a, <1>4 DEF StopSession, CallTypes
    <2> QED
        BY <2>1, <2>2 DEF Born, Posture
<1>5. ASSUME NEW t \in Sessions, WriteOne(t) PROVE Born(s)'
    <2>1. UNCHANGED <<row, start, writer>> /\ retry[t] # <<>>
        BY <1>5 DEF WriteOne
    <2>2. t # s => retry'[s] = retry[s]
        BY <1>a, <1>5 DEF WriteOne, BufferTypes
    <2> QED
        BY <2>1, <2>2 DEF Born
<1>6. ASSUME NEW t \in Sessions, Receive(t) \/ FlushTick(t) \/ Drain(t) \/ LastFlush(t)
      PROVE  Born(s)'
    <2>1. UNCHANGED <<row, start>> /\ writer[t] \in {"run", "drain", "lastFlush"}
        BY <1>6 DEF Receive, FlushTick, Drain, LastFlush
    <2>2. writer' = writer \/ writer' = [writer EXCEPT ![t] = "lastFlush"]
        BY <1>6 DEF Receive, FlushTick, Drain, LastFlush
    <2>3. t # s => retry'[s] = retry[s]
        BY <1>a, <1>6 DEF Receive, FlushTick, Drain, LastFlush, Take, FlushBatch, BufferTypes
    <2>4. writer'[s] = writer[s] \/ (t = s /\ writer'[s] = "lastFlush")
        BY <1>a, <2>2 DEF WriterTypes
    <2> QED
        BY <2>1, <2>3, <2>4 DEF Born
<1>7. ASSUME NEW t \in Sessions, ChannelClosed(t) \/ ShutdownSeen(t) \/ WriterEnds(t)
      PROVE  Born(s)'
    <2>1. UNCHANGED <<row, start, retry>>
        BY <1>7 DEF ChannelClosed, ShutdownSeen, WriterEnds
    <2>2. \/ writer'[s] = writer[s]
          \/ writer[s] \in {"run", "lastFlush"} /\ writer'[s] \in {"drain", "lastFlush", "gone"}
        BY <1>a, <1>7 DEF ChannelClosed, ShutdownSeen, WriterEnds, WriterTypes
    <2> QED
        BY <2>1, <2>2 DEF Born
<1>8. CASE UNCHANGED <<row, start, writer, retry>>
    BY <1>8, <1>b
<1>9. ASSUME NEW t \in Sessions, \/ StopTake(t) \/ StopWriter(t) \/ StopJoin(t)
                                 \/ EmitLossy(t) \/ EmitBlocking(t) \/ Snapshot(t)
                                 \/ LateWorkerEnds(t) \/ CaptureStep(t)
      PROVE  UNCHANGED <<row, start, writer, retry>>
    BY <1>9 DEF StopTake, StopWriter, StopJoin, EmitLossy, EmitBlocking, Snapshot,
       LateWorkerEnds, CaptureStep, NormalizerStops, Sent, SupervisorEnds
<1>10. UNCHANGED engineVars => UNCHANGED <<row, start, writer, retry>>
    BY DEF engineVars
<1> QED
    BY <1>1, <1>2, <1>3, <1>4, <1>5, <1>6, <1>7, <1>8, <1>9, <1>10, Zenon
    DEF Next, StopStep, WriterStep

\* The invariant, with what the log needs of it, holds in every reachable state.
LEMMA LogAlways == Spec => []LogInv
<1>1. Init => LogInv
    BY EngineInit DEF Init, LogInv, Born
<1>2. LogInv /\ [Next]_engineVars => LogInv'
    BY EngineStep, BornStep DEF LogInv, EngineInv
<1> QED
    BY <1>1, <1>2, PTL DEF Spec

\* The line of a session, and what the log sees of its writer.
Line(s) == retry[s] \o buf[s] \o channel[s]
SinkOf(s) == IF writer[s] \in {"none", "gone"} THEN writer[s] ELSE "open"

Lines == [s \in Sessions |-> Line(s)]
Sinks == [s \in Sessions |-> SinkOf(s)]

\* A step of the log, or none that it can see.
LogStep == [Log!Next]_(Log!logVars)

\* What the log sees when one session moves.
OthersKeep(s) ==
    \A o \in Sessions \ {s} :
       /\ retry'[o] = retry[o] /\ buf'[o] = buf[o] /\ channel'[o] = channel[o]
       /\ writer'[o] = writer[o]

\* Then the lines and the writers of the others are seen as they were.
LEMMA OneMoves ==
    ASSUME NEW s \in Sessions, OthersKeep(s)
    PROVE  /\ Lines[s] = Line(s) /\ Sinks[s] = SinkOf(s)
           /\ Lines' = [Lines EXCEPT ![s] = Line(s)']
           /\ Sinks' = [Sinks EXCEPT ![s] = SinkOf(s)']
           /\ Line(s)' = Line(s) => Lines' = Lines
           /\ SinkOf(s)' = SinkOf(s) => Sinks' = Sinks
<1>1. /\ \A o \in Sessions : Lines[o] = Line(o) /\ Sinks[o] = SinkOf(o)
      /\ \A o \in Sessions \ {s} : Line(o)' = Line(o) /\ SinkOf(o)' = SinkOf(o)
    BY DEF OthersKeep, Lines, Sinks, Line, SinkOf
<1>2. /\ Lines' = [o \in Sessions |-> Line(o)'] /\ Sinks' = [o \in Sessions |-> SinkOf(o)']
      /\ Lines = [o \in Sessions |-> Lines[o]] /\ Sinks = [o \in Sessions |-> Sinks[o]]
    BY DEF Lines, Sinks
<1>3. Lines' = [Lines EXCEPT ![s] = Line(s)'] /\ Sinks' = [Sinks EXCEPT ![s] = SinkOf(s)']
    BY <1>1, <1>2
<1>4. ASSUME Line(s)' = Line(s) PROVE Lines' = Lines
    BY <1>1, <1>2, <1>4
<1>5. ASSUME SinkOf(s)' = SinkOf(s) PROVE Sinks' = Sinks
    BY <1>1, <1>2, <1>5
<1> QED
    BY <1>1, <1>3, <1>4, <1>5

\* Where the log sees nothing.
LEMMA LogUnseen ==
    ASSUME NEW s \in Sessions, OthersKeep(s), Line(s)' = Line(s), SinkOf(s)' = SinkOf(s),
           UNCHANGED <<row, sent, written, failed>>
    PROVE  LogStep
<1>1. Lines' = Lines /\ Sinks' = Sinks
    BY OneMoves
<1> QED
    BY <1>1 DEF LogStep, Log!logVars, Lines, Sinks, Line, SinkOf

\* A message the channel accepts enters the log.
LEMMA LogEnters ==
    ASSUME Typed, NEW s \in Sessions, TrySend(s), writer[s] # "none",
           UNCHANGED <<row, writer, retry, buf, written, failed>>
    PROVE  LogStep
<1>1. /\ OthersKeep(s) /\ SinkOf(s) = "open" /\ SinkOf(s)' = SinkOf(s)
      /\ channel'[s] = Append(channel[s], sent[s] + 1)
      /\ sent' = [sent EXCEPT ![s] = @ + 1]
    BY DEF OthersKeep, SinkOf, TrySend, Accept, Typed, QueueTypes
<1>2. Line(s)' = Append(Line(s), sent[s] + 1)
    <2>1. PICK r \in Seq(Messages), b \in Seq(Messages), c \in Seq(Messages) :
            r = retry[s] /\ b = buf[s] /\ c = channel[s]
        BY DEF Typed, BufferTypes, QueueTypes
    <2>2. sent[s] + 1 \in Messages
        BY DEF TrySend, Typed, SentTypes, Messages
    <2>3. r \o b \in Seq(Messages)
        BY ConcatProperties
    <2>4. (r \o b) \o Append(c, sent[s] + 1) = Append((r \o b) \o c, sent[s] + 1)
        BY <2>2, <2>3, JoinLast
    <2> QED
        BY <1>1, <2>1, <2>4 DEF Line
<1>3. /\ Sinks[s] = "open" /\ Sinks' = Sinks
      /\ Lines' = [Lines EXCEPT ![s] = Append(@, sent[s] + 1)]
    BY <1>1, <1>2, OneMoves
<1>4. Log!Enter(s)
    BY <1>1, <1>3 DEF Log!Enter, Lines, Sinks, Line, SinkOf
<1> QED
    BY <1>4 DEF LogStep, Log!Next

\* A batch that is inserted leaves the front of the line; one that is not stays there.
LEMMA LogFlushes ==
    ASSUME Typed, NEW s \in Sessions, NEW b \in Seq(Messages), NEW c \in Seq(Messages),
           b # <<>>, FlushBatch(s, b), retry[s] = <<>>, Line(s) = b \o c, channel'[s] = c,
           writer[s] \in {"run", "drain", "lastFlush"},
           \A o \in Sessions \ {s} : channel'[o] = channel[o],
           UNCHANGED <<row, writer, sent, failed>>
    PROVE  LogStep
<1>1. OthersKeep(s) /\ SinkOf(s) = "open" /\ SinkOf(s)' = SinkOf(s) /\ buf'[s] = <<>>
    BY DEF OthersKeep, SinkOf, FlushBatch, Typed, BufferTypes
<1>2. CASE written' = [written EXCEPT ![s] = @ \o b] /\ UNCHANGED retry
    <2>1. Line(s)' = c
        <3>1. <<>> \o <<>> = <<>> /\ <<>> \o c = c
            BY ConcatEmptySeq, EmptySeq
        <3> QED
            BY <1>1, <1>2, <3>1 DEF Line
    <2>2. /\ Len(b) \in 1..Len(Line(s))
          /\ SubSeq(Line(s), 1, Len(b)) = b
          /\ SubSeq(Line(s), Len(b) + 1, Len(Line(s))) = c
        BY JoinPrefix
    <2>3. /\ Sinks[s] = "open" /\ Sinks' = Sinks /\ Lines[s] = Line(s)
          /\ Lines' = [Lines EXCEPT ![s] = c]
        BY <1>1, <2>1, OneMoves
    <2>4. Log!Store(s, Len(b))
        BY <1>2, <2>2, <2>3 DEF Log!Store, Lines, Sinks, Line, SinkOf
    <2>5. \E k \in 1..Len(Lines[s]) : Log!Store(s, k)
        BY <2>2, <2>3, <2>4
    <2> QED
        BY <2>5 DEF LogStep, Log!Next, Lines, Line
<1>3. CASE retry' = [retry EXCEPT ![s] = b] /\ UNCHANGED written
    <2>1. retry'[s] = b
        BY <1>3 DEF Typed, BufferTypes
    <2>2. b \o <<>> = b
        BY ConcatEmptySeq
    <2>3. Line(s)' = Line(s)
        BY <1>1, <2>1, <2>2 DEF Line
    <2> QED
        BY <1>1, <1>3, <2>3, LogUnseen
<1> QED
    BY <1>2, <1>3 DEF FlushBatch

\* Taking a message from the channel leaves the line, unless it fills the batch.
LEMMA LogTakes ==
    ASSUME Typed, NEW s \in Sessions, channel[s] # <<>>, Take(s), retry[s] = <<>>,
           writer[s] \in {"run", "drain", "lastFlush"},
           UNCHANGED <<row, writer, sent, failed>>
    PROVE  LogStep
<1>1. PICK b \in Seq(Messages), c \in Seq(Messages) : b = buf[s] /\ c = channel[s]
    BY DEF Typed, BufferTypes, QueueTypes
<1>2. PICK d \in Seq(Messages), t \in Seq(Messages) :
        d = Append(b, Head(c)) /\ t = Tail(c) /\ d # <<>> /\ d \o t = b \o c
    <2>1. c # <<>>
        BY <1>1
    <2>2. /\ Append(b, Head(c)) \in Seq(Messages) /\ Tail(c) \in Seq(Messages)
          /\ Append(b, Head(c)) # <<>> /\ Append(b, Head(c)) \o Tail(c) = b \o c
        BY <2>1, JoinMove
    <2> QED
        BY <2>2, Zenon
<1>3. Line(s) = d \o t
    <2>1. <<>> \o b = b
        BY ConcatEmptySeq
    <2> QED
        BY <1>1, <1>2, <2>1 DEF Line
<1>4. channel'[s] = t /\ \A o \in Sessions \ {s} : channel'[o] = channel[o]
    BY <1>1, <1>2 DEF Take, Typed, QueueTypes
<1>5. CASE buf' = [buf EXCEPT ![s] = d] /\ UNCHANGED <<retry, written, faults>>
    <2>1. /\ OthersKeep(s) /\ SinkOf(s)' = SinkOf(s)
          /\ buf'[s] = d /\ retry'[s] = <<>>
        BY <1>4, <1>5 DEF OthersKeep, SinkOf, Typed, BufferTypes
    <2>2. <<>> \o d = d
        BY ConcatEmptySeq
    <2>3. Line(s)' = Line(s)
        BY <1>3, <1>4, <2>1, <2>2 DEF Line
    <2> QED
        BY <1>5, <2>1, <2>3, LogUnseen
<1>6. CASE FlushBatch(s, d)
    BY <1>2, <1>3, <1>4, <1>6, LogFlushes
<1> QED
    BY <1>1, <1>2, <1>5, <1>6 DEF Take

\* The buffer is flushed without taking a message.
LEMMA LogFlushesBuffer ==
    ASSUME Typed, NEW s \in Sessions, buf[s] # <<>>, FlushBatch(s, buf[s]), retry[s] = <<>>,
           writer[s] \in {"run", "drain", "lastFlush"},
           UNCHANGED <<row, writer, channel, sent, failed>>
    PROVE  LogStep
<1>1. PICK b \in Seq(Messages), c \in Seq(Messages) : b = buf[s] /\ c = channel[s]
    BY DEF Typed, BufferTypes, QueueTypes
<1>2. <<>> \o b = b
    BY ConcatEmptySeq
<1>3. /\ Line(s) = b \o c /\ channel'[s] = c /\ FlushBatch(s, b) /\ b # <<>>
      /\ \A o \in Sessions \ {s} : channel'[o] = channel[o]
    BY <1>1, <1>2 DEF Line
<1> QED
    BY <1>3, LogFlushes

\* The first row of a failed batch is inserted alone, or its message is lost.
LEMMA LogWritesOne ==
    ASSUME Typed, NEW s \in Sessions, WriteOne(s), SinkOf(s) = "open"
    PROVE  LogStep
<1> USE DEF startVars, captureVars
<1>1. PICK r \in Seq(Messages), b \in Seq(Messages), c \in Seq(Messages) :
        r = retry[s] /\ b = buf[s] /\ c = channel[s]
    BY DEF Typed, BufferTypes, QueueTypes
<1>2. PICK e \in Messages, t \in Seq(Messages) : e = Head(r) /\ t = Tail(r) /\ r # <<>>
    BY <1>1, FirstAndOthers DEF WriteOne
<1>3. /\ OthersKeep(s) /\ SinkOf(s)' = SinkOf(s) /\ retry'[s] = t
      /\ UNCHANGED <<row, sent, buf, channel>>
    BY <1>1, <1>2 DEF WriteOne, OthersKeep, SinkOf, Typed, BufferTypes
<1>4. Line(s) = (r \o b) \o c /\ Line(s)' = (t \o b) \o c
    BY <1>1, <1>3 DEF Line
<1>5. PICK p \in Seq(Messages), q \in Seq(Messages) :
        p = Line(s) /\ q = Line(s)' /\ p # <<>> /\ Head(p) = e /\ Tail(p) = q
    <2>1. /\ r \o b \in Seq(Messages) /\ r \o b # <<>>
          /\ Head(r \o b) = e /\ Tail(r \o b) = t \o b
        BY <1>2, JoinFirst
    <2>a. PICK z \in Seq(Messages) : z = r \o b
        BY <2>1
    <2>b. z # <<>>
        BY <2>1, <2>a
    <2>c. /\ z \o c \in Seq(Messages) /\ z \o c # <<>>
          /\ Head(z \o c) = Head(z) /\ Tail(z \o c) = Tail(z) \o c
        BY <2>b, JoinFirst
    <2>2. /\ (r \o b) \o c \in Seq(Messages) /\ (r \o b) \o c # <<>>
          /\ Head((r \o b) \o c) = Head(r \o b)
          /\ Tail((r \o b) \o c) = Tail(r \o b) \o c
        BY <2>a, <2>c, Zenon
    <2>3. (t \o b) \o c \in Seq(Messages)
        BY ConcatProperties
    <2> QED
        BY <1>4, <2>1, <2>2, <2>3
<1>6. /\ Sinks[s] = "open" /\ Sinks' = Sinks /\ Lines[s] = p
      /\ Lines' = [Lines EXCEPT ![s] = q]
    BY <1>3, <1>5, OneMoves
<1>7. CASE written' = [written EXCEPT ![s] = Append(@, e)] /\ UNCHANGED failed
    <2>1. SubSeq(p, 1, 1) = <<e>> /\ SubSeq(p, 2, Len(p)) = q /\ 1 \in 1..Len(p)
        <3>1. Len(p) >= 1 /\ Len(p) \in Nat
            BY <1>5, QueueOps
        <3>2. SubSeq(p, 1, 1) = <<Head(p)>> /\ SubSeq(p, 2, Len(p)) = Tail(p)
            BY <1>5, FirstAndOthers
        <3>3. 1 \in 1..Len(p)
            BY <3>1
        <3> QED
            BY <1>5, <3>2, <3>3, Zenon
    <2>2. Append(written[s], e) = written[s] \o <<e>>
        <3>1. PICK w \in Seq(Messages) : w = written[s]
            BY DEF Typed, BufferTypes
        <3>2. Append(w, e) = w \o <<e>>
            BY AppendIsConcat
        <3> QED
            BY <3>1, <3>2
    <2>3. Lines' = [Lines EXCEPT ![s] = SubSeq(@, 1 + 1, Len(@))]
        <3>1. 1 + 1 = 2
            OBVIOUS
        <3>2. SubSeq(Lines[s], 1 + 1, Len(Lines[s])) = q
            BY <1>6, <2>1, <3>1, Zenon
        <3> QED
            BY <1>6, <3>2, Zenon
    <2>4. written' = [written EXCEPT ![s] = @ \o SubSeq(Lines[s], 1, 1)]
        BY <1>6, <1>7, <2>1, <2>2
    <2>5. Log!Store(s, 1)
        BY <1>3, <1>6, <1>7, <2>1, <2>3, <2>4 DEF Log!Store, Lines, Sinks, Line, SinkOf
    <2>6. \E k \in 1..Len(Lines[s]) : Log!Store(s, k)
        BY <1>6, <2>1, <2>5
    <2> QED
        BY <2>6 DEF LogStep, Log!Next, Lines, Line
<1>8. CASE failed' = [failed EXCEPT ![s] = @ \cup {e}] /\ UNCHANGED written
    <2>1. /\ Lines' = [Lines EXCEPT ![s] = Tail(@)] /\ Lines[s] # <<>>
          /\ failed' = [failed EXCEPT ![s] = @ \cup {Head(Lines[s])}]
        BY <1>5, <1>6, <1>8
    <2>2. Log!Lose(s)
        BY <1>3, <1>6, <1>8, <2>1 DEF Log!Lose, Lines, Sinks, Line, SinkOf
    <2> QED
        BY <2>2 DEF LogStep, Log!Next
<1> QED
    BY <1>1, <1>2, <1>7, <1>8 DEF WriteOne

\* The writer ends with nothing but what its channel holds.
LEMMA LogEnds ==
    ASSUME Typed, NEW s \in Sessions, retry[s] = <<>>, WriterEnds(s)
    PROVE  LogStep
<1> USE DEF startVars, captureVars
<1>1. PICK c \in Seq(Messages) : c = channel[s] /\ Len(c) <= ChannelCapacity
    BY DEF Typed, QueueTypes
<1>2. /\ OthersKeep(s) /\ SinkOf(s) = "open" /\ SinkOf(s)' = "gone"
      /\ buf[s] = <<>> /\ channel'[s] = <<>>
      /\ UNCHANGED <<row, sent, retry, buf, written, failed>>
    BY DEF WriterEnds, OthersKeep, SinkOf, Typed, WriterTypes, QueueTypes
<1>3. Line(s) = c /\ Line(s)' = <<>>
    <2>1. <<>> \o <<>> = <<>> /\ <<>> \o c = c
        BY ConcatEmptySeq, EmptySeq
    <2> QED
        BY <1>1, <1>2, <2>1 DEF Line
<1>4. /\ Sinks[s] = "open" /\ Sinks' = [Sinks EXCEPT ![s] = "gone"]
      /\ Lines[s] = c /\ Lines' = [Lines EXCEPT ![s] = <<>>]
    BY <1>2, <1>3, OneMoves
<1>5. Log!End(s)
    BY <1>1, <1>2, <1>4 DEF Log!End, Lines, Sinks, Line, SinkOf
<1> QED
    BY <1>5 DEF LogStep, Log!Next

\* Every step of the engine is a step of the log or is not seen.
LEMMA LogNext ==
    ASSUME LogInv, [Next]_engineVars
    PROVE  LogStep
<1> USE DEF startVars, captureVars, writerVars
<1>a. Typed /\ CallTypes /\ WriterTypes
    BY DEF LogInv, EngineInv, Typed
<1>b. ASSUME UNCHANGED <<row, sent, written, failed, retry, buf, channel, writer>>
      PROVE  LogStep
    <2>1. Lines' = Lines /\ Sinks' = Sinks
        BY <1>b DEF Lines, Sinks, Line, SinkOf
    <2> QED
        BY <1>b, <2>1 DEF LogStep, Log!logVars, Lines, Sinks, Line, SinkOf
<1>c. ASSUME NEW s \in Sessions, retry[s] # <<>> PROVE SinkOf(s) = "open"
    BY <1>c DEF LogInv, EngineInv, Posture, Born, SinkOf
<1>d. ASSUME NEW s \in Sessions, capture[s] # "off" \/ late[s] PROVE writer[s] # "none"
    BY <1>d DEF LogInv, EngineInv, Posture, Born
<1>1. ASSUME NEW s \in Sessions, StartSession(s) PROVE LogStep
    <2>1. CASE UNCHANGED <<row, writer>>
        BY <1>1, <1>b, <2>1 DEF StartSession
    <2>2. CASE /\ row' = [row EXCEPT ![s] = "open"]
               /\ writer' = [writer EXCEPT ![s] = "run"]
        <3>1. writer[s] = "none" /\ row[s] = "absent"
            BY <1>1 DEF LogInv, EngineInv, StartSession, Posture, Born
        <3>2. OthersKeep(s) /\ Line(s)' = Line(s) /\ SinkOf(s) = "none" /\ SinkOf(s)' = "open"
            BY <1>1, <1>a, <2>2, <3>1 DEF StartSession, OthersKeep, Line, SinkOf, WriterTypes
        <3>3. Sinks[s] = "none" /\ Sinks' = [Sinks EXCEPT ![s] = "open"] /\ Lines' = Lines
            BY <3>2, OneMoves
        <3>4. UNCHANGED <<sent, written, failed>>
            BY <1>1 DEF StartSession
        <3>5. Log!Open(s)
            BY <2>2, <3>1, <3>3, <3>4 DEF Log!Open, Lines, Sinks, Line, SinkOf
        <3> QED
            BY <3>5 DEF LogStep, Log!Next
    <2> QED
        BY <1>1, <2>1, <2>2 DEF StartSession
<1>2. ASSUME NEW s \in Sessions, StopSession(s) PROVE LogStep
    <2>1. UNCHANGED <<sent, written, failed, retry, buf, channel, writer>>
        BY <1>2 DEF StopSession
    <2>2. CASE UNCHANGED row
        BY <1>b, <2>1, <2>2
    <2>3. CASE row' = [row EXCEPT ![s] = "stopped"]
        <3>1. stop[s] = "row"
            BY <1>2 DEF StopSession
        <3>2. writer[s] = "gone" /\ row[s] = "open"
            BY <1>a, <3>1 DEF LogInv, EngineInv, Posture, Held, Born, CallTypes
        <3>3. Sinks[s] = "gone" /\ Sinks' = Sinks /\ Lines' = Lines
            BY <2>1, <3>2 DEF Sinks, Lines, SinkOf, Line
        <3>4. Log!Close(s)
            BY <2>1, <2>3, <3>2, <3>3 DEF Log!Close, Lines, Sinks, Line, SinkOf
        <3> QED
            BY <3>4 DEF LogStep, Log!Next
    <2> QED
        BY <1>2, <2>2, <2>3 DEF StopSession
<1>3. ASSUME NEW s \in Sessions, EmitLossy(s) \/ Snapshot(s) \/ Sent(s) PROVE LogStep
    <2>1. /\ capture[s] # "off" \/ late[s]
          /\ UNCHANGED <<row, writer, retry, buf, written, failed>>
          /\ TrySend(s) \/ UNCHANGED <<channel, sent>>
        BY <1>3 DEF EmitLossy, Snapshot, Sent
    <2>2. CASE TrySend(s)
        BY <1>a, <1>d, <2>1, <2>2, LogEnters
    <2>3. CASE UNCHANGED <<channel, sent>>
        BY <1>b, <2>1, <2>3
    <2> QED
        BY <2>1, <2>2, <2>3
<1>4. ASSUME NEW s \in Sessions, WriteOne(s) PROVE LogStep
    <2>1. retry[s] # <<>>
        BY <1>4 DEF WriteOne
    <2> QED
        BY <1>4, <1>a, <1>c, <2>1, LogWritesOne
<1>5. ASSUME NEW s \in Sessions, retry[s] = <<>>, Receive(s) PROVE LogStep
    <2>1. /\ channel[s] # <<>> /\ Take(s) /\ writer[s] \in {"run", "drain", "lastFlush"}
          /\ UNCHANGED <<row, writer, sent, failed>>
        BY <1>5 DEF Receive
    <2> QED
        BY <1>5, <1>a, <2>1, LogTakes
<1>6. ASSUME NEW s \in Sessions, retry[s] = <<>>, Drain(s) PROVE LogStep
    <2>1. CASE channel[s] # <<>> /\ Take(s) /\ UNCHANGED writer
        <3>1. /\ writer[s] \in {"run", "drain", "lastFlush"}
              /\ UNCHANGED <<row, writer, sent, failed>>
            BY <1>6, <2>1 DEF Drain
        <3> QED
            BY <1>6, <1>a, <2>1, <3>1, LogTakes
    <2>2. CASE /\ writer' = [writer EXCEPT ![s] = "lastFlush"]
               /\ UNCHANGED <<channel, buf, retry, written, faults>>
        <3>1. /\ OthersKeep(s) /\ Line(s)' = Line(s) /\ SinkOf(s)' = SinkOf(s)
              /\ UNCHANGED <<row, sent, written, failed>>
            BY <1>6, <1>a, <2>2 DEF Drain, OthersKeep, Line, SinkOf, WriterTypes
        <3> QED
            BY <3>1, LogUnseen
    <2> QED
        BY <1>6, <2>1, <2>2 DEF Drain
<1>7. ASSUME NEW s \in Sessions, retry[s] = <<>>, FlushTick(s) \/ LastFlush(s) PROVE LogStep
    <2>1. /\ buf[s] # <<>> /\ FlushBatch(s, buf[s]) /\ writer[s] \in {"run", "drain", "lastFlush"}
          /\ UNCHANGED <<row, writer, channel, sent, failed>>
        BY <1>7 DEF FlushTick, LastFlush
    <2> QED
        BY <1>7, <1>a, <2>1, LogFlushesBuffer
<1>8. ASSUME NEW s \in Sessions, ChannelClosed(s) \/ ShutdownSeen(s) PROVE LogStep
    <2>1. /\ OthersKeep(s) /\ Line(s)' = Line(s) /\ SinkOf(s)' = SinkOf(s)
          /\ UNCHANGED <<row, sent, written, failed>>
        BY <1>8, <1>a DEF ChannelClosed, ShutdownSeen, OthersKeep, Line, SinkOf, WriterTypes
    <2> QED
        BY <2>1, LogUnseen
<1>9. ASSUME NEW s \in Sessions, retry[s] = <<>>, WriterEnds(s) PROVE LogStep
    BY <1>9, <1>a, LogEnds
<1>10. ASSUME NEW s \in Sessions,
              \/ StartCheck(s) \/ StartPlatform(s) \/ StartInstall(s)
              \/ StopTake(s) \/ StopWriter(s) \/ StopJoin(s)
              \/ EmitBlocking(s) \/ LateWorkerEnds(s) \/ NormalizerStops(s) \/ SupervisorEnds(s)
       PROVE  LogStep
    <2>1. UNCHANGED <<row, sent, written, failed, retry, buf, channel, writer>>
        BY <1>10 DEF StartCheck, StartPlatform, StartInstall, StopTake, StopWriter, StopJoin,
           EmitBlocking, LateWorkerEnds, NormalizerStops, SupervisorEnds
    <2> QED
        BY <1>b, <2>1
<1>11. CASE UNCHANGED engineVars
    BY <1>b, <1>11 DEF engineVars
<1> HIDE DEF startVars, captureVars, writerVars
<1> QED
    BY <1>1, <1>2, <1>3, <1>4, <1>5, <1>6, <1>7, <1>8, <1>9, <1>10, <1>11, Zenon
    DEF Next, StopStep, CaptureStep, WriterStep

\* ActivityLogSpec, for any capacities, any number of messages and any failures: the
\* engine's channel, buffer, batches and retries implement one first-in, first-out
\* log per session, which loses a message only for its own failed insert or, when
\* its writer ends, from a channel's worth of late ones.
THEOREM ImplementsActivityLog == Spec => ActivityLogSpec
<1>1. Init => Log!Init
    <2> SUFFICES ASSUME Init PROVE Log!Init
        OBVIOUS
    <2>1. <<>> \o <<>> \o <<>> = <<>>
        BY ConcatEmptySeq, EmptySeq
    <2>2. [s \in Sessions |-> retry[s] \o buf[s] \o channel[s]] = [s \in Sessions |-> <<>>]
        BY <2>1 DEF Init
    <2> QED
        BY <2>2 DEF Init, Log!Init
<1>2. LogInv /\ [Next]_engineVars => [Log!Next]_(Log!logVars)
    BY LogNext DEF LogStep
<1> QED
    BY <1>1, <1>2, LogAlways, PTL DEF Spec, ActivityLogSpec, Log!Spec
=============================================================================
