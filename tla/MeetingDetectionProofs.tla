------------------------ MODULE MeetingDetectionProofs ------------------------
(***************************************************************************)
(* Proofs about MeetingDetection, for any set of apps, any channel         *)
(* capacities and any number of lines, requests and failures.              *)
(***************************************************************************)
EXTENDS MeetingDetection, SequenceTheorems, TLAPS

USE DetectionAssumption DEF DetectionAssumption

-----------------------------------------------------------------------------
(* What a queue of events does to the bridge's belief.                     *)

\* The run the bridge believes to be in a meeting after it took event e, and
\* when an Ended answers the Started it last saw.
After(b, e) ==
    IF e.type = "Started" THEN e.run ELSE IF e.type = "Ended" THEN 0 ELSE b

Legal(b, e) == e.type = "Ended" => b = e.run

\* Taking the events of q in order leads from belief a to belief b, each Ended
\* answers the Started last seen, and no belief is about a run after the n-th.
Follows(q, a, b, n) ==
    \E st \in [0..Len(q) -> 0..n] :
        /\ st[0] = a
        /\ st[Len(q)] = b
        /\ \A i \in 1..Len(q) : Legal(st[i - 1], q[i]) /\ st[i] = After(st[i - 1], q[i])

\* An empty queue changes no belief.
LEMMA FollowsEmpty ==
    ASSUME NEW n \in Nat, NEW a \in 0..n
    PROVE  /\ Follows(<<>>, a, a, n)
           /\ \A b : Follows(<<>>, a, b, n) => b = a
<1>1. Len(<<>>) = 0
    OBVIOUS
<1>2. Follows(<<>>, a, a, n)
    <2> DEFINE st == [i \in 0..0 |-> a]
    <2>1. st \in [0..Len(<<>>) -> 0..n] /\ st[0] = a /\ st[Len(<<>>)] = a
        BY <1>1
    <2>2. 1..Len(<<>>) = {}
        BY <1>1
    <2> QED
        BY <2>1, <2>2 DEF Follows
<1>3. \A b : Follows(<<>>, a, b, n) => b = a
    BY <1>1 DEF Follows
<1> QED
    BY <1>2, <1>3

\* An event sent to the back takes the last belief one step further.
LEMMA FollowsAppend ==
    ASSUME NEW n \in Nat, NEW q \in Seq(Events), NEW a, NEW b, NEW e \in Events,
           Follows(q, a, b, n), Legal(b, e), After(b, e) \in 0..n
    PROVE  Follows(Append(q, e), a, After(b, e), n)
<1> DEFINE r == Append(q, e)
<1>1. PICK st \in [0..Len(q) -> 0..n] :
        /\ st[0] = a
        /\ st[Len(q)] = b
        /\ \A i \in 1..Len(q) : Legal(st[i - 1], q[i]) /\ st[i] = After(st[i - 1], q[i])
    BY DEF Follows
<1>2. /\ Len(q) \in Nat
      /\ Len(r) = Len(q) + 1
      /\ \A i \in 1..Len(q) : r[i] = q[i]
      /\ r[Len(r)] = e
    BY LenProperties, AppendProperties
<1> DEFINE tt == [i \in 0..Len(r) |-> IF i <= Len(q) THEN st[i] ELSE After(b, e)]
<1>3. tt \in [0..Len(r) -> 0..n] /\ tt[0] = a /\ tt[Len(r)] = After(b, e)
    BY <1>1, <1>2
<1>4. ASSUME NEW i \in 1..Len(r) PROVE Legal(tt[i - 1], r[i]) /\ tt[i] = After(tt[i - 1], r[i])
    <2>1. CASE i \in 1..Len(q)
        BY <1>1, <1>2, <2>1
    <2>2. CASE i = Len(q) + 1
        BY <1>1, <1>2, <2>2
    <2> QED
        BY <1>2, <2>1, <2>2
<1> HIDE DEF r, tt
<1>5. Follows(r, a, After(b, e), n)
    BY <1>3, <1>4 DEF Follows
<1> QED
    BY <1>5 DEF r

\* Taking the oldest event leaves a queue that goes on from there.
LEMMA FollowsTail ==
    ASSUME NEW n \in Nat, NEW q \in Seq(Events), NEW a, NEW b, q # <<>>,
           Follows(q, a, b, n)
    PROVE  /\ Legal(a, Head(q))
           /\ After(a, Head(q)) \in 0..n
           /\ Follows(Tail(q), After(a, Head(q)), b, n)
<1> DEFINE r == Tail(q)
<1>1. PICK st \in [0..Len(q) -> 0..n] :
        /\ st[0] = a
        /\ st[Len(q)] = b
        /\ \A i \in 1..Len(q) : Legal(st[i - 1], q[i]) /\ st[i] = After(st[i - 1], q[i])
    BY DEF Follows
<1>2. /\ Len(q) \in Nat \ {0}
      /\ Len(r) = Len(q) - 1
      /\ \A i \in 1..Len(r) : r[i] = q[i + 1]
      /\ Head(q) = q[1]
    BY LenProperties, HeadTailProperties, EmptySeq
<1>3. Legal(a, Head(q)) /\ st[1] = After(a, Head(q)) /\ st[1] \in 0..n
    BY <1>1, <1>2
<1> DEFINE tt == [i \in 0..Len(r) |-> st[i + 1]]
<1>4. tt \in [0..Len(r) -> 0..n] /\ tt[0] = st[1] /\ tt[Len(r)] = b
    BY <1>1, <1>2
<1>5. ASSUME NEW i \in 1..Len(r) PROVE Legal(tt[i - 1], r[i]) /\ tt[i] = After(tt[i - 1], r[i])
    <2>1. i + 1 \in 1..Len(q) /\ i \in 1..Len(q) /\ (i + 1) - 1 = i /\ i - 1 \in 0..Len(r)
        BY <1>2
    <2>2. tt[i - 1] = st[i] /\ tt[i] = st[i + 1] /\ r[i] = q[i + 1]
        BY <1>2, <2>1
    <2> QED
        BY <1>1, <2>1, <2>2
<1> HIDE DEF r, tt
<1>6. Follows(r, st[1], b, n)
    BY <1>4, <1>5 DEF Follows
<1> QED
    BY <1>3, <1>6 DEF r

\* A later run of the detector does not change what its queues say.
LEMMA FollowsGrow ==
    ASSUME NEW n \in Nat, NEW q, NEW a, NEW b, Follows(q, a, b, n)
    PROVE  Follows(q, a, b, n + 1)
<1>1. PICK st \in [0..Len(q) -> 0..n] :
        /\ st[0] = a
        /\ st[Len(q)] = b
        /\ \A i \in 1..Len(q) : Legal(st[i - 1], q[i]) /\ st[i] = After(st[i - 1], q[i])
    BY DEF Follows
<1>2. st \in [0..Len(q) -> 0..(n + 1)]
    OBVIOUS
<1> QED
    BY <1>1, <1>2 DEF Follows

-----------------------------------------------------------------------------
(* Type correctness, and where each party stands.                          *)

\* A queue of one element.
LEMMA Single ==
    ASSUME NEW S, NEW e \in S
    PROVE  /\ <<e>> \in Seq(S)
           /\ Len(<<e>>) = 1
           /\ <<e>>[1] = e
           /\ Head(<<e>>) = e
           /\ Tail(<<e>>) = <<>>
           /\ <<e>> # <<>>
OBVIOUS

\* DetectionTypeOK in parts, for the steps that change one of them.
TaskTypes ==
    /\ running \in BOOLEAN /\ shutdown \in BOOLEAN
    /\ task \in {"none", "spawn", "loop", "send", "lastSend"}
    /\ outgoing \in EventTypes
    /\ current \in SUBSET Apps
    /\ said \in SUBSET Apps

LineTypes ==
    /\ log \in Seq(SUBSET Apps)
    /\ pending \in Seq(SUBSET Apps) /\ Len(pending) <= 1

SupTypes ==
    /\ sup \in {"idle", "starting", "forwarding", "sending", "stopping", "closing", "gone"}
    /\ held \in Seq(Events) /\ Len(held) <= 1

ChannelTypes ==
    /\ events \in Seq(Events) /\ Len(events) <= EventCapacity
    /\ forward \in Seq(Events) /\ Len(forward) <= ForwardCapacity

CtlTypes ==
    /\ ctlOpen \in BOOLEAN /\ asked \in BOOLEAN
    /\ ctl \in Seq(BOOLEAN) /\ Len(ctl) <= CtlCapacity

CountTypes == open \in Nat /\ run \in Nat /\ lines \in Nat /\ asks \in Nat /\ failures \in Nat

\* A task that does not run has nothing in its pipe, its debouncer or its
\* Tracker; a supervisor that is not forwarding has no channel open.
Idle ==
    /\ task \in {"none", "spawn"} =>
          log = <<>> /\ pending = <<>> /\ current = {} /\ said = {}
    /\ sup \in {"idle", "starting", "gone"} => task = "none" /\ events = <<>>
    /\ sup = "sending" => Len(held) = 1
    /\ sup # "sending" => held = <<>>

\* The last line is the newest one still on its way through the pipe, the
\* debouncer and the Tracker.
LastLine ==
    said = IF log # <<>> THEN log[Len(log)]
           ELSE IF pending # <<>> THEN pending[1] ELSE current

Typed == DetectionTypeOK /\ Idle /\ LastLine

\* At launch nothing runs.
LEMMA TypedInit == Init => Typed
<1> SUFFICES ASSUME Init PROVE Typed
    OBVIOUS
<1>1. /\ log \in Seq(SUBSET Apps) /\ pending \in Seq(SUBSET Apps) /\ Len(pending) = 0
      /\ held \in Seq(Events) /\ Len(held) = 0
      /\ events \in Seq(Events) /\ Len(events) = 0
      /\ forward \in Seq(Events) /\ Len(forward) = 0
      /\ ctl \in Seq(BOOLEAN) /\ Len(ctl) = 0
    BY EmptySeq DEF Init
<1>2. {running, shutdown, ctlOpen, asked} \subseteq BOOLEAN
    BY DEF Init
<1>3. /\ sup \in {"idle", "starting", "forwarding", "sending", "stopping", "closing", "gone"}
      /\ outgoing \in EventTypes
    BY DEF Init, EventTypes
<1>4. DetectionTypeOK
    BY <1>1, <1>2, <1>3 DEF Init, DetectionTypeOK
<1>5. Idle /\ LastLine
    BY DEF Init, Idle, LastLine
<1> QED
    BY <1>4, <1>5 DEF Typed

\* Every step of the detector, the supervisor, Control Center and the shell
\* leaves each variable in its set and says which party has what in hand.
LEMMA TypedStep == Typed /\ [Next]_detectionVars => Typed'
<1> SUFFICES ASSUME Typed, [Next]_detectionVars PROVE Typed'
    OBVIOUS
<1>a. /\ TaskTypes /\ LineTypes /\ SupTypes /\ ChannelTypes /\ CtlTypes /\ CountTypes
      /\ Idle /\ LastLine
    BY DEF Typed, DetectionTypeOK, TaskTypes, LineTypes, SupTypes, ChannelTypes, CtlTypes,
       CountTypes
<1>b. SUFFICES /\ TaskTypes' /\ LineTypes' /\ SupTypes' /\ ChannelTypes' /\ CtlTypes'
               /\ CountTypes' /\ Idle' /\ LastLine'
    BY DEF Typed, DetectionTypeOK, TaskTypes, LineTypes, SupTypes, ChannelTypes, CtlTypes,
       CountTypes
<1>c. ASSUME UNCHANGED <<log, pending>> PROVE LineTypes'
    BY <1>a, <1>c DEF LineTypes
<1>d. ASSUME UNCHANGED supVars PROVE SupTypes'
    BY <1>a, <1>d DEF SupTypes, supVars
<1>e. ASSUME UNCHANGED <<events, forward>> PROVE ChannelTypes'
    BY <1>a, <1>e DEF ChannelTypes
<1>f. ASSUME UNCHANGED <<ctl, ctlOpen, asked>> PROVE CtlTypes'
    BY <1>a, <1>f DEF CtlTypes
<1>g. ASSUME UNCHANGED <<log, pending, current, said>> PROVE LastLine'
    BY <1>a, <1>g DEF LastLine
<1>h. ASSUME End PROVE LineTypes' /\ LastLine'
    BY <1>h, EmptySeq DEF End, LineTypes, LastLine
<1>i. /\ \A q \in Seq(Events) : Len(q) \in Nat
      /\ \A q \in Seq(SUBSET Apps) : Len(q) \in Nat
      /\ \A q \in Seq(BOOLEAN) : Len(q) \in Nat
    BY LenProperties
<1>j. ASSUME ctl # <<>>, ctl' = Tail(ctl), UNCHANGED <<ctlOpen, asked>> PROVE CtlTypes'
    <2>1. ctl \in Seq(BOOLEAN) /\ Len(ctl) <= CtlCapacity /\ Len(ctl) \in Nat
        BY <1>a, <1>i DEF CtlTypes
    <2>2. ctl' \in Seq(BOOLEAN) /\ Len(ctl') = Len(ctl) - 1
        BY <1>j, <2>1, HeadTailProperties
    <2>3. Len(ctl') <= CtlCapacity
        BY <2>1, <2>2
    <2>4. ctlOpen' \in BOOLEAN /\ asked' \in BOOLEAN
        BY <1>a, <1>j DEF CtlTypes
    <2> QED
        BY <2>2, <2>3, <2>4 DEF CtlTypes
<1> USE DEF taskVars, supVars, channelVars, budgetVars
<1>1. ASSUME NEW apps \in SUBSET Apps, MicChanges(apps)
      PROVE  /\ TaskTypes' /\ LineTypes' /\ SupTypes' /\ ChannelTypes' /\ CtlTypes'
             /\ CountTypes' /\ Idle' /\ LastLine'
    <2>1. /\ log' \in Seq(SUBSET Apps) /\ log' # <<>> /\ log'[Len(log')] = apps
        BY <1>1, <1>a, <1>i, AppendProperties DEF MicChanges, LineTypes
    <2>2. LineTypes' /\ LastLine'
        BY <1>1, <1>a, <2>1 DEF MicChanges, LineTypes, LastLine
    <2>3. TaskTypes' /\ CountTypes' /\ Idle'
        BY <1>1, <1>a DEF MicChanges, TaskTypes, CountTypes, Idle
    <2> QED
        BY <1>1, <1>d, <1>e, <1>f, <2>2, <2>3 DEF MicChanges
<1>2. ASSUME NEW enabled \in BOOLEAN, Ask(enabled)
      PROVE  /\ TaskTypes' /\ LineTypes' /\ SupTypes' /\ ChannelTypes' /\ CtlTypes'
             /\ CountTypes' /\ Idle' /\ LastLine'
    <2>1. CtlTypes'
        BY <1>2, <1>a, <1>i, AppendProperties DEF Ask, CtlTypes
    <2>2. TaskTypes' /\ CountTypes' /\ Idle'
        BY <1>2, <1>a DEF Ask, TaskTypes, CountTypes, Idle
    <2> QED
        BY <1>2, <1>c, <1>d, <1>e, <1>g, <2>1, <2>2 DEF Ask
<1>3. CASE DropHandles
    <2>1. CtlTypes'
        BY <1>3, <1>a DEF DropHandles, CtlTypes
    <2>2. TaskTypes' /\ CountTypes' /\ Idle'
        BY <1>3, <1>a DEF DropHandles, TaskTypes, CountTypes, Idle
    <2> QED
        BY <1>3, <1>c, <1>d, <1>e, <1>g, <2>1, <2>2 DEF DropHandles
<1>4. CASE Spawn
    <2>1. TaskTypes' /\ CountTypes' /\ Idle'
        BY <1>4, <1>a DEF Spawn, TaskTypes, CountTypes, Idle, EventTypes
    <2> QED
        BY <1>4, <1>c, <1>d, <1>e, <1>f, <1>g, <2>1 DEF Spawn
<1>5. CASE ReadLine
    <2>1. /\ Head(log) \in SUBSET Apps
          /\ log' \in Seq(SUBSET Apps)
          /\ Len(log) \in Nat \ {0}
          /\ Len(log') = Len(log) - 1
          /\ \A i \in 1..Len(log') : log'[i] = log[i + 1]
          /\ Head(log) = log[1]
        BY <1>5, <1>a, HeadTailProperties, EmptySeq DEF ReadLine, LineTypes
    <2>2. /\ pending' \in Seq(SUBSET Apps) /\ Len(pending') = 1 /\ pending'[1] = Head(log)
          /\ pending' # <<>>
        BY <1>5, <2>1, Single DEF ReadLine
    <2>3. said' = log[Len(log)]
        BY <1>5, <1>a DEF ReadLine, LastLine
    <2>4. LastLine'
        <3>1. CASE log' = <<>>
            <4>1. Len(log) = 1
                BY <2>1, <3>1, EmptySeq
            <4> QED
                BY <2>1, <2>2, <2>3, <3>1, <4>1 DEF LastLine
        <3>2. CASE log' # <<>>
            <4>1. Len(log') \in 1..Len(log')
                BY <2>1, <3>2, EmptySeq
            <4>2. log'[Len(log')] = log[Len(log)]
                BY <2>1, <4>1
            <4> QED
                BY <2>3, <3>2, <4>2 DEF LastLine
        <3> QED
            BY <3>1, <3>2
    <2>5. TaskTypes' /\ CountTypes' /\ Idle' /\ LineTypes'
        BY <1>5, <1>a, <2>1, <2>2 DEF ReadLine, TaskTypes, CountTypes, Idle, LineTypes
    <2> QED
        BY <1>5, <1>d, <1>e, <1>f, <2>4, <2>5 DEF ReadLine
<1>6. CASE Flush
    <2>1. Head(pending) \in SUBSET Apps /\ Head(pending) = pending[1]
        BY <1>6, <1>a, HeadTailProperties DEF Flush, LineTypes
    <2>2. LineTypes'
        BY <1>6, <1>a, EmptySeq DEF Flush, LineTypes
    <2>3. LastLine'
        BY <1>6, <1>a, <2>1 DEF Flush, LastLine
    <2>4. TaskTypes' /\ CountTypes' /\ Idle'
        BY <1>6, <1>a, <2>1 DEF Flush, TaskTypes, CountTypes, Idle, EventOf, EventTypes
    <2> QED
        BY <1>6, <1>d, <1>e, <1>f, <2>2, <2>3, <2>4 DEF Flush
<1>7. CASE Send
    <2>1. ChannelTypes'
        <3>1. [type |-> outgoing, run |-> run] \in Events
            BY <1>a DEF TaskTypes, CountTypes, Events
        <3>2. CASE UNCHANGED events
            BY <1>7, <1>e, <3>2 DEF Send
        <3>3. CASE /\ Len(events) < EventCapacity
                   /\ events' = Append(events, [type |-> outgoing, run |-> run])
            BY <1>7, <1>a, <1>i, <3>1, <3>3, AppendProperties DEF Send, ChannelTypes
        <3> QED
            BY <1>7, <3>2, <3>3 DEF Send
    <2>2. LineTypes' /\ LastLine'
        BY <1>7, <1>c, <1>g, <1>h DEF Send
    <2>3. TaskTypes' /\ CountTypes' /\ Idle'
        BY <1>7, <1>a DEF Send, End, TaskTypes, CountTypes, Idle
    <2> QED
        BY <1>7, <1>d, <1>f, <2>1, <2>2, <2>3 DEF Send
<1>8. CASE StreamEnds
    <2>1. TaskTypes' /\ CountTypes' /\ Idle'
        BY <1>8, <1>a DEF StreamEnds, TaskTypes, CountTypes, Idle, EventTypes
    <2> QED
        BY <1>8, <1>c, <1>d, <1>e, <1>f, <1>g, <2>1 DEF StreamEnds
<1>9. CASE Shutdown
    <2>1. TaskTypes' /\ CountTypes' /\ Idle'
        BY <1>9, <1>a DEF Shutdown, End, TaskTypes, CountTypes, Idle
    <2> QED
        BY <1>9, <1>d, <1>e, <1>f, <1>h, <2>1 DEF Shutdown
<1>10. CASE AwaitEnable
    <2>1. CtlTypes'
        BY <1>10, <1>f, <1>j DEF AwaitEnable
    <2>2. SupTypes'
        BY <1>10, <1>a DEF AwaitEnable, SupTypes
    <2>3. TaskTypes' /\ CountTypes' /\ Idle'
        BY <1>10, <1>a DEF AwaitEnable, TaskTypes, CountTypes, Idle
    <2> QED
        BY <1>10, <1>c, <1>e, <1>g, <2>1, <2>2, <2>3 DEF AwaitEnable
<1>11. CASE Start
    <2>1. ChannelTypes'
        <3>1. CASE UNCHANGED events
            BY <1>11, <1>e, <3>1 DEF Start
        <3>2. CASE events' = <<>>
            <4>1. events' \in Seq(Events) /\ Len(events') = 0
                BY <3>2
            <4> QED
                BY <1>11, <1>a, <4>1 DEF Start, ChannelTypes
        <3> QED
            BY <1>11, <3>1, <3>2 DEF Start
    <2>2. SupTypes'
        BY <1>11, <1>a DEF Start, SupTypes
    <2>3. CountTypes'
        BY <1>11, <1>a DEF Start, CountTypes
    <2>4. task = "none" /\ events = <<>>
        BY <1>11, <1>a DEF Start, Idle
    <2>5. Idle'
        <3>1. CASE running
            BY <1>11, <1>a, <2>4, <3>1 DEF Start, Idle
        <3>2. CASE ~running
            BY <1>11, <1>a, <2>4, <3>2 DEF Start, Idle
        <3> QED
            BY <3>1, <3>2
    <2>6. TaskTypes'
        <3>1. CASE running
            BY <1>11, <1>a, <3>1 DEF Start, TaskTypes
        <3>2. CASE ~running
            BY <1>11, <1>a, <3>2 DEF Start, TaskTypes
        <3> QED
            BY <3>1, <3>2
    <2> QED
        BY <1>11, <1>c, <1>f, <1>g, <2>1, <2>2, <2>3, <2>5, <2>6 DEF Start
<1>12. CASE TakeEvent
    <2>1. /\ Head(events) \in Events
          /\ events' \in Seq(Events) /\ Len(events') = Len(events) - 1
        BY <1>12, <1>a, HeadTailProperties DEF TakeEvent, ChannelTypes
    <2>2. held' \in Seq(Events) /\ Len(held') = 1
        BY <1>12, <2>1, Single DEF TakeEvent
    <2>3. ChannelTypes' /\ SupTypes'
        BY <1>12, <1>a, <1>i, <2>1, <2>2 DEF TakeEvent, ChannelTypes, SupTypes
    <2>4. TaskTypes' /\ CountTypes' /\ Idle'
        BY <1>12, <1>a, <2>2 DEF TakeEvent, TaskTypes, CountTypes, Idle
    <2> QED
        BY <1>12, <1>c, <1>f, <1>g, <2>3, <2>4 DEF TakeEvent
<1>13. CASE Forward
    <2>1. Len(held) = 1 /\ forward' = forward \o held
        BY <1>13, <1>a DEF Forward, Idle
    <2>2. forward' \in Seq(Events) /\ Len(forward') = Len(forward) + 1
        BY <1>a, <2>1, ConcatProperties DEF ChannelTypes, SupTypes
    <2>3. ChannelTypes' /\ SupTypes'
        BY <1>13, <1>a, <1>i, <2>2, EmptySeq DEF Forward, ChannelTypes, SupTypes
    <2>4. TaskTypes' /\ CountTypes' /\ Idle'
        BY <1>13, <1>a DEF Forward, TaskTypes, CountTypes, Idle
    <2> QED
        BY <1>13, <1>c, <1>f, <1>g, <2>3, <2>4 DEF Forward
<1>14. CASE StreamEnded
    <2>1. SupTypes'
        BY <1>14, <1>a DEF StreamEnded, SupTypes
    <2>2. TaskTypes' /\ CountTypes' /\ Idle'
        BY <1>14, <1>a DEF StreamEnded, TaskTypes, CountTypes, Idle
    <2> QED
        BY <1>14, <1>c, <1>e, <1>f, <1>g, <2>1, <2>2 DEF StreamEnded
<1>15. CASE Control
    <2>1. CtlTypes'
        BY <1>15, <1>f, <1>j DEF Control
    <2>2. SupTypes'
        BY <1>15, <1>a DEF Control, StopDetector, SupTypes
    <2>3. TaskTypes' /\ CountTypes' /\ Idle'
        BY <1>15, <1>a DEF Control, StopDetector, TaskTypes, CountTypes, Idle
    <2> QED
        BY <1>15, <1>c, <1>e, <1>g, <2>1, <2>2, <2>3 DEF Control
<1>16. CASE Stopped
    <2>1. ChannelTypes'
        BY <1>16, <1>a, EmptySeq DEF Stopped, ChannelTypes
    <2>2. SupTypes'
        BY <1>16, <1>a DEF Stopped, SupTypes
    <2>3. TaskTypes' /\ CountTypes' /\ Idle'
        BY <1>16, <1>a DEF Stopped, TaskTypes, CountTypes, Idle
    <2> QED
        BY <1>16, <1>c, <1>f, <1>g, <2>1, <2>2, <2>3 DEF Stopped
<1>17. CASE BridgeTakes
    <2>1. /\ Head(forward) \in Events
          /\ forward' \in Seq(Events) /\ Len(forward') = Len(forward) - 1
        BY <1>17, <1>a, HeadTailProperties DEF BridgeTakes, ChannelTypes
    <2>2. open' \in Nat
        BY <1>17, <1>a, <2>1 DEF BridgeTakes, CountTypes, Events
    <2>3. ChannelTypes'
        BY <1>17, <1>a, <1>i, <2>1 DEF BridgeTakes, ChannelTypes
    <2>4. TaskTypes' /\ CountTypes' /\ Idle'
        BY <1>17, <1>a, <2>2 DEF BridgeTakes, TaskTypes, CountTypes, Idle
    <2> QED
        BY <1>17, <1>c, <1>d, <1>f, <1>g, <2>3, <2>4 DEF BridgeTakes
<1>18. CASE UNCHANGED detectionVars
    <2>1. TaskTypes' /\ CountTypes' /\ Idle'
        BY <1>18, <1>a DEF detectionVars, TaskTypes, CountTypes, Idle
    <2> QED
        BY <1>18, <1>c, <1>d, <1>e, <1>f, <1>g, <2>1 DEF detectionVars
<1> QED
    BY <1>1, <1>2, <1>3, <1>4, <1>5, <1>6, <1>7, <1>8, <1>9, <1>10, <1>11, <1>12,
       <1>13, <1>14, <1>15, <1>16, <1>17, <1>18
    DEF Next, DetectorStep, SupervisorStep

\* Typed holds in every reachable state.
LEMMA TypedAlways == Spec => []Typed
<1>1. Init => Typed
    BY TypedInit
<1>2. Typed /\ [Next]_detectionVars => Typed'
    BY TypedStep
<1> QED
    BY <1>1, <1>2, PTL DEF Spec

\* Every variable of the detection keeps its type: the channels stay within
\* their capacities and the debouncer holds one observation.
THEOREM DetectionTypeCorrect == Spec => []DetectionTypeOK
<1>1. Typed => DetectionTypeOK
    BY DEF Typed
<1> QED
    BY <1>1, TypedAlways, PTL

-----------------------------------------------------------------------------
(* The transitions on their way to the bridge.                             *)

\* The task and the last event it got through agree: before it sends the next
\* one, a meeting of its run is announced exactly while its Tracker has apps.
TaskAgrees(z) ==
    /\ task \in {"spawn", "loop", "lastSend"} => run > 0 /\ (z = run <=> current # {})
    /\ task = "send" =>
          /\ run > 0
          /\ outgoing = "Started" => current # {}
          /\ outgoing = "Ended" => current = {} /\ z = run
          /\ outgoing = "AppsChanged" => current # {} /\ z = run
          /\ outgoing # "HealthDegraded"
    /\ task = "lastSend" => outgoing = "HealthDegraded"

\* From the bridge's belief, through the forwarding channel, the event in the
\* supervisor's hand and the detector's channel, to what the task said last.
Chain ==
    \E x, y, z \in 0..run :
        /\ Follows(forward, open, x, run)
        /\ Follows(held, x, y, run)
        /\ Follows(events, y, z, run)
        /\ TaskAgrees(z)

\* Nothing is on its way at launch.
LEMMA ChainInit == Init => Chain
<1> SUFFICES ASSUME Init PROVE Chain
    OBVIOUS
<1>1. run = 0 /\ 0 \in 0..run
    BY DEF Init
<1>2. Follows(<<>>, 0, 0, 0)
    BY FollowsEmpty
<1>3. TaskAgrees(0)
    BY DEF Init, TaskAgrees
<1> QED
    BY <1>1, <1>2, <1>3 DEF Init, Chain

\* Every step keeps the transitions on their way complete and in order.
LEMMA ChainStep == Typed /\ Chain /\ [Next]_detectionVars => Chain'
<1> SUFFICES ASSUME Typed, Chain, [Next]_detectionVars PROVE Chain'
    OBVIOUS
<1>a. /\ TaskTypes /\ LineTypes /\ SupTypes /\ ChannelTypes /\ CountTypes
      /\ Idle /\ LastLine
    BY DEF Typed, DetectionTypeOK, TaskTypes, LineTypes, SupTypes, ChannelTypes, CountTypes
<1>b. PICK x \in 0..run, y \in 0..run, z \in 0..run :
        /\ Follows(forward, open, x, run)
        /\ Follows(held, x, y, run)
        /\ Follows(events, y, z, run)
        /\ TaskAgrees(z)
    BY DEF Chain
<1>c. run \in Nat /\ open \in Nat
    BY <1>a DEF CountTypes
<1>d. ASSUME UNCHANGED <<forward, held, events, open, run>>, TaskAgrees(z)'
      PROVE  Chain'
    BY <1>b, <1>d DEF Chain
<1>e. ASSUME UNCHANGED <<task, current, outgoing, run>> PROVE TaskAgrees(z)'
    BY <1>b, <1>e DEF TaskAgrees
<1> USE DEF taskVars, supVars, channelVars, budgetVars
<1>1. ASSUME NEW apps \in SUBSET Apps, MicChanges(apps) PROVE Chain'
    BY <1>1, <1>d, <1>e DEF MicChanges
<1>2. ASSUME NEW enabled \in BOOLEAN, Ask(enabled) PROVE Chain'
    BY <1>2, <1>d, <1>e DEF Ask
<1>3. CASE DropHandles
    BY <1>3, <1>d, <1>e DEF DropHandles
<1>4. CASE Spawn
    <2>1. TaskAgrees(z)'
        BY <1>4, <1>b DEF Spawn, TaskAgrees
    <2> QED
        BY <1>4, <1>d, <2>1 DEF Spawn
<1>5. CASE ReadLine
    BY <1>5, <1>d, <1>e DEF ReadLine
<1>6. CASE Flush
    <2>1. TaskAgrees(z)'
        <3>1. CASE current' = current /\ UNCHANGED <<task, outgoing>>
            BY <1>6, <1>e, <3>1 DEF Flush
        <3>2. CASE /\ current' # current
                   /\ outgoing' = EventOf(current, current')
                   /\ task' = "send"
            BY <1>6, <1>b, <3>2 DEF Flush, TaskAgrees, EventOf
        <3> QED
            BY <1>6, <3>1, <3>2 DEF Flush
    <2> QED
        BY <1>6, <1>d, <2>1 DEF Flush
<1>7. CASE Send
    <2>1. CASE /\ Len(events) < EventCapacity
               /\ events' = Append(events, [type |-> outgoing, run |-> run])
        <3>1. PICK e \in Events : e.type = outgoing /\ e.run = run /\ events' = Append(events, e)
            BY <1>a, <1>c, <2>1 DEF TaskTypes, Events
        <3>2. Legal(z, e) /\ After(z, e) \in 0..run
            BY <1>7, <1>b, <1>c, <3>1 DEF Send, TaskAgrees, Legal, After
        <3>3. Follows(events', y, After(z, e), run)
            BY <1>a, <1>b, <1>c, <3>1, <3>2, FollowsAppend DEF ChannelTypes
        <3>4. TaskAgrees(After(z, e))'
            <4>1. PICK w : w = After(z, e)
                OBVIOUS
            <4>2. TaskAgrees(w)'
                BY <1>7, <1>a, <1>b, <1>c, <3>1, <4>1
                DEF Send, End, TaskAgrees, After, TaskTypes, EventTypes
            <4> QED
                BY <4>1, <4>2
        <3> QED
            BY <1>7, <1>b, <3>2, <3>3, <3>4 DEF Send, Chain
    <2>2. CASE End /\ UNCHANGED events
        <3>1. TaskAgrees(z)'
            BY <2>2 DEF End, TaskAgrees
        <3> QED
            BY <1>7, <1>d, <2>2, <3>1 DEF Send
    <2> QED
        BY <1>7, <2>1, <2>2 DEF Send
<1>8. CASE StreamEnds
    <2>1. TaskAgrees(z)'
        BY <1>8, <1>b DEF StreamEnds, TaskAgrees
    <2> QED
        BY <1>8, <1>d, <2>1 DEF StreamEnds
<1>9. CASE Shutdown
    <2>1. TaskAgrees(z)'
        BY <1>9 DEF Shutdown, End, TaskAgrees
    <2> QED
        BY <1>9, <1>d, <2>1 DEF Shutdown
<1>10. CASE AwaitEnable
    BY <1>10, <1>d, <1>e DEF AwaitEnable
<1>11. CASE Start
    <2>1. CASE running
        BY <1>11, <1>d, <1>e, <2>1 DEF Start
    <2>2. CASE ~running
        <3>1. events = <<>> /\ task = "none" /\ current = {} /\ held = <<>>
            BY <1>11, <1>a DEF Start, Idle
        <3>2. z = y
            BY <1>b, <1>c, <3>1, FollowsEmpty
        <3>3. x \in 0..run' /\ y \in 0..run' /\ z \in 0..run' /\ z # run' /\ run' = run + 1
              /\ run' > 0
            BY <1>11, <1>c, <2>2 DEF Start
        <3>4. /\ Follows(forward, open, x, run + 1)
              /\ Follows(held, x, y, run + 1)
              /\ Follows(events, y, z, run + 1)
            BY <1>b, <1>c, FollowsGrow
        <3>5. TaskAgrees(z)'
            BY <1>11, <2>2, <3>1, <3>3 DEF Start, TaskAgrees
        <3> QED
            BY <1>11, <2>2, <3>1, <3>3, <3>4, <3>5 DEF Start, Chain
    <2> QED
        BY <2>1, <2>2
<1>12. CASE TakeEvent
    <2>1. held = <<>> /\ x = y
        <3>1. held = <<>>
            BY <1>12, <1>a DEF TakeEvent, Idle
        <3> QED
            BY <1>b, <1>c, <3>1, FollowsEmpty
    <2>2. PICK e \in Events : e = Head(events) /\ held' = <<e>>
        BY <1>12, <1>a, HeadTailProperties DEF TakeEvent, ChannelTypes
    <2>3. Legal(y, e) /\ After(y, e) \in 0..run /\ Follows(events', After(y, e), z, run)
        BY <1>12, <1>a, <1>b, <1>c, <2>2, FollowsTail DEF TakeEvent, ChannelTypes
    <2>4. Follows(Append(<<>>, e), y, After(y, e), run)
        <3>1. Follows(<<>>, y, y, run) /\ <<>> \in Seq(Events)
            BY <1>c, FollowsEmpty, EmptySeq
        <3> QED
            BY <1>c, <2>3, <3>1, FollowsAppend
    <2>5. Append(<<>>, e) = held'
        BY <2>2
    <2>6. TaskAgrees(z)'
        BY <1>12, <1>e DEF TakeEvent
    <2>7. PICK w \in 0..run : w = After(y, e)
        BY <2>3
    <2> QED
        BY <1>12, <1>b, <2>1, <2>3, <2>4, <2>5, <2>6, <2>7 DEF TakeEvent, Chain
<1>13. CASE Forward
    <2>1. Len(held) = 1 /\ held \in Seq(Events) /\ held # <<>>
        <3>1. Len(held) = 1 /\ held \in Seq(Events)
            BY <1>13, <1>a DEF Forward, Idle, SupTypes
        <3> QED
            BY <3>1, EmptySeq
    <2>2. PICK e \in Events : e = Head(held) /\ held = <<e>>
        BY <2>1, HeadTailProperties
    <2>3. forward' = Append(forward, e)
        BY <1>13, <1>a, <2>2, AppendIsConcat DEF Forward, ChannelTypes
    <2>4. Legal(x, e) /\ After(x, e) \in 0..run /\ Follows(Tail(held), After(x, e), y, run)
        BY <1>b, <1>c, <2>1, <2>2, FollowsTail
    <2>5. Tail(held) = <<>>
        BY <2>2
    <2>6. y = After(x, e)
        <3>1. PICK w \in 0..run : w = After(x, e)
            BY <2>4
        <3>2. Follows(<<>>, w, y, run)
            BY <2>4, <2>5, <3>1
        <3> QED
            BY <1>c, <3>1, <3>2, FollowsEmpty
    <2>7. Follows(forward', open, y, run)
        BY <1>a, <1>b, <1>c, <2>2, <2>3, <2>4, <2>6, FollowsAppend DEF ChannelTypes
    <2>8. Follows(<<>>, y, y, run)
        BY <1>c, FollowsEmpty
    <2>9. TaskAgrees(z)'
        BY <1>13, <1>e DEF Forward
    <2> QED
        BY <1>13, <1>b, <2>7, <2>8, <2>9 DEF Forward, Chain
<1>14. CASE StreamEnded
    BY <1>14, <1>d, <1>e DEF StreamEnded
<1>15. CASE Control
    BY <1>15, <1>d, <1>e DEF Control
<1>16. CASE Stopped
    <2>1. TaskAgrees(y)'
        BY <1>16 DEF Stopped, TaskAgrees
    <2>2. Follows(<<>>, y, y, run)
        BY <1>c, FollowsEmpty
    <2> QED
        BY <1>16, <1>b, <2>1, <2>2 DEF Stopped, Chain
<1>17. CASE BridgeTakes
    <2>1. PICK e \in Events : e = Head(forward)
        BY <1>17, <1>a, HeadTailProperties DEF BridgeTakes, ChannelTypes
    <2>2. After(open, e) \in 0..run /\ Follows(forward', After(open, e), x, run)
        BY <1>17, <1>a, <1>b, <1>c, <2>1, FollowsTail DEF BridgeTakes, ChannelTypes
    <2>3. open' = After(open, e)
        BY <1>17, <2>1 DEF BridgeTakes, After
    <2>4. TaskAgrees(z)'
        BY <1>17, <1>e DEF BridgeTakes
    <2> QED
        BY <1>17, <1>b, <2>2, <2>3, <2>4 DEF BridgeTakes, Chain
<1>18. CASE UNCHANGED detectionVars
    BY <1>18, <1>d, <1>e DEF detectionVars
<1> QED
    BY <1>1, <1>2, <1>3, <1>4, <1>5, <1>6, <1>7, <1>8, <1>9, <1>10, <1>11, <1>12,
       <1>13, <1>14, <1>15, <1>16, <1>17, <1>18
    DEF Next, DetectorStep, SupervisorStep

\* The chain holds in every reachable state.
LEMMA ChainAlways == Spec => [](Typed /\ Chain)
<1>1. Init => Chain
    BY ChainInit
<1>2. Typed /\ Chain /\ [Next]_detectionVars => Chain'
    BY ChainStep
<1> QED
    BY <1>1, <1>2, TypedAlways, PTL DEF Spec

\* BridgeKnowsLastLine, for any capacities: once the pipe, the debouncer and the
\* channels are empty, the bridge believes in a meeting of this run exactly when
\* the last line named a meeting app.
THEOREM BridgeSeesLastLine == Spec => []BridgeKnowsLastLine
<1>1. Typed /\ Chain => BridgeKnowsLastLine
    <2> SUFFICES ASSUME Typed, Chain, Quiet PROVE open = run <=> said # {}
        BY DEF BridgeKnowsLastLine
    <2>1. run \in Nat /\ open \in Nat /\ held = <<>> /\ said = current
        BY DEF Typed, DetectionTypeOK, Idle, LastLine, Quiet
    <2>2. PICK x \in 0..run, y \in 0..run, z \in 0..run :
            /\ Follows(<<>>, open, x, run)
            /\ Follows(<<>>, x, y, run)
            /\ Follows(<<>>, y, z, run)
            /\ TaskAgrees(z)
        BY <2>1 DEF Chain, Quiet
    <2>3. y = x /\ z = y
        BY <2>1, <2>2, FollowsEmpty
    <2>4. open = x
        <3>1. open \in 0..run
            BY <2>1, <2>2 DEF Follows
        <3> QED
            BY <2>1, <2>2, <3>1, FollowsEmpty
    <2> QED
        BY <2>1, <2>2, <2>3, <2>4 DEF Quiet, TaskAgrees
<1> QED
    BY <1>1, ChainAlways, PTL

\* EndedAnswersStarted, for any capacities: an Ended the bridge takes is of the
\* run whose Started it saw last, with no Ended since.
THEOREM EndedIsAnswered == Spec => EndedAnswersStarted
<1>1. ASSUME Typed, Chain
      PROVE  BridgeTakes /\ Head(forward).type = "Ended" => open = Head(forward).run
    <2> SUFFICES ASSUME BridgeTakes PROVE Legal(open, Head(forward))
        BY DEF Legal
    <2>1. forward \in Seq(Events) /\ forward # <<>> /\ run \in Nat
        BY <1>1 DEF Typed, DetectionTypeOK, BridgeTakes
    <2> QED
        BY <1>1, <2>1, FollowsTail DEF Chain
<1> QED
    BY <1>1, ChainAlways, PTL DEF EndedAnswersStarted
=============================================================================
