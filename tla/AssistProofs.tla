----------------------------- MODULE AssistProofs -----------------------------
(***************************************************************************)
(* Proofs about the assistant: AssistAudio, for any number of meetings,    *)
(* chunks and segments; AssistEngine, for any number of turns, questions   *)
(* and meetings; AssistShell, for any number of agents, installs and       *)
(* downloads; AgentSession, for any number of turns; and AssistPanel, for  *)
(* any number of entries and meetings.                                     *)
(***************************************************************************)
EXTENDS AssistAudio, AssistEngine, AssistShell, AgentSession, AssistPanel, QueueLemmas,
        FiniteSetTheorems

-----------------------------------------------------------------------------
(* From the live tap to the engine: the inductive invariant.               *)

\* f numbers the Armed events on the bus by their meetings, which are past the
\* conversation and in order.
Numbers(f) ==
    /\ \A i \in 1..Len(bus) : bus[i] = "armed" => conversation < f[i] /\ f[i] <= meetingNo
    /\ \A i, j \in 1..Len(bus) : i < j /\ bus[i] = "armed" /\ bus[j] = "armed" => f[i] < f[j]

NumberedBus ==
    /\ conversation <= meetingNo
    /\ recorded => meetingNo # 0
    /\ \E f \in [1..Len(bus) -> 0..MaxMeetings] : Numbers(f)

EpochFollows ==
    /\ epoch = IF boundaryTask = "engine_reset" THEN conversation - 1 ELSE conversation
    /\ resets <= epoch

\* What an audio task that has done its reset can still hear is of this epoch, or
\* it was in the tap at that reset.
Current == {m \in Meetings : m \in leftover \/ m >= epoch}

TaskIsClean == resets = epoch => openSegment \subseteq Current /\ ring \in Seq(Current)

\* A segment holds no speech from before its epoch, or is known to be late; its text
\* came out in its epoch.
Kept == {s \in Segments : s.late \/ \A m \in s.of : m >= s.tag}
Recognized == {s \in Kept : s.textIn = s.tag /\ s.tag <= epoch}

SegmentsSound ==
    /\ queue \in Seq(Kept) /\ inference \in Kept \cup {<<>>}
    /\ utterances \in Seq(Recognized)

AudioInv ==
    AudioTypeOK /\ NumberedBus /\ EpochFollows /\ TaskIsClean /\ SegmentsSound
        /\ OldSpeechOnlyThroughTheGap

\* The bounds, one by one.
LEMMA AudioBounds ==
    /\ MaxMeetings \in Nat /\ MaxMeetings # 0 /\ MaxChunks \in Nat /\ MaxChunks # 0
    /\ TapCapacity \in Nat /\ TapCapacity # 0 /\ MaxQueue \in Nat /\ MaxQueue # 0
BY AudioAssumption DEF AudioAssumption

\* The epochs, the conversation and the meetings, one by one.
LEMMA AudioEpochs ==
    ASSUME AudioInv
    PROVE  /\ resets \in 0..MaxMeetings /\ epoch \in 0..MaxMeetings
           /\ conversation \in 0..MaxMeetings /\ meetingNo \in 0..MaxMeetings
           /\ resets \in Nat /\ epoch \in Nat /\ conversation \in Nat /\ meetingNo \in Nat
           /\ resets <= epoch /\ epoch <= conversation /\ conversation <= meetingNo
           /\ recorded => meetingNo # 0
           /\ boundaryTask \in {"idle", "engine_reset", "worker_reset"}
           /\ epoch = IF boundaryTask = "engine_reset" THEN conversation - 1 ELSE conversation
<1>1. /\ resets \in 0..MaxMeetings /\ epoch \in 0..MaxMeetings
      /\ conversation \in 0..MaxMeetings /\ meetingNo \in 0..MaxMeetings
      /\ boundaryTask \in {"idle", "engine_reset", "worker_reset"}
    BY DEF AudioInv, AudioTypeOK
<1>2. /\ resets \in Nat /\ epoch \in Nat /\ conversation \in Nat /\ meetingNo \in Nat
    BY <1>1, AudioBounds
<1> QED
    BY <1>1, <1>2 DEF AudioInv, NumberedBus, EpochFollows

\* What each queue of the assistant is.
LEMMA AudioQueues ==
    ASSUME AudioInv
    PROVE  /\ bus \in Seq({"armed", "cancelled"}) /\ ring \in Seq(Meetings)
           /\ queue \in Seq(Kept) /\ utterances \in Seq(Recognized)
BY DEF AudioInv, AudioTypeOK, SegmentsSound

\* A segment cut from what the audio task can hear is sound, and so is the backlog.
LEMMA PushKept ==
    ASSUME AudioInv, NEW of \in SUBSET Meetings, Push(Segment(of)),
           resets = epoch => of \subseteq Current
    PROVE  queue' \in Seq(Kept)
<1> DEFINE s == Segment(of)
<1>1. s \in Segments
    <2>1. epoch \in 0..MaxMeetings
        BY DEF AudioInv, AudioTypeOK
    <2>2. (resets # epoch \/ of \cap leftover # {}) \in BOOLEAN /\ 0 \in 0..MaxMeetings
        BY AudioBounds
    <2> QED
        BY <2>1, <2>2 DEF Segment, Segments
<1>2. s.late \/ \A m \in s.of : m >= s.tag
    BY DEF Segment, Current
<1>3. s \in Kept
    BY <1>1, <1>2 DEF Kept
<1>4. queue \in Seq(Kept)
    BY AudioQueues
<1> HIDE DEF s
<1>5. Append(queue, s) \in Seq(Kept) /\ Tail(Append(queue, s)) \in Seq(Kept)
    BY <1>3, <1>4, QueueOps
<1> QED
    BY <1>5 DEF Push, s

\* The boundary's bus, the tap, the backlog and the utterances after a step.
LEMMA QueuesStep ==
    ASSUME AudioInv, AudioNext
    PROVE  /\ bus' \in Seq({"armed", "cancelled"})
           /\ ring' \in Seq(Meetings) /\ Len(ring') <= TapCapacity
           /\ SegmentsSound'
<1> USE DEF busVars, taskVars, workerVars
<1>1. /\ AudioTypeOK /\ SegmentsSound
      /\ bus \in Seq({"armed", "cancelled"}) /\ ring \in Seq(Meetings) /\ Len(ring) <= TapCapacity
      /\ queue \in Seq(Kept) /\ inference \in Kept \cup {<<>>} /\ utterances \in Seq(Recognized)
    BY DEF AudioInv, AudioTypeOK, SegmentsSound
<1>2. epoch \in Nat /\ epoch' \in Nat /\ epoch <= epoch'
    <2>1. epoch \in Nat
        BY AudioEpochs
    <2>2. epoch' = epoch \/ epoch' = epoch + 1
        BY DEF AudioNext, ArmMeeting, EndMeeting, TapChunk, ReceiveArmed, ResetWorker, SendReset,
               ReceiveCancelled, AudioReset, AudioFlush, HearChunk, StartInference, FinishInference,
               IdleUnload, PushTurn
    <2> QED
        BY <2>1, <2>2
<1>3. utterances \in Seq(Recognized')
    <2>1. ASSUME NEW s \in Recognized PROVE s \in Recognized'
        <3>1. s.tag \in Nat
            BY DEF Recognized, Kept, Segments
        <3> QED
            BY <1>2, <3>1 DEF Recognized
    <2> QED
        BY <1>1, <2>1, SeqMonotonic
<1>4. bus' \in Seq({"armed", "cancelled"})
    <2>1. Append(bus, "armed") \in Seq({"armed", "cancelled"})
          /\ Append(bus, "cancelled") \in Seq({"armed", "cancelled"})
        BY <1>1, QueueOps
    <2>2. bus # <<>> => Tail(bus) \in Seq({"armed", "cancelled"})
        BY <1>1, QueueOps
    <2> QED
        BY <1>1, <2>1, <2>2
        DEF AudioNext, ArmMeeting, EndMeeting, TapChunk, ReceiveArmed, ResetWorker, SendReset,
            ReceiveCancelled, AudioReset, AudioFlush, HearChunk, StartInference, FinishInference,
            IdleUnload, PushTurn
<1>5. ring' \in Seq(Meetings) /\ Len(ring') <= TapCapacity
    <2>1. CASE TapChunk
        <3>1. meetingNo \in Meetings
            BY <2>1, AudioBounds, AudioEpochs DEF TapChunk, Meetings
        <3>2. CASE Len(ring) = TapCapacity
            <4>1. Tail(ring) \in Seq(Meetings) /\ Len(Tail(ring)) = TapCapacity - 1
                <5>1. ring # <<>>
                    BY <1>1, <3>2, EmptySeq, AudioBounds
                <5> QED
                    BY <1>1, <3>2, <5>1, QueueOps
            <4>2. ring' = Append(Tail(ring), meetingNo)
                BY <2>1, <3>2 DEF TapChunk
            <4> QED
                BY <3>1, <4>1, <4>2, QueueOps, AudioBounds
        <3>3. CASE Len(ring) # TapCapacity
            <4>1. ring' = Append(ring, meetingNo)
                BY <2>1, <3>3 DEF TapChunk
            <4>2. Len(ring) \in Nat
                BY <1>1, QueueOps
            <4> QED
                BY <1>1, <3>1, <3>3, <4>1, <4>2, QueueOps, AudioBounds
        <3> QED
            BY <3>2, <3>3
    <2>2. CASE HearChunk
        <3>1. ring # <<>> /\ ring' = Tail(ring)
            BY <2>2 DEF HearChunk
        <3>2. Len(ring) \in Nat /\ Len(ring') = Len(ring) - 1 /\ ring' \in Seq(Meetings)
            BY <1>1, <3>1, QueueOps
        <3> QED
            BY <1>1, <3>2, AudioBounds
    <2>3. CASE ring' = ring
        BY <1>1, <2>3
    <2> QED
        BY <2>1, <2>2, <2>3
        DEF AudioNext, ArmMeeting, EndMeeting, ReceiveArmed, ResetWorker, SendReset,
            ReceiveCancelled, AudioReset, AudioFlush, StartInference, FinishInference,
            IdleUnload, PushTurn
<1>6. queue' \in Seq(Kept)
    <2>1. CASE AudioFlush
        <3>1. CASE openSegment = {}
            BY <1>1, <2>1, <3>1 DEF AudioFlush
        <3>2. CASE openSegment # {}
            <4>1. /\ openSegment \in SUBSET Meetings
                  /\ resets = epoch => openSegment \subseteq Current
                BY <1>1 DEF AudioInv, AudioTypeOK, TaskIsClean
            <4> QED
                BY <2>1, <3>2, <4>1, PushKept DEF AudioFlush
        <3> QED
            BY <3>1, <3>2
    <2>2. CASE HearChunk
        <3> DEFINE of == openSegment \cup {Head(ring)}
        <3>1. of \in SUBSET Meetings /\ (resets = epoch => of \subseteq Current)
            <4>1. /\ openSegment \in SUBSET Meetings
                  /\ resets = epoch => openSegment \subseteq Current /\ ring \in Seq(Current)
                BY <1>1 DEF AudioInv, AudioTypeOK, TaskIsClean
            <4>2. ring # <<>>
                BY <2>2 DEF HearChunk
            <4>3. Head(ring) \in Meetings /\ (resets = epoch => Head(ring) \in Current)
                BY <1>1, <4>1, <4>2, QueueOps
            <4> QED
                BY <4>1, <4>3
        <3>2. UNCHANGED queue \/ Push(Segment(of))
            BY <2>2 DEF HearChunk
        <3> HIDE DEF of
        <3>3. CASE Push(Segment(of))
            BY <3>1, <3>3, PushKept
        <3> QED
            BY <1>1, <3>2, <3>3
    <2>3. CASE StartInference
        BY <1>1, <2>3, QueueOps DEF StartInference
    <2>4. CASE queue' = queue
        BY <1>1, <2>4
    <2> QED
        BY <2>1, <2>2, <2>3, <2>4
        DEF AudioNext, ArmMeeting, EndMeeting, TapChunk, ReceiveArmed, ResetWorker, SendReset,
            ReceiveCancelled, AudioReset, FinishInference, IdleUnload, PushTurn
<1>7. inference' \in Kept \cup {<<>>}
    <2>1. CASE StartInference
        BY <1>1, <2>1, QueueOps DEF StartInference
    <2> QED
        BY <1>1, <2>1
        DEF AudioNext, ArmMeeting, EndMeeting, TapChunk, ReceiveArmed, ResetWorker, SendReset,
            ReceiveCancelled, AudioReset, AudioFlush, HearChunk, FinishInference, IdleUnload, PushTurn
<1>8. utterances' \in Seq(Recognized')
    <2>1. CASE FinishInference
        <3>1. CASE utterances' = Append(utterances, [inference EXCEPT !.textIn = epoch])
                   /\ inference.tag = epoch
            <4> DEFINE u == [inference EXCEPT !.textIn = epoch]
            <4>1. inference \in Kept /\ epoch \in 0..MaxMeetings /\ epoch' = epoch
                BY <1>1, <2>1 DEF FinishInference, AudioTypeOK
            <4>2. u \in Recognized'
                BY <1>2, <3>1, <4>1 DEF Recognized, Kept, Segments
            <4> HIDE DEF u
            <4>3. utterances' = Append(utterances, u)
                BY <3>1 DEF u
            <4> QED
                BY <1>3, <4>2, <4>3, QueueOps
        <3> QED
            BY <1>3, <2>1, <3>1 DEF FinishInference
    <2>2. CASE PushTurn
        BY <1>3, <2>2, QueueOps DEF PushTurn
    <2>3. CASE utterances' = utterances
        BY <1>3, <2>3
    <2> QED
        BY <2>1, <2>2, <2>3
        DEF AudioNext, ArmMeeting, EndMeeting, TapChunk, ReceiveArmed, ResetWorker, SendReset,
            ReceiveCancelled, AudioReset, AudioFlush, HearChunk, StartInference, IdleUnload
<1> QED
    BY <1>4, <1>5, <1>6, <1>7, <1>8 DEF SegmentsSound, Kept

\* The Armed events on the bus are of meetings past the conversation.
LEMMA NumberedStep ==
    ASSUME AudioInv, AudioNext
    PROVE  NumberedBus'
<1> USE AudioBounds DEF busVars
<1>1. /\ bus \in Seq({"armed", "cancelled"}) /\ meetingNo \in 0..MaxMeetings
      /\ conversation \in 0..MaxMeetings /\ conversation <= meetingNo
      /\ recorded => meetingNo # 0
    BY AudioEpochs DEF AudioInv, AudioTypeOK
<1>2. PICK f \in [1..Len(bus) -> 0..MaxMeetings] : Numbers(f)
    BY DEF AudioInv, NumberedBus
<1>3. Len(bus) \in Nat
    BY <1>1, QueueOps
<1>4. CASE ArmMeeting
    <2> DEFINE g == [i \in 1..(Len(bus) + 1) |-> IF i = Len(bus) + 1 THEN meetingNo + 1 ELSE f[i]]
    <2>1. /\ bus' = Append(bus, "armed") /\ meetingNo' = meetingNo + 1 /\ meetingNo < MaxMeetings
          /\ conversation' = conversation /\ recorded'
        BY <1>4 DEF ArmMeeting
    <2>2. /\ Len(bus') = Len(bus) + 1
          /\ \A i \in 1..Len(bus) : bus'[i] = bus[i]
        BY <1>1, <2>1, QueueOps
    <2>3. g \in [1..Len(bus') -> 0..MaxMeetings]
        BY <1>1, <1>2, <1>3, <2>1, <2>2
    <2>4. \A i \in 1..Len(bus') : bus'[i] = "armed" => conversation' < g[i] /\ g[i] <= meetingNo'
        BY <1>1, <1>2, <1>3, <2>1, <2>2 DEF Numbers
    <2>5. \A i, j \in 1..Len(bus') : i < j /\ bus'[i] = "armed" /\ bus'[j] = "armed" => g[i] < g[j]
        BY <1>1, <1>2, <1>3, <2>1, <2>2 DEF Numbers
    <2> HIDE DEF g
    <2>6. conversation' <= meetingNo' /\ (recorded' => meetingNo' # 0)
        BY <1>1, <2>1
    <2> QED
        BY <2>3, <2>4, <2>5, <2>6 DEF NumberedBus, Numbers
<1>5. CASE bus' = Append(bus, "cancelled") /\ UNCHANGED <<meetingNo, conversation>>
           /\ (recorded' => recorded)
    <2> DEFINE g == [i \in 1..(Len(bus) + 1) |-> IF i = Len(bus) + 1 THEN 0 ELSE f[i]]
    <2>1. /\ Len(bus') = Len(bus) + 1 /\ bus'[Len(bus) + 1] = "cancelled"
          /\ \A i \in 1..Len(bus) : bus'[i] = bus[i]
        BY <1>1, <1>5, QueueOps
    <2>2. g \in [1..Len(bus') -> 0..MaxMeetings]
        BY <1>2, <1>3, <2>1
    <2>3. \A i \in 1..Len(bus') : bus'[i] = "armed" => conversation < g[i] /\ g[i] <= meetingNo'
        BY <1>1, <1>2, <1>3, <1>5, <2>1 DEF Numbers
    <2>4. \A i, j \in 1..Len(bus') : i < j /\ bus'[i] = "armed" /\ bus'[j] = "armed" => g[i] < g[j]
        BY <1>1, <1>2, <1>3, <2>1 DEF Numbers
    <2> HIDE DEF g
    <2> QED
        BY <1>1, <1>5, <2>2, <2>3, <2>4 DEF NumberedBus, Numbers
<1>6. CASE /\ bus # <<>> /\ bus' = Tail(bus) /\ UNCHANGED <<meetingNo, recorded>>
           /\ \/ conversation' = conversation
              \/ Head(bus) = "armed" /\ conversation' = conversation + 1
    <2> DEFINE g == [i \in 1..(Len(bus) - 1) |-> f[i + 1]]
    <2>1. /\ Len(bus) >= 1 /\ Head(bus) = bus[1] /\ Len(bus') = Len(bus) - 1
          /\ \A i \in 1..Len(bus') : bus'[i] = bus[i + 1]
        BY <1>1, <1>6, QueueOps
    <2>2. g \in [1..Len(bus') -> 0..MaxMeetings]
        BY <1>2, <1>3, <2>1
    <2>3. \A i \in 1..Len(bus') : bus'[i] = "armed" => conversation' < g[i] /\ g[i] <= meetingNo'
        <3> SUFFICES ASSUME NEW i \in 1..Len(bus'), bus'[i] = "armed"
                     PROVE  conversation' < g[i] /\ g[i] <= meetingNo'
            OBVIOUS
        <3>1. /\ i + 1 \in 1..Len(bus) /\ bus[i + 1] = "armed" /\ g[i] = f[i + 1]
              /\ 1 \in 1..Len(bus) /\ 1 < i + 1
            BY <1>3, <2>1
        <3>2. conversation < f[i + 1] /\ f[i + 1] <= meetingNo
            BY <1>2, <3>1 DEF Numbers
        <3>4. f[i + 1] \in 0..MaxMeetings /\ f[1] \in 0..MaxMeetings
            BY <1>2, <3>1
        <3>3. bus[1] = "armed" => conversation < f[1] /\ f[1] < f[i + 1]
            BY <1>2, <3>1 DEF Numbers
        <3> QED
            BY <1>1, <1>6, <2>1, <3>1, <3>2, <3>3, <3>4
    <2>4. \A i, j \in 1..Len(bus') : i < j /\ bus'[i] = "armed" /\ bus'[j] = "armed" => g[i] < g[j]
        <3> SUFFICES ASSUME NEW i \in 1..Len(bus'), NEW j \in 1..Len(bus'),
                            i < j, bus'[i] = "armed", bus'[j] = "armed"
                     PROVE  g[i] < g[j]
            OBVIOUS
        <3>1. /\ i + 1 \in 1..Len(bus) /\ j + 1 \in 1..Len(bus) /\ i + 1 < j + 1
              /\ bus[i + 1] = "armed" /\ bus[j + 1] = "armed" /\ g[i] = f[i + 1] /\ g[j] = f[j + 1]
            BY <1>3, <2>1
        <3> QED
            BY <1>2, <3>1 DEF Numbers
    <2>5. conversation' <= meetingNo'
        <3>1. 1 \in 1..Len(bus)
            BY <1>3, <2>1
        <3>2. bus[1] = "armed" => conversation < f[1] /\ f[1] <= meetingNo
            BY <1>2, <3>1 DEF Numbers
        <3> QED
            BY <1>1, <1>2, <1>6, <2>1, <3>1, <3>2
    <2> HIDE DEF g
    <2> QED
        BY <1>1, <1>6, <2>2, <2>3, <2>4, <2>5 DEF NumberedBus, Numbers
<1>7. CASE UNCHANGED <<bus, meetingNo, conversation>> /\ (recorded' => recorded)
    BY <1>1, <1>2, <1>7 DEF NumberedBus, Numbers
<1> QED
    BY <1>4, <1>5, <1>6, <1>7
    DEF AudioNext, EndMeeting, TapChunk, ReceiveArmed, ResetWorker, SendReset,
        ReceiveCancelled, AudioReset, AudioFlush, HearChunk, StartInference, FinishInference,
        IdleUnload, PushTurn

\* The worker's epoch follows the conversation, one step behind it while a boundary is
\* handled.
LEMMA EpochStep ==
    ASSUME AudioInv, AudioNext
    PROVE  EpochFollows'
BY AudioEpochs
    DEF EpochFollows, busVars, taskVars, workerVars, AudioNext, ArmMeeting, EndMeeting, TapChunk,
        ReceiveArmed, ResetWorker, SendReset, ReceiveCancelled, AudioReset, AudioFlush, HearChunk,
        StartInference, FinishInference, IdleUnload, PushTurn

\* After its reset the audio task holds nothing old that it has not counted as such.
LEMMA CleanStep ==
    ASSUME AudioInv, AudioNext
    PROVE  TaskIsClean'
<1> USE AudioBounds DEF busVars, workerVars
<1>1. openSegment \subseteq Meetings /\ ring \in Seq(Meetings)
    BY DEF AudioInv, AudioTypeOK
<1>2. CASE ResetWorker
    BY <1>2, AudioEpochs DEF ResetWorker, taskVars, TaskIsClean
<1>3. CASE AudioReset
    <2>1. /\ openSegment' = {} /\ leftover' = {ring[i] : i \in DOMAIN ring} /\ ring' = ring
          /\ epoch' = epoch
        BY <1>3 DEF AudioReset
    <2>2. \A i \in 1..Len(ring) : ring[i] \in Current'
        BY <1>1, <2>1, QueueOps DEF Current
    <2>3. ring' \in Seq(Current')
        BY <1>1, <2>1, <2>2, QueueOf
    <2> QED
        BY <2>1, <2>3 DEF TaskIsClean
<1>4. CASE UNCHANGED <<resets, epoch, leftover>> /\ ~AudioReset
    <2> SUFFICES ASSUME resets = epoch
                 PROVE  openSegment' \subseteq Current /\ ring' \in Seq(Current)
        BY <1>4 DEF TaskIsClean, Current
    <2>1. openSegment \subseteq Current /\ ring \in Seq(Current)
        BY DEF AudioInv, TaskIsClean
    <2>2. CASE TapChunk
        <3>1. meetingNo \in Current
            BY <2>2, AudioEpochs DEF TapChunk, Current, Meetings
        <3>2. Append(ring, meetingNo) \in Seq(Current)
            BY <2>1, <3>1, QueueOps
        <3>3. Len(ring) = TapCapacity => ring # <<>>
            BY <1>1, EmptySeq
        <3>4. ring # <<>> => Append(Tail(ring), meetingNo) \in Seq(Current)
            BY <2>1, <3>1, QueueOps
        <3> QED
            BY <2>1, <2>2, <3>2, <3>3, <3>4 DEF TapChunk
    <2>3. CASE HearChunk
        <3>1. ring # <<>> /\ ring' = Tail(ring)
              /\ openSegment' \subseteq openSegment \cup {Head(ring)}
            BY <2>3 DEF HearChunk
        <3> QED
            BY <2>1, <3>1, QueueOps
    <2>4. CASE UNCHANGED ring /\ openSegment' \subseteq openSegment
        BY <2>1, <2>4
    <2> QED
        BY <1>4, <2>2, <2>3, <2>4
        DEF taskVars, AudioNext, ArmMeeting, EndMeeting, ReceiveArmed, ResetWorker, SendReset,
            ReceiveCancelled, AudioFlush, StartInference, FinishInference, IdleUnload, PushTurn
<1> QED
    BY <1>2, <1>3, <1>4
    DEF taskVars, AudioNext, ArmMeeting, EndMeeting, TapChunk, ReceiveArmed, SendReset,
        ReceiveCancelled, AudioReset, AudioFlush, HearChunk, StartInference, FinishInference,
        IdleUnload, PushTurn

\* The types: the queues are those of QueuesStep, the conversation ends at the last
\* meeting, and so does the epoch.
LEMMA AudioTypeStep ==
    ASSUME AudioInv, AudioNext
    PROVE  AudioTypeOK'
<1> USE AudioBounds DEF busVars, taskVars, workerVars, Meetings
<1>1. /\ bus' \in Seq({"armed", "cancelled"}) /\ ring' \in Seq(Meetings) /\ Len(ring') <= TapCapacity
      /\ SegmentsSound'
    BY QueuesStep
<1>2. queue' \in Seq(Segments) /\ utterances' \in Seq(Segments) /\ inference' \in Segments \cup {<<>>}
    <2>1. Kept \subseteq Segments /\ Recognized' \subseteq Segments
        BY DEF Kept, Recognized
    <2> QED
        BY <1>1, <2>1, SeqMonotonic DEF SegmentsSound
<1>3. conversation' \in 0..MaxMeetings /\ epoch' \in 0..MaxMeetings
    <2>1. conversation' \in Nat /\ epoch' \in Nat
        BY AudioEpochs
        DEF AudioNext, ArmMeeting, EndMeeting, TapChunk, ReceiveArmed, ResetWorker, SendReset,
            ReceiveCancelled, AudioReset, AudioFlush, HearChunk, StartInference, FinishInference,
            IdleUnload, PushTurn
    <2>2. meetingNo' \in 0..MaxMeetings
        BY AudioEpochs
        DEF AudioNext, ArmMeeting, EndMeeting, TapChunk, ReceiveArmed, ResetWorker, SendReset,
            ReceiveCancelled, AudioReset, AudioFlush, HearChunk, StartInference, FinishInference,
            IdleUnload, PushTurn
    <2>3. conversation' <= meetingNo'
        BY NumberedStep DEF NumberedBus
    <2>4. epoch' <= conversation'
        <3>1. epoch' = conversation' - 1 \/ epoch' = conversation'
            BY EpochStep DEF EpochFollows
        <3>2. \A e, c \in Nat : e = c - 1 \/ e = c => e <= c
            OBVIOUS
        <3> QED
            BY <2>1, <3>1, <3>2
    <2> QED
        BY <2>1, <2>2, <2>3, <2>4
<1>4. leftover' \subseteq Meetings /\ openSegment' \subseteq Meetings
    <2>1. /\ ring \in Seq(Meetings) /\ leftover \subseteq Meetings /\ openSegment \subseteq Meetings
        BY DEF AudioInv, AudioTypeOK
    <2>2. {ring[i] : i \in DOMAIN ring} \subseteq Meetings /\ (ring # <<>> => Head(ring) \in Meetings)
        BY <2>1, QueueOps
    <2> HIDE DEF Meetings
    <2> QED
        BY <2>1, <2>2
        DEF AudioNext, ArmMeeting, EndMeeting, TapChunk, ReceiveArmed, ResetWorker, SendReset,
            ReceiveCancelled, AudioReset, AudioFlush, HearChunk, StartInference, FinishInference,
            IdleUnload, PushTurn
<1>5. turn' \in [of : SUBSET Meetings, joined : 0..MaxMeetings, late : BOOLEAN, textIn : 0..MaxMeetings]
                \cup {<<>>}
    <2>1. CASE PushTurn
        <3>1. Head(utterances) \in Recognized
            BY <2>1, AudioQueues, QueueOps DEF PushTurn
        <3>2. Head(utterances) \in Segments
            BY <3>1 DEF Recognized, Kept
        <3> QED
            BY <2>1, <3>2, AudioEpochs DEF PushTurn, Segments
    <2>2. CASE turn' = turn
        BY <2>2 DEF AudioInv, AudioTypeOK
    <2> QED
        BY <2>1, <2>2
        DEF AudioNext, ArmMeeting, EndMeeting, TapChunk, ReceiveArmed, ResetWorker, SendReset,
            ReceiveCancelled, AudioReset, AudioFlush, HearChunk, StartInference, FinishInference,
            IdleUnload
<1>6. /\ meetingNo' \in 0..MaxMeetings /\ recorded' \in BOOLEAN /\ chunks' \in 0..MaxChunks
      /\ boundaryTask' \in {"idle", "engine_reset", "worker_reset"}
      /\ boundary' \in {"none", "reset", "flush"}
      /\ resets' \in 0..MaxMeetings /\ keepModel' \in BOOLEAN /\ modelIn' \in BOOLEAN
    <2>1. /\ recorded \in BOOLEAN /\ chunks \in 0..MaxChunks /\ boundary \in {"none", "reset", "flush"}
          /\ keepModel \in BOOLEAN /\ modelIn \in BOOLEAN
        BY DEF AudioInv, AudioTypeOK
    <2>2. /\ meetingNo' \in 0..MaxMeetings /\ chunks' \in 0..MaxChunks
          /\ boundaryTask' \in {"idle", "engine_reset", "worker_reset"}
          /\ boundary' \in {"none", "reset", "flush"} /\ resets' \in 0..MaxMeetings
        BY <2>1, AudioEpochs
        DEF TrySend, AudioNext, ArmMeeting, EndMeeting, TapChunk, ReceiveArmed, ResetWorker, SendReset,
            ReceiveCancelled, AudioReset, AudioFlush, HearChunk, StartInference, FinishInference,
            IdleUnload, PushTurn
    <2>3. recorded' \in BOOLEAN /\ keepModel' \in BOOLEAN /\ modelIn' \in BOOLEAN
        BY <2>1
        DEF AudioNext, ArmMeeting, EndMeeting, TapChunk, ReceiveArmed, ResetWorker, SendReset,
            ReceiveCancelled, AudioReset, AudioFlush, HearChunk, StartInference, FinishInference,
            IdleUnload, PushTurn
    <2> QED
        BY <2>2, <2>3
<1> QED
    BY <1>1, <1>2, <1>3, <1>4, <1>5, <1>6 DEF AudioTypeOK

\* A turn that joins a conversation has text of the conversation's epoch only if its
\* segment has the epoch's tag.
LEMMA GapStep ==
    ASSUME AudioInv, AudioNext
    PROVE  OldSpeechOnlyThroughTheGap'
<1>1. CASE PushTurn
    <2> DEFINE u == Head(utterances)
    <2>1. u \in Recognized
        BY <1>1, AudioQueues, QueueOps DEF PushTurn
    <2>2. /\ turn' = [of |-> u.of, joined |-> conversation, late |-> u.late, textIn |-> u.textIn]
          /\ u.of \subseteq Nat /\ u.tag \in Nat /\ u.textIn = u.tag /\ u.tag <= epoch
          /\ u.late \/ \A m \in u.of : m >= u.tag
        <3>1. u \in Segments /\ u.textIn = u.tag /\ u.tag <= epoch
              /\ (u.late \/ \A m \in u.of : m >= u.tag)
            BY <2>1 DEF Recognized, Kept
        <3>2. u.of \subseteq Nat /\ u.tag \in Nat
            BY <3>1, AudioBounds DEF Segments, Meetings
        <3> QED
            BY <1>1, <3>1, <3>2 DEF PushTurn
    <2> HIDE DEF u
    <2> QED
        BY <2>2, AudioEpochs DEF OldSpeechOnlyThroughTheGap
<1>2. CASE turn' = turn
    BY <1>2 DEF AudioInv, OldSpeechOnlyThroughTheGap
<1> QED
    BY <1>1, <1>2
    DEF busVars, taskVars, workerVars, AudioNext, ArmMeeting, EndMeeting, TapChunk, ReceiveArmed,
        ResetWorker, SendReset, ReceiveCancelled, AudioReset, AudioFlush, HearChunk, StartInference,
        FinishInference, IdleUnload

\* An assist that has just been wired has heard nothing yet.
LEMMA AudioStart == AudioInit => AudioInv
<1> SUFFICES ASSUME AudioInit PROVE AudioInv
    OBVIOUS
<1> USE AudioBounds DEF AudioInit
<1>1. <<>> \in Seq(Kept) /\ <<>> \in Seq(Recognized) /\ <<>> \in Seq(Segments) /\ <<>> \in Seq(Meetings)
      /\ <<>> \in Seq({"armed", "cancelled"}) /\ <<>> \in Seq(Current) /\ Len(<<>>) = 0
    BY EmptySeq
<1>2. AudioTypeOK
    <2>1. /\ meetingNo \in 0..MaxMeetings /\ chunks \in 0..MaxChunks /\ Len(ring) <= TapCapacity
          /\ resets \in 0..MaxMeetings /\ epoch \in 0..MaxMeetings /\ conversation \in 0..MaxMeetings
        BY <1>1
    <2>2. keepModel \in BOOLEAN /\ modelIn \in BOOLEAN /\ recorded \in BOOLEAN
        OBVIOUS
    <2> QED
        BY <1>1, <2>1, <2>2 DEF AudioTypeOK
<1>3. NumberedBus
    <2>1. [i \in 1..0 |-> 0] \in [1..Len(bus) -> 0..MaxMeetings] /\ Len(bus) = 0
        BY <1>1
    <2>2. Numbers([i \in 1..0 |-> 0])
        BY <2>1 DEF Numbers
    <2>3. \E f \in [1..Len(bus) -> 0..MaxMeetings] : Numbers(f)
        <3> DEFINE f == [i \in 1..0 |-> 0]
        <3>1. f \in [1..Len(bus) -> 0..MaxMeetings] /\ Numbers(f)
            BY <2>1, <2>2
        <3> HIDE DEF f
        <3> QED
            BY <3>1
    <2>4. conversation <= meetingNo /\ ~recorded
        OBVIOUS
    <2> HIDE DEF AudioInit
    <2> QED
        BY <2>3, <2>4 DEF NumberedBus
<1>4. EpochFollows /\ TaskIsClean /\ SegmentsSound /\ OldSpeechOnlyThroughTheGap
    BY <1>1 DEF EpochFollows, TaskIsClean, SegmentsSound, OldSpeechOnlyThroughTheGap
<1> QED
    BY <1>2, <1>3, <1>4 DEF AudioInv

\* Every step of the tap, the speech worker and the boundary task keeps the invariant.
LEMMA AudioStep == AudioInv /\ [AudioNext]_assistAudioVars => AudioInv'
<1> SUFFICES ASSUME AudioInv, [AudioNext]_assistAudioVars PROVE AudioInv'
    OBVIOUS
<1>1. CASE AudioNext
    BY <1>1, AudioTypeStep, NumberedStep, EpochStep, CleanStep, QueuesStep, GapStep DEF AudioInv
<1>2. CASE UNCHANGED assistAudioVars
    BY <1>2
    DEF assistAudioVars, busVars, taskVars, workerVars, AudioInv, AudioTypeOK, NumberedBus, Numbers,
        EpochFollows, TaskIsClean, Current, SegmentsSound, Recognized, OldSpeechOnlyThroughTheGap
<1> QED
    BY <1>1, <1>2

\* Speech of an old meeting joins the conversation of a new one only through the two
\* windows the code leaves: no backlog and no inference survives the worker's reset.
THEOREM OldSpeech == AudioSpec => []OldSpeechOnlyThroughTheGap
<1>1. AudioInv => OldSpeechOnlyThroughTheGap
    BY DEF AudioInv
<1> QED
    BY <1>1, AudioStart, AudioStep, PTL DEF AudioSpec

-----------------------------------------------------------------------------
(* The engine: the inductive invariant.                                    *)

Turns == 1..MaxTurns
Commands == [kind : {"turn", "ask", "reset", "shutdown"}, turn : 0..MaxTurns]

\* The turns in the command queue were numbered when they were pushed, and come after
\* all that were received.
TurnsAhead ==
    /\ cmds \in Seq(Commands)
    /\ \A t \in received : t <= sent.turns
    /\ \A i \in 1..Len(cmds) : cmds[i].kind = "turn" =>
          /\ cmds[i].turn \in 1..sent.turns
          /\ \A t \in received : t < cmds[i].turn
    /\ \A i, j \in 1..Len(cmds) :
          i < j /\ cmds[i].kind = "turn" /\ cmds[j].kind = "turn" => cmds[i].turn < cmds[j].turn

\* What was told comes before what is buffered, both in order and with nothing between
\* them but what overflowed.
ToldAndBuffered ==
    /\ said \in Seq(Turns) /\ pending \in Seq(Turns) /\ Len(pending) <= MaxPending
    /\ received \subseteq Turns /\ overflowed \subseteq received
    /\ Up(said) /\ Up(pending) /\ Before(ToSet(said), ToSet(pending))
    /\ ToSet(said) \cup ToSet(pending) = received \ overflowed

Counters ==
    /\ sent \in [turns : 0..MaxTurns, questions : 0..MaxQuestions, resets : 0..MaxResets]
    /\ engineAt \in {"top", "receiving", "maybe_analyze", "analyzing", "asking", "stopped"}
    /\ armed \in BOOLEAN /\ opened \in BOOLEAN /\ cooling \in BOOLEAN /\ lastError \in BOOLEAN
    /\ backoff \in 0..MaxBackoff
    /\ panel \in {"nothing", "update", "error"}

\* A question starts without the memory of an earlier failure.
AskStartsClean == engineAt = "asking" => ~lastError

AssistInv == TurnsAhead /\ ToldAndBuffered /\ Counters /\ AskStartsClean

\* The bounds of the engine are numbers, and its buffer holds at least one turn.
LEMMA EngineBounds ==
    /\ MaxPending \in Nat /\ MaxPending # 0 /\ MaxBackoff \in Nat /\ MaxTurns \in Nat
    /\ MaxQuestions \in Nat /\ MaxResets \in Nat
BY EngineAssumption DEF EngineAssumption

\* A command sent goes to the end of the queue: a turn has the next number.
LEMMA SendAhead ==
    ASSUME AssistInv, NEW kind \in {"turn", "ask", "reset", "shutdown"}, NEW n \in 0..MaxTurns,
           Send(kind, n), sent'.turns \in 0..MaxTurns, sent'.turns >= sent.turns,
           kind = "turn" => n = sent.turns + 1 /\ sent'.turns = n
    PROVE  TurnsAhead'
<1> DEFINE c == [kind |-> kind, turn |-> n]
<1>1. c \in Commands /\ c.kind = kind /\ c.turn = n
    BY DEF Commands
<1>2. /\ cmds \in Seq(Commands) /\ sent.turns \in 0..MaxTurns /\ received \subseteq Turns
      /\ \A i \in 1..Len(cmds) : cmds[i].kind = "turn" =>
            cmds[i].turn \in 1..sent.turns /\ (\A t \in received : t < cmds[i].turn)
      /\ \A i, j \in 1..Len(cmds) :
            i < j /\ cmds[i].kind = "turn" /\ cmds[j].kind = "turn" => cmds[i].turn < cmds[j].turn
    BY DEF AssistInv, TurnsAhead, ToldAndBuffered, Counters
<1>3. cmds' = Append(cmds, c) /\ received' = received
    BY DEF Send
<1> HIDE DEF c
<1>4. /\ cmds' \in Seq(Commands) /\ Len(cmds) \in Nat /\ Len(cmds') = Len(cmds) + 1
      /\ cmds'[Len(cmds) + 1] = c
      /\ \A i \in 1..Len(cmds) : cmds'[i] = cmds[i]
    BY <1>1, <1>2, <1>3, QueueOps
<1>5. \A t \in received : t \in Nat /\ t <= sent.turns
    BY <1>2, EngineBounds DEF AssistInv, TurnsAhead, Turns
<1>6. sent.turns \in Nat /\ sent'.turns \in Nat
    BY <1>2, EngineBounds
<1>7. ASSUME NEW i \in 1..Len(cmds'), cmds'[i].kind = "turn"
      PROVE  cmds'[i].turn \in 1..sent'.turns /\ (\A t \in received : t < cmds'[i].turn)
    <2>1. CASE i = Len(cmds) + 1
        BY <1>1, <1>4, <1>5, <1>6, <1>7, <2>1
    <2>2. CASE i # Len(cmds) + 1
        <3>1. i \in 1..Len(cmds)
            BY <1>4, <2>2
        <3>2. cmds[i].turn \in 1..sent.turns /\ (\A t \in received : t < cmds[i].turn)
            BY <1>2, <1>4, <1>7, <3>1
        <3> QED
            BY <1>4, <1>6, <3>1, <3>2
    <2> QED
        BY <2>1, <2>2
<1>8. ASSUME NEW i \in 1..Len(cmds'), NEW j \in 1..Len(cmds'), i < j,
             cmds'[i].kind = "turn", cmds'[j].kind = "turn"
      PROVE  cmds'[i].turn < cmds'[j].turn
    <2>1. i \in 1..Len(cmds)
        BY <1>4, <1>8
    <2>2. cmds[i].turn \in 1..sent.turns
        BY <1>2, <1>4, <1>8, <2>1
    <2>3. CASE j = Len(cmds) + 1
        BY <1>1, <1>4, <1>6, <1>8, <2>1, <2>2, <2>3
    <2>4. CASE j # Len(cmds) + 1
        <3>1. j \in 1..Len(cmds)
            BY <1>4, <2>4
        <3> QED
            BY <1>2, <1>4, <1>8, <2>1, <3>1
    <2> QED
        BY <2>3, <2>4
<1>9. \A t \in received' : t <= sent'.turns
    BY <1>3, <1>5, <1>6
<1> QED
    BY <1>3, <1>4, <1>7, <1>8, <1>9 DEF TurnsAhead

\* A command received leaves the queue; a turn is then past all that were received
\* and before all that are queued.
LEMMA TakeAhead ==
    ASSUME AssistInv, NEW kind \in {"turn", "ask", "reset", "shutdown"}, Receive(kind)
    PROVE  /\ Head(cmds) \in Commands
           /\ kind = "turn" => /\ Head(cmds).turn \in Turns
                               /\ Before(received, {Head(cmds).turn})
           /\ received' \subseteq received \/ (kind = "turn" /\ received' = received \cup {Head(cmds).turn})
                 => TurnsAhead'
<1>1. /\ cmds \in Seq(Commands) /\ sent.turns \in 0..MaxTurns /\ received \subseteq Turns
      /\ \A t \in received : t <= sent.turns
      /\ \A i \in 1..Len(cmds) : cmds[i].kind = "turn" =>
            cmds[i].turn \in 1..sent.turns /\ (\A t \in received : t < cmds[i].turn)
      /\ \A i, j \in 1..Len(cmds) :
            i < j /\ cmds[i].kind = "turn" /\ cmds[j].kind = "turn" => cmds[i].turn < cmds[j].turn
    BY DEF AssistInv, TurnsAhead, ToldAndBuffered, Counters
<1>2. cmds # <<>> /\ Head(cmds).kind = kind /\ cmds' = Tail(cmds) /\ sent' = sent
    BY DEF Receive
<1>3. /\ Head(cmds) \in Commands /\ Head(cmds) = cmds[1] /\ 1 \in 1..Len(cmds) /\ Len(cmds) \in Nat
      /\ cmds' \in Seq(Commands) /\ Len(cmds') = Len(cmds) - 1
      /\ \A i \in 1..Len(cmds') : cmds'[i] = cmds[i + 1]
    BY <1>1, <1>2, QueueOps
<1>4. ASSUME kind = "turn"
      PROVE  /\ Head(cmds).turn \in Turns /\ Head(cmds).turn \in 1..sent.turns
             /\ Before(received, {Head(cmds).turn})
    BY <1>1, <1>2, <1>3, <1>4, EngineBounds DEF Turns, Before
<1>5. ASSUME received' \subseteq received \/ (kind = "turn" /\ received' = received \cup {Head(cmds).turn})
      PROVE  TurnsAhead'
    <2>1. \A i \in 1..Len(cmds') : i + 1 \in 1..Len(cmds) /\ 1 < i + 1
        BY <1>3
    <2>2. ASSUME NEW i \in 1..Len(cmds'), cmds'[i].kind = "turn"
          PROVE  cmds'[i].turn \in 1..sent'.turns /\ (\A t \in received' : t < cmds'[i].turn)
        <3>1. i + 1 \in 1..Len(cmds) /\ 1 < i + 1 /\ cmds'[i] = cmds[i + 1]
            BY <1>3, <2>1
        <3>2. kind = "turn" => Head(cmds).turn < cmds[i + 1].turn
            BY <1>1, <1>2, <1>3, <2>2, <3>1
        <3> QED
            BY <1>1, <1>2, <1>5, <2>2, <3>1, <3>2
    <2>3. ASSUME NEW i \in 1..Len(cmds'), NEW j \in 1..Len(cmds'), i < j,
                 cmds'[i].kind = "turn", cmds'[j].kind = "turn"
          PROVE  cmds'[i].turn < cmds'[j].turn
        <3>1. i + 1 \in 1..Len(cmds) /\ j + 1 \in 1..Len(cmds) /\ i + 1 < j + 1
            BY <1>3, <2>1, <2>3
        <3> QED
            BY <1>1, <1>3, <2>3, <3>1
    <2>4. \A t \in received' : t <= sent'.turns
        BY <1>1, <1>2, <1>4, <1>5, EngineBounds
    <2> QED
        BY <1>3, <2>2, <2>3, <2>4 DEF TurnsAhead
<1> QED
    BY <1>3, <1>4, <1>5

\* The turns in the command queue stay in order, above all that were received.
LEMMA TurnsAheadStep ==
    ASSUME AssistInv, AssistNext
    PROVE  TurnsAhead'
<1> USE EngineBounds
<1>1. sent \in [turns : 0..MaxTurns, questions : 0..MaxQuestions, resets : 0..MaxResets]
    BY DEF AssistInv, Counters
<1>2. CASE PushTurnCmd
    <2>1. sent.turns + 1 \in 0..MaxTurns /\ sent'.turns = sent.turns + 1 /\ sent.turns \in Nat
        BY <1>1, <1>2 DEF PushTurnCmd
    <2> QED
        BY <1>2, <2>1, SendAhead DEF PushTurnCmd
<1>3. CASE AskCmd \/ ResetCmd \/ ShutdownCmd
    <2>1. sent'.turns = sent.turns /\ sent.turns \in 0..MaxTurns /\ sent.turns <= sent.turns
        BY <1>1, <1>3 DEF AskCmd, ResetCmd, ShutdownCmd
    <2>2. Send("ask", 0) \/ Send("reset", 0) \/ Send("shutdown", 0)
        BY <1>3 DEF AskCmd, ResetCmd, ShutdownCmd
    <2>3. 0 \in 0..MaxTurns
        OBVIOUS
    <2> QED
        BY <2>1, <2>2, <2>3, SendAhead
<1>4. CASE ReceiveTurn
    BY <1>4, TakeAhead DEF ReceiveTurn
<1>5. CASE ReceiveShutdown \/ ReceiveReset \/ ReceiveAsk
    <2>1. received' \subseteq received
        BY <1>5 DEF ReceiveShutdown, ReceiveReset, ReceiveAsk
    <2>2. Receive("shutdown") \/ Receive("reset") \/ Receive("ask")
        BY <1>5 DEF ReceiveShutdown, ReceiveReset, ReceiveAsk
    <2> QED
        BY <2>1, <2>2, TakeAhead
<1>6. CASE UNCHANGED <<cmds, sent, received>>
    BY <1>6 DEF AssistInv, TurnsAhead
<1> QED
    BY <1>2, <1>3, <1>4, <1>5, <1>6
    DEF AssistNext, Elapse, ArmDeadline, TimerFires, NoAnalysis, StartAnalysis, AnalysisDelivered,
        AnalysisFailed, AskDelivered, AskFailed

\* A turn received goes to the end of the buffer, in place of the oldest if it is full.
LEMMA BufferTurn ==
    ASSUME AssistInv, ReceiveTurn
    PROVE  ToldAndBuffered'
<1> DEFINE t == Head(cmds).turn
<1>1. /\ said \in Seq(Turns) /\ pending \in Seq(Turns) /\ Len(pending) <= MaxPending
      /\ received \subseteq Turns /\ overflowed \subseteq received
      /\ Up(said) /\ Up(pending) /\ Before(ToSet(said), ToSet(pending))
      /\ ToSet(said) \cup ToSet(pending) = received \ overflowed
    BY DEF AssistInv, ToldAndBuffered
<1>2. t \in Turns /\ Before(received, {t})
    BY TakeAhead DEF ReceiveTurn
<1>3. received' = received \cup {t} /\ said' = said
    BY DEF ReceiveTurn
<1>4. \/ pending' = Append(pending, t) /\ overflowed' = overflowed /\ Len(pending) # MaxPending
      \/ /\ pending' = Append(Tail(pending), t) /\ overflowed' = overflowed \cup {Head(pending)}
         /\ Len(pending) = MaxPending
    BY DEF ReceiveTurn
<1> HIDE DEF t
<1>5. Turns \subseteq Nat
    BY DEF Turns
<1>6. Before(ToSet(said), {t}) /\ Before(ToSet(pending), {t})
    BY <1>1, <1>2 DEF Before
<1>7. Len(pending) \in Nat
    BY <1>1, QueueOps
<1>8. CASE pending' = Append(pending, t) /\ overflowed' = overflowed /\ Len(pending) # MaxPending
    <2>1. /\ pending' \in Seq(Turns) /\ Len(pending') = Len(pending) + 1
          /\ ToSet(pending') = ToSet(pending) \cup {t}
        BY <1>1, <1>2, <1>8, Elements
    <2>2. Up(pending')
        BY <1>1, <1>2, <1>5, <1>6, <1>8, Order
    <2>3. Before(ToSet(said), ToSet(pending'))
        BY <1>1, <1>6, <2>1 DEF Before
    <2>4. t \notin overflowed
        BY <1>1, <1>2, <1>5 DEF Before
    <2>5. ToSet(said) \cup ToSet(pending') = (received \cup {t}) \ overflowed
        BY <1>1, <2>1, <2>4
    <2> QED
        BY <1>1, <1>2, <1>3, <1>7, <1>8, <2>1, <2>2, <2>3, <2>5, EngineBounds DEF ToldAndBuffered
<1>9. CASE /\ pending' = Append(Tail(pending), t) /\ overflowed' = overflowed \cup {Head(pending)}
           /\ Len(pending) = MaxPending
    <2> DEFINE h == Head(pending)
    <2> DEFINE r == Tail(pending)
    <2>1. pending # <<>>
        BY <1>1, <1>9, EmptySeq, EngineBounds
    <2>2. /\ h \in Turns /\ r \in Seq(Turns) /\ Len(r) = Len(pending) - 1
          /\ ToSet(pending) = {h} \cup ToSet(r)
        BY <1>1, <2>1, Elements
    <2>3. Up(r) /\ Before({h}, ToSet(r))
        BY <1>1, <1>5, <2>1, Order
    <2>4. pending' = Append(r, t) /\ overflowed' = overflowed \cup {h}
        BY <1>9
    <2> HIDE DEF h, r
    <2>5. Before(ToSet(r), {t})
        BY <1>6, <2>2 DEF Before
    <2>6. /\ pending' \in Seq(Turns) /\ Len(pending') = Len(r) + 1
          /\ ToSet(pending') = ToSet(r) \cup {t}
        BY <1>2, <2>2, <2>4, Elements
    <2>7. Up(pending')
        BY <1>2, <1>5, <2>2, <2>3, <2>4, <2>5, Order
    <2>8. Before(ToSet(said), ToSet(pending'))
        BY <1>1, <1>6, <2>2, <2>6 DEF Before
    <2>9. h \notin ToSet(said) /\ h \notin ToSet(r) /\ t \notin overflowed /\ t # h /\ h \in received
        <3>1. h \in ToSet(pending) /\ h \in Nat /\ t \in Nat /\ ~(h < h) /\ ~(t < t)
            BY <1>2, <1>5, <2>2
        <3>2. h \in received
            BY <1>1, <3>1
        <3>3. h \notin ToSet(said) /\ h \notin ToSet(r)
            BY <1>1, <2>3, <3>1 DEF Before
        <3>4. t \notin received
            BY <1>2, <3>1 DEF Before
        <3> QED
            BY <1>1, <3>2, <3>3, <3>4
    <2>10. ToSet(said) \cup ToSet(pending') = (received \cup {t}) \ (overflowed \cup {h})
        BY <1>1, <2>2, <2>6, <2>9
    <2>11. Len(pending') <= MaxPending
        BY <1>7, <1>9, <2>2, <2>6, EngineBounds
    <2> QED
        BY <1>1, <1>2, <1>3, <2>4, <2>6, <2>7, <2>8, <2>9, <2>10, <2>11 DEF ToldAndBuffered
<1> QED
    BY <1>4, <1>8, <1>9

\* What was buffered when a round-trip succeeds has been told.
LEMMA TellBuffered ==
    ASSUME AssistInv, Delivered, pending' = <<>>, UNCHANGED <<received, overflowed>>
    PROVE  ToldAndBuffered'
<1>1. /\ said \in Seq(Turns) /\ pending \in Seq(Turns)
      /\ received \subseteq Turns /\ overflowed \subseteq received
      /\ Up(said) /\ Up(pending) /\ Before(ToSet(said), ToSet(pending))
      /\ ToSet(said) \cup ToSet(pending) = received \ overflowed
    BY DEF AssistInv, ToldAndBuffered
<1>2. Turns \subseteq Nat
    BY DEF Turns
<1>3. said' = said \o pending
    BY DEF Delivered
<1>4. said' \in Seq(Turns) /\ ToSet(said') = ToSet(said) \cup ToSet(pending)
    BY <1>1, <1>3, Elements
<1>5. Up(said')
    BY <1>1, <1>2, <1>3, Order
<1>6. pending' \in Seq(Turns) /\ Len(pending') = 0 /\ Up(pending') /\ ToSet(pending') = {}
    BY <1>1, <1>2, EmptySeq, Elements, Order
<1>7. Before(ToSet(said'), ToSet(pending'))
    BY <1>6 DEF Before
<1> QED
    BY <1>1, <1>4, <1>5, <1>6, <1>7, EngineBounds DEF ToldAndBuffered

\* What was told and what is buffered stay disjoint and in order through a turn, a failed
\* round-trip, a full buffer and a reset.
LEMMA ToldStep ==
    ASSUME AssistInv, AssistNext
    PROVE  ToldAndBuffered'
<1>1. CASE ReceiveTurn
    BY <1>1, BufferTurn
<1>2. CASE ReceiveReset
    <2>1. /\ said' = <<>> /\ pending' = <<>> /\ received' = {} /\ overflowed' = {}
        BY <1>2 DEF ReceiveReset
    <2>2. <<>> \in Seq(Turns) /\ Len(<<>>) = 0 /\ ToSet(<<>>) = {}
        BY EmptySeq, Elements
    <2>3. Up(<<>>) /\ Before({}, {})
        BY <2>2 DEF Up, Before
    <2> QED
        BY <2>1, <2>2, <2>3, EngineBounds DEF ToldAndBuffered
<1>3. CASE AnalysisDelivered \/ AskDelivered
    BY <1>3, TellBuffered DEF AnalysisDelivered, AskDelivered
<1>4. CASE UNCHANGED <<said, pending, received, overflowed>>
    BY <1>4 DEF AssistInv, ToldAndBuffered
<1> QED
    BY <1>1, <1>2, <1>3, <1>4
    DEF AssistNext, PushTurnCmd, AskCmd, ResetCmd, ShutdownCmd, Send, Elapse, ArmDeadline, TimerFires,
        ReceiveShutdown, ReceiveAsk, Receive, NoAnalysis, StartAnalysis, AnalysisFailed, AskFailed, Failed

\* The backoff and the numbers of turns, questions and resets stay within their bounds.
LEMMA CountersStep ==
    ASSUME AssistInv, AssistNext
    PROVE  Counters'
<1> USE EngineBounds
<1>1. /\ sent \in [turns : 0..MaxTurns, questions : 0..MaxQuestions, resets : 0..MaxResets]
      /\ engineAt \in {"top", "receiving", "maybe_analyze", "analyzing", "asking", "stopped"}
      /\ armed \in BOOLEAN /\ opened \in BOOLEAN /\ cooling \in BOOLEAN /\ lastError \in BOOLEAN
      /\ backoff \in 0..MaxBackoff
      /\ panel \in {"nothing", "update", "error"}
    BY DEF AssistInv, Counters
<1>2. sent' \in [turns : 0..MaxTurns, questions : 0..MaxQuestions, resets : 0..MaxResets]
    <2>1. CASE PushTurnCmd
        BY <1>1, <2>1 DEF PushTurnCmd
    <2>2. CASE AskCmd
        BY <1>1, <2>2 DEF AskCmd
    <2>3. CASE ResetCmd
        BY <1>1, <2>3 DEF ResetCmd
    <2>4. CASE sent' = sent
        BY <1>1, <2>4
    <2> QED
        BY <2>1, <2>2, <2>3, <2>4
        DEF AssistNext, ShutdownCmd, Elapse, ArmDeadline, TimerFires, ReceiveShutdown, ReceiveReset,
            ReceiveAsk, ReceiveTurn, Receive, NoAnalysis, StartAnalysis, AnalysisDelivered,
            AnalysisFailed, AskDelivered, AskFailed
<1>3. engineAt' \in {"top", "receiving", "maybe_analyze", "analyzing", "asking", "stopped"}
    BY <1>1
    DEF AssistNext, PushTurnCmd, AskCmd, ResetCmd, ShutdownCmd, Send, Elapse, ArmDeadline, TimerFires,
        ReceiveShutdown, ReceiveReset, ReceiveAsk, ReceiveTurn, Receive, NoAnalysis, StartAnalysis,
        AnalysisDelivered, AnalysisFailed, AskDelivered, AskFailed, Delivered, Failed
<1>5. backoff' \in 0..MaxBackoff
    <2>1. CASE AnalysisFailed
        BY <1>1, <2>1 DEF AnalysisFailed
    <2>2. CASE backoff' = 0
        BY <2>2
    <2>3. CASE backoff' = backoff
        BY <1>1, <2>3
    <2> QED
        BY <2>1, <2>2, <2>3
        DEF AssistNext, PushTurnCmd, AskCmd, ResetCmd, ShutdownCmd, Send, Elapse, ArmDeadline,
            TimerFires, ReceiveShutdown, ReceiveReset, ReceiveAsk, ReceiveTurn, NoAnalysis,
            StartAnalysis, AnalysisDelivered, AskDelivered, AskFailed
<1>6. panel' \in {"nothing", "update", "error"}
    BY <1>1
    DEF AssistNext, PushTurnCmd, AskCmd, ResetCmd, ShutdownCmd, Send, Elapse, ArmDeadline, TimerFires,
        ReceiveShutdown, ReceiveReset, ReceiveAsk, ReceiveTurn, Receive, NoAnalysis, StartAnalysis,
        AnalysisDelivered, AnalysisFailed, AskDelivered, AskFailed, Delivered, Failed
<1>4. armed' \in BOOLEAN /\ opened' \in BOOLEAN /\ cooling' \in BOOLEAN /\ lastError' \in BOOLEAN
    BY <1>1
    DEF AssistNext, PushTurnCmd, AskCmd, ResetCmd, ShutdownCmd, Send, Elapse, ArmDeadline, TimerFires,
        ReceiveShutdown, ReceiveReset, ReceiveAsk, ReceiveTurn, Receive, NoAnalysis, StartAnalysis,
        AnalysisDelivered, AnalysisFailed, AskDelivered, AskFailed, Delivered, Failed
<1> QED
    BY <1>2, <1>3, <1>4, <1>5, <1>6 DEF Counters

\* A question is put to the agent only with nothing of another meeting buffered.
LEMMA CleanAskStep ==
    ASSUME AssistInv, AssistNext
    PROVE  AskStartsClean'
BY DEF AssistInv, AskStartsClean, AssistNext, PushTurnCmd, AskCmd, ResetCmd, ShutdownCmd, Send, Elapse,
       ArmDeadline, TimerFires, ReceiveShutdown, ReceiveReset, ReceiveAsk, ReceiveTurn, Receive,
       NoAnalysis, StartAnalysis, AnalysisDelivered, AnalysisFailed, AskDelivered, AskFailed

\* A fresh engine satisfies the invariant.
LEMMA AssistStart == AssistInit => AssistInv
<1> SUFFICES ASSUME AssistInit PROVE AssistInv
    OBVIOUS
<1>1. /\ cmds = <<>> /\ sent = [turns |-> 0, questions |-> 0, resets |-> 0]
      /\ engineAt = "top" /\ pending = <<>> /\ backoff = 0 /\ panel = "nothing"
      /\ said = <<>> /\ received = {} /\ overflowed = {}
    BY DEF AssistInit
<1>2. armed \in BOOLEAN /\ opened \in BOOLEAN /\ cooling \in BOOLEAN /\ lastError \in BOOLEAN
    BY DEF AssistInit
<1>3. /\ <<>> \in Seq(Turns) /\ <<>> \in Seq(Commands) /\ Len(<<>>) = 0 /\ ToSet(<<>>) = {}
    BY EmptySeq, Elements
<1>4. Up(<<>>) /\ Before({}, {})
    BY <1>3 DEF Up, Before
<1>5. TurnsAhead
    <2>1. cmds \in Seq(Commands) /\ Len(cmds) = 0 /\ received = {}
        BY <1>1, <1>3
    <2>2. \A i : i \notin 1..Len(cmds)
        BY <2>1
    <2> QED
        BY <2>1, <2>2 DEF TurnsAhead
<1>6. ToldAndBuffered
    <2>1. said \in Seq(Turns) /\ pending \in Seq(Turns) /\ Len(pending) <= MaxPending
        BY <1>1, <1>3, EngineBounds
    <2>2. Up(said) /\ Up(pending) /\ Before(ToSet(said), ToSet(pending))
        BY <1>1, <1>3, <1>4
    <2>3. ToSet(said) \cup ToSet(pending) = received \ overflowed
        BY <1>1, <1>3
    <2> QED
        BY <1>1, <2>1, <2>2, <2>3 DEF ToldAndBuffered
<1>7. Counters
    BY <1>1, <1>2, EngineBounds DEF Counters
<1>8. AskStartsClean
    BY <1>1 DEF AskStartsClean
<1> QED
    BY <1>5, <1>6, <1>7, <1>8 DEF AssistInv

\* Every branch of the engine's loop keeps the invariant.
LEMMA AssistStep == AssistInv /\ [AssistNext]_assistEngineVars => AssistInv'
<1> SUFFICES ASSUME AssistInv, [AssistNext]_assistEngineVars PROVE AssistInv'
    OBVIOUS
<1>1. CASE AssistNext
    BY <1>1, TurnsAheadStep, ToldStep, CountersStep, CleanAskStep DEF AssistInv
<1>2. CASE UNCHANGED assistEngineVars
    BY <1>2 DEF assistEngineVars, AssistInv, TurnsAhead, ToldAndBuffered, Counters, AskStartsClean
<1> QED
    BY <1>1, <1>2

\* The two properties the services run checks are consequences of the invariant.
LEMMA AssistInvGives == AssistInv => AssistTypeOK /\ TurnsToldOnceInOrder
<1> SUFFICES ASSUME AssistInv PROVE AssistTypeOK /\ TurnsToldOnceInOrder
    OBVIOUS
<1>1. /\ said \in Seq(Turns) /\ pending \in Seq(Turns)
      /\ Up(said) /\ Up(pending) /\ Before(ToSet(said), ToSet(pending))
      /\ ToSet(said) \cup ToSet(pending) = received \ overflowed
    BY DEF AssistInv, ToldAndBuffered
<1>2. AssistTypeOK
    BY DEF AssistInv, TurnsAhead, ToldAndBuffered, Counters, AssistTypeOK, Turns, Commands
<1>3. TurnsToldOnceInOrder
    <2> DEFINE told == said \o pending
    <2>1. told \in Seq(Turns) /\ ToSet(told) = received \ overflowed
        BY <1>1, Elements
    <2>2. Turns \subseteq Nat
        BY DEF Turns
    <2>3. Up(told)
        BY <1>1, <2>2, Order
    <2>4. DOMAIN told = 1..Len(told)
        BY <2>1, LenProperties
    <2> HIDE DEF told
    <2>5. \A i, j \in DOMAIN told : i < j => told[i] < told[j]
        BY <2>3, <2>4 DEF Up
    <2> QED
        BY <2>1, <2>5 DEF TurnsToldOnceInOrder, told
<1> QED
    BY <1>2, <1>3

\* The engine's variables keep their types: the queue its room, the failures their bound.
THEOREM AssistTypeCorrect == AssistSpec => []AssistTypeOK
BY AssistStart, AssistStep, AssistInvGives, PTL DEF AssistSpec

\* The conversation takes in the turns once each and in order, through failures, retries,
\* questions and overflow, whatever the capacities.
THEOREM TurnsTold == AssistSpec => []TurnsToldOnceInOrder
BY AssistStart, AssistStep, AssistInvGives, PTL DEF AssistSpec

\* A question never ends in silence: every branch of ask() puts something on the panel,
\* and a failure that was shown before hides none.
THEOREM QuestionsAnswered == AssistSpec => QuestionsAreAnswered
<1>1. ASSUME AssistInv, [AssistNext]_assistEngineVars, engineAt = "asking", engineAt' # "asking"
      PROVE  panel' # "nothing"
    <2>1. AskDelivered \/ AskFailed
        BY <1>1
        DEF assistEngineVars, AssistNext, PushTurnCmd, AskCmd, ResetCmd, ShutdownCmd, Send, Elapse,
            ArmDeadline, TimerFires, ReceiveShutdown, ReceiveReset, ReceiveAsk, ReceiveTurn, Receive,
            NoAnalysis, StartAnalysis, AnalysisDelivered, AnalysisFailed
    <2>2. ~lastError
        BY <1>1 DEF AssistInv, AskStartsClean
    <2> QED
        BY <2>1, <2>2 DEF AskDelivered, AskFailed, Failed
<1>2. AssistInv /\ [AssistNext]_assistEngineVars
        => [engineAt = "asking" /\ engineAt' # "asking" => panel' # "nothing"]_assistEngineVars
    BY <1>1
<1> QED
    BY <1>2, AssistStart, AssistStep, PTL DEF AssistSpec, QuestionsAreAnswered

-----------------------------------------------------------------------------
(* The shell of the assist: the inductive invariant.                       *)

Building == {"agent", "knobs", "store"}
Installing == {"clear", "installing", "installed"}
Downloading == {"reset", "streaming", "completed", "cancelled", "failed"}
Fetching == Downloading \cup {"start", "landed", "stopped", "told"}
Wiring == {"on", "wire", "agent", "knobs", "store", "rewire", "refresh", "completed", "landed"}
Points == {"unborn", "idle", "drop"} \cup Installing \cup Fetching \cup Wiring

Chosen == [agent |-> agent, model |-> model]

\* A change of the preferences that a stack built before it has still to make way for.
Stale == preparing \/ unserved \/ \E t \in Threads : pc[t] = "rewire"

ShellTypes ==
    /\ pc \in [Threads -> Points] /\ built \in [Threads -> Stacks]
    /\ wired \in Stacks
    /\ agent \in Agents \cup {NoAgent} /\ model \in Models
    /\ tasks \in Nat

\* Tasks to come; the holder of the lock; one install and one download at a time.
ShellThreads ==
    /\ \A t \in Threads : t > tasks => pc[t] = "unborn"
    /\ \A t \in Threads : pc[t] \in Building <=> lock = t
    /\ \A t \in Threads : pc[t] \in Installing => preparing /\ Available
    /\ \A t, u \in Threads : pc[t] \in Installing /\ pc[u] \in Installing => t = u
    /\ \A t \in Threads : pc[t] \in Downloading => downloading
    /\ \A t, u \in Threads : pc[t] \in Downloading /\ pc[u] \in Downloading => t = u
    /\ downloading => \E t \in Threads : pc[t] \in Downloading
    /\ lock \in Threads \cup {-1}

\* What is wired, or is being put together, is what was chosen, or has to make way.
ShellStacks ==
    /\ wired # NotWired => wired = Chosen \/ Stale
    /\ \A t \in Threads :
          /\ pc[t] = "agent" => Available
          /\ pc[t] = "knobs" => built[t].agent # NoAgent /\ (built[t].agent = agent \/ Stale)
          /\ pc[t] = "store" => built[t].agent # NoAgent /\ (built[t] = Chosen \/ Stale)

\* Somebody is at it who will wire what is wanted.
ShellWanted ==
    switch /\ Available /\ assistModelFile /\ wired = NotWired =>
       preparing \/ unserved \/ \E t \in Threads : pc[t] \in Wiring

\* Somebody is at it who will fetch the model that is owed.
ShellOwed ==
    owed => /\ switch
            /\ \E t \in Threads : pc[t] \in Fetching
            /\ assistModelFile => \E t \in Threads : pc[t] \in {"completed", "landed"}

\* The gate is the UI thread's, which has just saved the switch.
ShellGate == \A t \in Threads : pc[t] = "on" => t = 0 /\ switch

ShellInv == ShellTypes /\ ShellThreads /\ ShellStacks /\ ShellWanted /\ ShellOwed /\ ShellGate

\* A thread moves, and a task may be spawned: the places of the others stay.
Moves(t, place) == \A u \in Threads : pc'[u] = IF u = t THEN place ELSE pc[u]

\* A thread that moves leaves the program points of all others alone.
LEMMA Moved ==
    ASSUME ShellTypes, NEW t \in Threads, NEW place, Goto(t, place)
    PROVE  Moves(t, place)
BY DEF ShellTypes, Goto, Moves

\* The shell's variables keep their types.
LEMMA ShellTypesStep ==
    ASSUME ShellTypes, ShellThreads, AssistShellNext
    PROVE  ShellTypes'
<1> USE DEF prefVars, downloadVars, stackVars, optionVars, Command, Goto,
    Points, Installing, Fetching, Downloading, Wiring
<1>1. /\ pc \in [Threads -> Points] /\ built \in [Threads -> Stacks] /\ wired \in Stacks
      /\ agent \in Agents \cup {NoAgent} /\ model \in Models /\ tasks \in Nat
    BY DEF ShellTypes
<1>2. NotWired \in Stacks /\ \A a \in Agents \cup {NoAgent} : a # NoAgent => a \in Models
    BY DEF NotWired, Stacks, Models
<1>3. CASE SwitchOn \/ OnGate \/ SwitchOff \/ ChooseAgent \/ ProbeOptions \/ CacheOptions
    BY <1>1, <1>3 DEF ShellTypes, SwitchOn, OnGate, SwitchOff, ChooseAgent, ProbeOptions, CacheOptions
<1>4. CASE ClearKnobs
    <2>1. model' \in Models /\ tasks' \in Nat
        BY <1>1, <1>4 DEF ClearKnobs, Models
    <2> QED
        BY <1>1, <1>4, <2>1 DEF ShellTypes, ClearKnobs
<1>5. CASE SetSessionOption
    <2>1. model' \in Models
        BY <1>5 DEF SetSessionOption, Models
    <2> QED
        BY <1>1, <1>5, <2>1 DEF ShellTypes, SetSessionOption
<1>6. ASSUME NEW t \in Threads, AssistShellThread(t)
      PROVE  ShellTypes'
    <2>1. CASE Prepare(t)
        <3>1. model' \in Models
            BY <1>1, <1>2, <2>1 DEF Prepare, ShellThreads, Available
        <3> QED
            BY <1>1, <2>1, <3>1 DEF ShellTypes, Prepare
    <2>2. CASE Installed(t) \/ PrepareFails(t) \/ Teardown(t) \/ Refresh(t) \/ WireNothing(t) \/ WireStart(t)
        BY <1>1, <1>2, <2>2 DEF ShellTypes, Installed, PrepareFails, Teardown, Refresh, WireNothing, WireStart
    <2>3. CASE EngineAgent(t) \/ EngineKnobs(t)
        <3>1. built' \in [Threads -> Stacks]
            BY <1>1, <2>3 DEF EngineAgent, EngineKnobs, Stacks
        <3> QED
            BY <1>1, <2>3, <3>1 DEF ShellTypes, EngineAgent, EngineKnobs
    <2>4. CASE EngineFails(t) \/ WireStore(t)
        BY <1>1, <1>2, <2>4 DEF ShellTypes, EngineFails, WireStore
    <2>5. CASE DownloadAlready(t) \/ StartDownload(t) \/ SpawnDownload(t) \/ Stream(t)
        BY <1>1, <2>5 DEF ShellTypes, DownloadAlready, StartDownload, SpawnDownload, Stream
    <2>6. CASE DownloadEnds(t) \/ AfterDownload(t)
        BY <1>1, <2>6 DEF ShellTypes, DownloadEnds, AfterDownload
    <2> QED
        BY <1>6, <2>1, <2>2, <2>3, <2>4, <2>5, <2>6 DEF AssistShellThread
<1> QED
    BY <1>3, <1>4, <1>5, <1>6 DEF AssistShellNext

\* The lock has one holder, and there is at most one install and one download.
LEMMA ShellThreadsStep ==
    ASSUME ShellTypes, ShellThreads, AssistShellNext
    PROVE  ShellThreads'
<1> USE DEF prefVars, downloadVars, stackVars, optionVars, Command, Installing, Downloading, Building
<1>1. /\ pc \in [Threads -> Points] /\ tasks \in Nat
      /\ agent \in Agents \cup {NoAgent}
    BY DEF ShellTypes
<1>2. /\ \A t \in Threads : t > tasks => pc[t] = "unborn"
      /\ \A t \in Threads : pc[t] \in Building <=> lock = t
      /\ \A t \in Threads : pc[t] \in Installing => preparing /\ Available
      /\ \A t, u \in Threads : pc[t] \in Installing /\ pc[u] \in Installing => t = u
      /\ \A t \in Threads : pc[t] \in Downloading => downloading
      /\ \A t, u \in Threads : pc[t] \in Downloading /\ pc[u] \in Downloading => t = u
      /\ downloading => \E t \in Threads : pc[t] \in Downloading
      /\ lock \in Threads \cup {-1}
    BY DEF ShellThreads
<1>3. 0 \in Threads /\ (\A t \in Threads : t \in Nat /\ t # -1)
      /\ (tasks < MaxTasks => tasks + 1 \in Threads /\ tasks + 1 # 0 )
    BY <1>1, TasksAreCounted DEF Threads
<1>4. CASE UNCHANGED <<pc, tasks, lock, preparing, agent, downloading>>
    BY <1>2, <1>4 DEF ShellThreads, Available
\* A thread moves between places of no account.
<1>5. ASSUME NEW t \in Threads, NEW place, Moves(t, place), pc[t] # "unborn",
             UNCHANGED <<tasks, lock, preparing, agent, downloading>>,
             pc[t] \in Building <=> place \in Building,
             place \in Installing => pc[t] \in Installing,
             pc[t] \in Downloading <=> place \in Downloading
      PROVE  ShellThreads'
    <2>1. \A u \in Threads : pc'[u] = IF u = t THEN place ELSE pc[u]
        BY <1>5 DEF Moves
    <2>2. \A u \in Threads : pc'[u] \in Downloading <=> pc[u] \in Downloading
        BY <1>5, <2>1
    <2>3. \A u \in Threads : pc'[u] \in Building <=> pc[u] \in Building
        BY <1>5, <2>1
    <2>4. \A u \in Threads : pc'[u] \in Installing => pc[u] \in Installing
        BY <1>5, <2>1
    <2>5. \A u \in Threads : u > tasks' => pc'[u] = "unborn"
        BY <1>2, <1>5, <2>1
    <2> HIDE DEF Installing, Downloading, Building
    <2>6. \A u \in Threads : pc'[u] \in Building <=> lock' = u
        BY <1>2, <1>5, <2>3
    <2>7. \A u \in Threads : pc'[u] \in Installing => preparing' /\ Available'
        BY <1>2, <1>5, <2>4 DEF Available
    <2>8. \A u, v \in Threads : pc'[u] \in Installing /\ pc'[v] \in Installing => u = v
        BY <1>2, <2>4
    <2>9. /\ \A u \in Threads : pc'[u] \in Downloading => downloading'
          /\ \A u, v \in Threads : pc'[u] \in Downloading /\ pc'[v] \in Downloading => u = v
          /\ downloading' => \E u \in Threads : pc'[u] \in Downloading
        BY <1>2, <1>5, <2>2
    <2>10. lock' \in Threads \cup {-1}
        BY <1>2, <1>5
    <2> QED
        BY <2>5, <2>6, <2>7, <2>8, <2>9, <2>10, Zenon DEF ShellThreads
<1>6. CASE SwitchOn \/ OnGate \/ SwitchOff \/ SetSessionOption
    <2>1. PICK place \in {"on", "wire", "start", "drop", "rewire"} :
             /\ Goto(0, place) /\ pc[0] \in {"idle", "on"}
             /\ UNCHANGED <<tasks, lock, preparing, agent, downloading>>
        BY <1>6 DEF SwitchOn, OnGate, SwitchOff, SetSessionOption
    <2>2. Moves(0, place)
        BY <1>3, <2>1, Moved
    <2> QED
        BY <1>3, <1>5, <2>1, <2>2
<1>7. CASE ProbeOptions \/ CacheOptions
    BY <1>4, <1>7 DEF ProbeOptions, CacheOptions
<1>8. CASE ChooseAgent
    <2>1. /\ Goto(0, "clear") /\ pc[0] = "idle" /\ ~preparing /\ preparing'
          /\ agent' \in Agents /\ UNCHANGED <<tasks, lock, downloading>>
        BY <1>8 DEF ChooseAgent
    <2>2. \A u \in Threads : pc'[u] = IF u = 0 THEN "clear" ELSE pc[u]
        BY <1>3, <2>1, Moved DEF Moves
    <2>3. \A u \in Threads : pc'[u] \in Installing <=> u = 0
        BY <1>2, <2>1, <2>2
    <2>4. Available'
        BY <2>1, NoAgentIsNoAgent DEF Available
    <2>5. \A u \in Threads : /\ pc'[u] \in Downloading <=> pc[u] \in Downloading
                             /\ pc'[u] \in Building <=> pc[u] \in Building
                             /\ pc[u] = "unborn" => pc'[u] = "unborn"
        BY <2>1, <2>2
    <2> HIDE DEF Installing, Downloading, Building
    <2> QED
        BY <1>2, <2>1, <2>3, <2>4, <2>5 DEF ShellThreads
<1>9. CASE ClearKnobs
    <2>1. /\ pc[0] = "clear" /\ tasks < MaxTasks /\ tasks' = tasks + 1
          /\ pc' = [pc EXCEPT ![0] = "idle", ![tasks + 1] = "installing"]
          /\ UNCHANGED <<lock, downloading, preparing, agent>>
        BY <1>9 DEF ClearKnobs
    <2>2. PICK new \in Threads :
             /\ new # 0 /\ new = tasks + 1
             /\ \A u \in Threads : pc'[u] = IF u = new THEN "installing" ELSE IF u = 0 THEN "idle" ELSE pc[u]
        BY <1>1, <1>3, <2>1
    <2>3. pc[new] = "unborn"
        BY <1>1, <1>2, <1>3, <2>2
    <2>4. 0 \in Threads /\ pc[0] = "clear" /\ new # 0
          /\ \A u \in Threads : pc'[u] = IF u = new THEN "installing" ELSE IF u = 0 THEN "idle" ELSE pc[u]
        BY <1>3, <2>1, <2>2
    <2>5. preparing /\ Available /\ \A u \in Threads : pc'[u] \in Installing <=> u = new
        BY <1>2, <2>4
    <2>6. \A u \in Threads : /\ pc'[u] \in Downloading <=> pc[u] \in Downloading
                             /\ pc'[u] \in Building <=> pc[u] \in Building
        BY <2>3, <2>4
    <2>7. \A u \in Threads : u > tasks' => pc'[u] = "unborn"
        BY <1>1, <1>2, <1>3, <2>1, <2>2
    <2> HIDE DEF Installing, Downloading, Building
    <2> QED
        BY <1>2, <2>1, <2>5, <2>6, <2>7 DEF ShellThreads, Available
<1>10. ASSUME NEW t \in Threads, AssistShellThread(t)
       PROVE  ShellThreads'
    <2>1. CASE Prepare(t) \/ Teardown(t) \/ Refresh(t) \/ WireNothing(t) \/ EngineAgent(t) \/ EngineKnobs(t)
                \/ DownloadAlready(t) \/ Stream(t) \/ AfterDownload(t)
        <3>1. PICK place \in Points :
                 /\ Goto(t, place) /\ pc[t] # "unborn"
                 /\ UNCHANGED <<tasks, lock, preparing, agent, downloading>>
                 /\ pc[t] \in Building <=> place \in Building
                 /\ place \in Installing => pc[t] \in Installing
                 /\ pc[t] \in Downloading <=> place \in Downloading
            <4>1. CASE Prepare(t) \/ Teardown(t) \/ Refresh(t) \/ WireNothing(t)
                BY <4>1 DEF Prepare, Teardown, Refresh, WireNothing, Points, Fetching, Wiring
            <4>2. CASE EngineAgent(t) \/ EngineKnobs(t) \/ DownloadAlready(t)
                BY <4>2 DEF EngineAgent, EngineKnobs, DownloadAlready, Points, Fetching, Wiring
            <4>3. CASE Stream(t) \/ AfterDownload(t)
                BY <4>3 DEF Stream, AfterDownload, Points, Fetching, Wiring
            <4> QED
                BY <2>1, <4>1, <4>2, <4>3
        <3>2. Moves(t, place)
            BY <3>1, Moved
        <3> QED
            BY <1>5, <3>1, <3>2
    <2>2. CASE Installed(t) \/ PrepareFails(t)
        <3>1. PICK place \in {"rewire", "idle"} :
                 /\ Goto(t, place) /\ pc[t] \in Installing
                 /\ UNCHANGED <<tasks, lock, downloading>>
            BY <2>2 DEF Installed, PrepareFails
        <3>2. \A u \in Threads : pc'[u] = IF u = t THEN place ELSE pc[u]
            BY <3>1, Moved DEF Moves
        <3>3. \A u \in Threads : /\ pc'[u] \notin Installing
                                 /\ pc'[u] \in Downloading <=> pc[u] \in Downloading
                                 /\ pc'[u] \in Building <=> pc[u] \in Building
            BY <1>2, <3>1, <3>2
        <3>4. \A u \in Threads : u > tasks' => pc'[u] = "unborn"
            BY <1>2, <3>1, <3>2
        <3> HIDE DEF Installing, Downloading, Building
        <3> QED
            BY <1>2, <3>1, <3>3, <3>4 DEF ShellThreads
    <2>3. CASE WireStart(t)
        <3>1. Goto(t, "agent") /\ pc[t] = "wire" /\ lock = -1 /\ lock' = t
              /\ UNCHANGED <<tasks, downloading, preparing, agent>>
            BY <2>3 DEF WireStart
        <3>2. \A u \in Threads : pc'[u] = IF u = t THEN "agent" ELSE pc[u]
            BY <3>1, Moved DEF Moves
        <3>3. \A u \in Threads : /\ pc'[u] \in Installing <=> pc[u] \in Installing
                                 /\ pc'[u] \in Downloading <=> pc[u] \in Downloading
            BY <3>1, <3>2
        <3>4. \A u \in Threads : u > tasks' => pc'[u] = "unborn"
            BY <1>2, <3>1, <3>2
        <3>5. \A u \in Threads : pc'[u] \in Building <=> u = t
            BY <1>2, <1>3, <3>1, <3>2
        <3> HIDE DEF Installing, Downloading, Building
        <3> QED
            BY <1>2, <3>1, <3>3, <3>4, <3>5 DEF ShellThreads, Available
    <2>4. CASE EngineFails(t) \/ WireStore(t)
        <3>1. Goto(t, "idle") /\ pc[t] \in Building /\ lock' = -1
              /\ UNCHANGED <<tasks, downloading, preparing, agent>>
            BY <2>4 DEF EngineFails, WireStore
        <3>2. \A u \in Threads : pc'[u] = IF u = t THEN "idle" ELSE pc[u]
            BY <3>1, Moved DEF Moves
        <3>3. \A u \in Threads : /\ pc'[u] \in Installing <=> pc[u] \in Installing
                                 /\ pc'[u] \in Downloading <=> pc[u] \in Downloading
            BY <3>1, <3>2
        <3>4. \A u \in Threads : u > tasks' => pc'[u] = "unborn"
            BY <1>2, <3>1, <3>2
        <3>5. \A u \in Threads : pc'[u] \notin Building
            BY <1>2, <1>3, <3>1, <3>2
        <3> HIDE DEF Installing, Downloading, Building
        <3> QED
            BY <1>2, <1>3, <3>1, <3>3, <3>4, <3>5 DEF ShellThreads, Available
    <2>5. CASE StartDownload(t)
        <3>1. Goto(t, "reset") /\ pc[t] = "start" /\ ~downloading /\ downloading'
              /\ UNCHANGED <<tasks, lock, preparing, agent>>
            BY <2>5 DEF StartDownload
        <3>2. \A u \in Threads : pc'[u] = IF u = t THEN "reset" ELSE pc[u]
            BY <3>1, Moved DEF Moves
        <3>3. \A u \in Threads : /\ pc'[u] \in Installing <=> pc[u] \in Installing
                                 /\ pc'[u] \in Building <=> pc[u] \in Building
                                 /\ pc'[u] \in Downloading <=> u = t
            BY <1>2, <3>1, <3>2
        <3>4. \A u \in Threads : u > tasks' => pc'[u] = "unborn"
            BY <1>2, <3>1, <3>2
        <3> HIDE DEF Installing, Downloading, Building
        <3> QED
            BY <1>2, <3>1, <3>3, <3>4 DEF ShellThreads, Available
    <2>6. CASE SpawnDownload(t)
        <3>1. /\ pc[t] = "reset" /\ tasks < MaxTasks /\ tasks' = tasks + 1
              /\ pc' = [pc EXCEPT ![t] = "idle", ![tasks + 1] = "streaming"]
              /\ UNCHANGED <<lock, downloading, preparing, agent>>
            BY <2>6 DEF SpawnDownload
        <3>2. PICK new \in Threads :
                 /\ new = tasks + 1
                 /\ \A u \in Threads : pc'[u] = IF u = new THEN "streaming" ELSE IF u = t THEN "idle" ELSE pc[u]
            BY <1>1, <1>3, <3>1
        <3>3. pc[new] = "unborn"
            BY <1>1, <1>2, <1>3, <3>2
        <3>4. /\ pc[t] = "reset"
              /\ \A u \in Threads : pc'[u] = IF u = new THEN "streaming" ELSE IF u = t THEN "idle" ELSE pc[u]
            BY <3>1, <3>2
        <3>5. downloading /\ \A u \in Threads : pc'[u] \in Downloading <=> u = new
            BY <1>2, <3>4
        <3>6. \A u \in Threads : /\ pc'[u] \in Installing <=> pc[u] \in Installing
                                 /\ pc'[u] \in Building <=> pc[u] \in Building
            BY <3>3, <3>4
        <3>7. \A u \in Threads : u > tasks' => pc'[u] = "unborn"
            <4>1. \A u \in Threads : u > tasks + 1 => u > tasks /\ u # tasks + 1
                BY <1>1, <1>3
            <4> QED
                BY <1>2, <3>1, <3>2, <4>1
        <3> HIDE DEF Installing, Downloading, Building
        <3> QED
            <4>1. \A u \in Threads : pc'[u] \in Building <=> lock' = u
                BY <1>2, <3>1, <3>6
            <4>2. \A u \in Threads : pc'[u] \in Installing => preparing' /\ Available'
                BY <1>2, <3>1, <3>6 DEF Available
            <4>3. \A u, v \in Threads : pc'[u] \in Installing /\ pc'[v] \in Installing => u = v
                BY <1>2, <3>6
            <4>4. /\ \A u \in Threads : pc'[u] \in Downloading => downloading'
                  /\ \A u, v \in Threads : pc'[u] \in Downloading /\ pc'[v] \in Downloading => u = v
                  /\ downloading' => \E u \in Threads : pc'[u] \in Downloading
                BY <3>1, <3>5
            <4>5. lock' \in Threads \cup {-1}
                BY <1>2, <3>1
            <4> QED
                BY <3>7, <4>1, <4>2, <4>3, <4>4, <4>5, Zenon DEF ShellThreads
    <2>7. CASE DownloadEnds(t)
        <3>1. PICK place \in {"landed", "stopped", "told"} :
                 /\ Goto(t, place) /\ pc[t] \in Downloading /\ ~downloading'
                 /\ UNCHANGED <<tasks, lock, preparing, agent>>
            BY <2>7 DEF DownloadEnds
        <3>2. \A u \in Threads : pc'[u] = IF u = t THEN place ELSE pc[u]
            BY <3>1, Moved DEF Moves
        <3>3. \A u \in Threads : /\ pc'[u] \in Installing <=> pc[u] \in Installing
                                 /\ pc'[u] \in Building <=> pc[u] \in Building
                                 /\ pc'[u] \notin Downloading
            BY <1>2, <3>1, <3>2
        <3>4. \A u \in Threads : u > tasks' => pc'[u] = "unborn"
            BY <1>2, <3>1, <3>2
        <3> HIDE DEF Installing, Downloading, Building
        <3> QED
            BY <1>2, <3>1, <3>3, <3>4 DEF ShellThreads, Available
    <2> QED
        BY <1>10, <2>1, <2>2, <2>3, <2>4, <2>5, <2>6, <2>7 DEF AssistShellThread
<1> QED
    BY <1>6, <1>7, <1>8, <1>9, <1>10 DEF AssistShellNext

\* Who is between two reads of the preferences holds the lock, and is alone.
LEMMA OneBuilds ==
    ASSUME ShellThreads, NEW t \in Threads, NEW u \in Threads
    PROVE  /\ lock = -1 => pc[t] \notin Building
           /\ pc[t] \in Building /\ pc[u] \in Building => t = u
<1>1. \A v \in Threads : pc[v] \in Building <=> lock = v
    BY DEF ShellThreads
<1>2. t # -1
    BY DEF Threads
<1> QED
    BY <1>1, <1>2

\* What is wired, or being put together, is what was chosen or has to make way.
LEMMA ShellStacksStep ==
    ASSUME ShellTypes, ShellThreads, ShellStacks, AssistShellNext
    PROVE  ShellStacks'
<1> USE DEF prefVars, downloadVars, stackVars, optionVars, Command
<1>1. /\ pc \in [Threads -> Points] /\ built \in [Threads -> Stacks] /\ wired \in Stacks
    BY DEF ShellTypes
<1>2. /\ wired # NotWired => wired = Chosen \/ Stale
      /\ \A t \in Threads :
            /\ pc[t] = "agent" => Available
            /\ pc[t] = "knobs" => built[t].agent # NoAgent /\ (built[t].agent = agent \/ Stale)
            /\ pc[t] = "store" => built[t].agent # NoAgent /\ (built[t] = Chosen \/ Stale)
    BY DEF ShellStacks
<1>3. 0 \in Threads
    BY TasksAreCounted DEF Threads
\* Nothing is built, torn down or chosen, and what is stale stays so.
<1>4. ASSUME UNCHANGED <<wired, built>>, Stale => Stale', Available => Available',
             UNCHANGED <<agent, model>> \/ Stale',
             \A t \in Threads : pc'[t] \in Building => pc'[t] = pc[t]
      PROVE  ShellStacks'
    <2>1. wired' # NotWired => wired' = Chosen' \/ Stale'
        BY <1>2, <1>4 DEF Chosen
    <2>2. ASSUME NEW t \in Threads
          PROVE  /\ pc'[t] = "agent" => Available'
                 /\ pc'[t] = "knobs" => built'[t].agent # NoAgent /\ (built'[t].agent = agent' \/ Stale')
                 /\ pc'[t] = "store" => built'[t].agent # NoAgent /\ (built'[t] = Chosen' \/ Stale')
        BY <1>2, <1>4 DEF Chosen, Building
    <2> QED
        BY <2>1, <2>2 DEF ShellStacks
<1>5. ASSUME NEW t \in Threads, NEW place, Moves(t, place), place \notin Building,
             UNCHANGED <<wired, built, preparing, unserved, agent, model>>,
             pc[t] # "rewire"
      PROVE  ShellStacks'
    <2>1. Stale => Stale'
        BY <1>5 DEF Stale, Moves
    <2>2. \A u \in Threads : pc'[u] \in Building => pc'[u] = pc[u]
        BY <1>5 DEF Moves
    <2> QED
        BY <1>4, <1>5, <2>1, <2>2 DEF Available
<1>6. CASE SwitchOn \/ OnGate \/ SwitchOff
    <2>1. PICK place \in {"on", "wire", "start", "drop"} :
             /\ Goto(0, place) /\ pc[0] # "rewire"
             /\ UNCHANGED <<wired, built, preparing, unserved, agent, model>>
        BY <1>6 DEF SwitchOn, OnGate, SwitchOff
    <2>2. Moves(0, place)
        BY <1>3, <2>1, Moved
    <2> QED
        BY <1>3, <1>5, <2>1, <2>2 DEF Building
<1>7. CASE ProbeOptions \/ CacheOptions
    <2>1. UNCHANGED <<wired, built, preparing, unserved, agent, model, pc>>
        BY <1>7 DEF ProbeOptions, CacheOptions
    <2> QED
        BY <1>2, <2>1 DEF ShellStacks, Available, Stale, Chosen
<1>8. CASE ChooseAgent
    <2>1. /\ Goto(0, "clear") /\ preparing' /\ agent' \in Agents /\ UNCHANGED <<wired, built>>
        BY <1>8 DEF ChooseAgent
    <2>2. \A u \in Threads : pc'[u] = IF u = 0 THEN "clear" ELSE pc[u]
        BY <1>3, <2>1, Moved DEF Moves
    <2>3. Stale' /\ Available'
        BY <2>1, NoAgentIsNoAgent DEF Stale, Available
    <2>4. \A u \in Threads : pc'[u] \in Building => pc'[u] = pc[u]
        BY <2>2 DEF Building
    <2> QED
        BY <1>4, <2>1, <2>3, <2>4
<1>9. CASE ClearKnobs
    <2>1. /\ pc[0] = "clear" /\ UNCHANGED <<wired, built, preparing, agent>>
          /\ pc' = [pc EXCEPT ![0] = "idle", ![tasks + 1] = "installing"]
        BY <1>9 DEF ClearKnobs
    <2>2. \A u \in Threads : pc'[u] \in {"idle", "installing", pc[u]}
        BY <1>1, <2>1
    <2>3. Stale'
        BY <1>3, <2>1 DEF Stale, ShellThreads, Installing
    <2>4. \A u \in Threads : pc'[u] \in Building => pc'[u] = pc[u]
        BY <2>2 DEF Building
    <2> QED
        BY <1>4, <2>1, <2>3, <2>4 DEF Available
<1>10. CASE SetSessionOption
    <2>1. Goto(0, "rewire") /\ UNCHANGED <<wired, built, agent>>
        BY <1>10 DEF SetSessionOption
    <2>2. \A u \in Threads : pc'[u] = IF u = 0 THEN "rewire" ELSE pc[u]
        BY <1>3, <2>1, Moved DEF Moves
    <2>3. Stale'
        BY <1>3, <2>2 DEF Stale
    <2>4. \A u \in Threads : pc'[u] \in Building => pc'[u] = pc[u]
        BY <2>2 DEF Building
    <2> QED
        BY <1>4, <2>1, <2>3, <2>4 DEF Available
<1>11. ASSUME NEW t \in Threads, AssistShellThread(t)
       PROVE  ShellStacks'
    <2>1. CASE Refresh(t) \/ WireNothing(t) \/ DownloadAlready(t) \/ StartDownload(t)
                \/ Stream(t) \/ DownloadEnds(t) \/ AfterDownload(t)
        <3>1. PICK place \in Points :
                 /\ Goto(t, place) /\ pc[t] # "rewire" /\ place \notin Building
                 /\ UNCHANGED <<wired, built, preparing, unserved, agent, model>>
            <4>1. CASE Refresh(t) \/ WireNothing(t) \/ DownloadAlready(t)
                BY <4>1 DEF Refresh, WireNothing, DownloadAlready, Points, Fetching, Wiring, Downloading, Building
            <4>2. CASE StartDownload(t) \/ Stream(t)
                BY <4>2 DEF StartDownload, Stream, Points, Fetching, Wiring, Downloading, Building
            <4>3. CASE DownloadEnds(t) \/ AfterDownload(t)
                BY <4>3 DEF DownloadEnds, AfterDownload, Points, Fetching, Wiring, Downloading, Building
            <4> QED
                BY <2>1, <4>1, <4>2, <4>3
        <3>2. Moves(t, place)
            BY <3>1, Moved
        <3> QED
            BY <1>5, <3>1, <3>2
    <2>2. CASE Prepare(t)
        <3>1. Goto(t, "installed") /\ pc[t] = "installing" /\ UNCHANGED <<wired, built, preparing, agent>>
            BY <2>2 DEF Prepare
        <3>2. \A u \in Threads : pc'[u] = IF u = t THEN "installed" ELSE pc[u]
            BY <3>1, Moved DEF Moves
        <3>3. Stale'
            BY <3>1 DEF Stale, ShellThreads, Installing
        <3>4. \A u \in Threads : pc'[u] \in Building => pc'[u] = pc[u]
            BY <3>2 DEF Building
        <3> QED
            BY <1>4, <3>1, <3>3, <3>4 DEF Available
    <2>3. CASE Installed(t)
        <3>1. Goto(t, "rewire") /\ UNCHANGED <<wired, built, agent>>
            BY <2>3 DEF Installed
        <3>2. \A u \in Threads : pc'[u] = IF u = t THEN "rewire" ELSE pc[u]
            BY <3>1, Moved DEF Moves
        <3>3. Stale'
            BY <3>2 DEF Stale
        <3>4. \A u \in Threads : pc'[u] \in Building => pc'[u] = pc[u]
            BY <3>2 DEF Building
        <3> QED
            BY <1>4, <3>1, <3>3, <3>4 DEF Available
    <2>4. CASE PrepareFails(t)
        <3>1. Goto(t, "idle") /\ unserved' /\ UNCHANGED <<wired, built, agent>>
            BY <2>4 DEF PrepareFails
        <3>2. \A u \in Threads : pc'[u] = IF u = t THEN "idle" ELSE pc[u]
            BY <3>1, Moved DEF Moves
        <3>3. Stale'
            BY <3>1 DEF Stale
        <3>4. \A u \in Threads : pc'[u] \in Building => pc'[u] = pc[u]
            BY <3>2 DEF Building
        <3> QED
            BY <1>4, <3>1, <3>3, <3>4 DEF Available
    <2>5. CASE Teardown(t)
        <3>1. PICK place \in {"refresh", "idle"} : Goto(t, place) /\ lock = -1 /\ wired' = NotWired
            BY <2>5 DEF Teardown
        <3>2. \A u \in Threads : pc'[u] = IF u = t THEN place ELSE pc[u]
            BY <3>1, Moved DEF Moves
        <3>3. \A u \in Threads : pc'[u] \notin Building
            BY <3>1, <3>2, OneBuilds DEF Building
        <3> QED
            BY <3>1, <3>3 DEF ShellStacks, Building
    <2>6. CASE WireStart(t)
        <3>1. /\ Goto(t, "agent") /\ lock = -1 /\ Available
              /\ UNCHANGED <<wired, built, preparing, unserved, agent, model>> /\ pc[t] = "wire"
            BY <2>6 DEF WireStart
        <3>2. \A u \in Threads : pc'[u] = IF u = t THEN "agent" ELSE pc[u]
            BY <3>1, Moved DEF Moves
        <3>3. \A u \in Threads : pc[u] \notin Building
            BY <3>1, OneBuilds
        <3>4. \A u \in Threads : pc'[u] # "knobs" /\ pc'[u] # "store"
            BY <3>2, <3>3 DEF Building
        <3>5. Available' /\ (Stale => Stale')
            BY <3>1, <3>2 DEF Stale, Available
        <3> QED
            BY <1>2, <3>1, <3>4, <3>5 DEF ShellStacks, Chosen
    <2>7. CASE EngineAgent(t)
        <3>1. /\ Goto(t, "knobs") /\ pc[t] = "agent" /\ built' = [built EXCEPT ![t].agent = agent]
              /\ UNCHANGED <<wired, preparing, unserved, agent, model>>
            BY <2>7 DEF EngineAgent
        <3>2. \A u \in Threads : pc'[u] = IF u = t THEN "knobs" ELSE pc[u]
            BY <3>1, Moved DEF Moves
        <3>3. \A u \in Threads : u # t => pc'[u] \notin Building
            BY <3>1, <3>2, OneBuilds DEF Building
        <3>4. \A u \in Threads : pc'[u] # "agent" /\ pc'[u] # "store"
            BY <3>2, <3>3 DEF Building
        <3>5. Stale => Stale'
            BY <3>1, <3>2 DEF Stale
        <3>6. built'[t].agent = agent /\ Available
            BY <1>1, <1>2, <3>1 DEF Stacks
        <3>7. \A u \in Threads : pc'[u] = "knobs" => u = t
            BY <3>3 DEF Building
        <3> QED
            BY <1>2, <3>1, <3>4, <3>5, <3>6, <3>7 DEF ShellStacks, Chosen, Available
    <2>8. CASE EngineKnobs(t)
        <3>1. /\ Goto(t, "store") /\ pc[t] = "knobs" /\ built' = [built EXCEPT ![t].model = model]
              /\ UNCHANGED <<wired, preparing, unserved, agent, model>>
            BY <2>8 DEF EngineKnobs
        <3>2. \A u \in Threads : pc'[u] = IF u = t THEN "store" ELSE pc[u]
            BY <3>1, Moved DEF Moves
        <3>3. \A u \in Threads : u # t => pc'[u] \notin Building
            BY <3>1, <3>2, OneBuilds DEF Building
        <3>4. \A u \in Threads : pc'[u] # "agent" /\ pc'[u] # "knobs"
            BY <3>2, <3>3 DEF Building
        <3>5. Stale => Stale'
            BY <3>1, <3>2 DEF Stale
        <3>6. built'[t].agent = built[t].agent /\ built'[t] = [agent |-> built[t].agent, model |-> model]
            BY <1>1, <3>1 DEF Stacks
        <3>7. \A u \in Threads : pc'[u] = "store" => u = t
            BY <3>3 DEF Building
        <3>8. built'[t].agent # NoAgent /\ (built'[t] = Chosen' \/ Stale')
            BY <1>2, <3>1, <3>5, <3>6 DEF Chosen
        <3> QED
            BY <1>2, <3>1, <3>4, <3>5, <3>7, <3>8 DEF ShellStacks, Chosen
    <2>9. CASE EngineFails(t)
        <3>1. Goto(t, "idle") /\ unserved' /\ UNCHANGED <<wired, built, agent>>
            BY <2>9 DEF EngineFails
        <3>2. \A u \in Threads : pc'[u] = IF u = t THEN "idle" ELSE pc[u]
            BY <3>1, Moved DEF Moves
        <3>3. Stale'
            BY <3>1 DEF Stale
        <3>4. \A u \in Threads : pc'[u] \in Building => pc'[u] = pc[u]
            BY <3>2 DEF Building
        <3> QED
            BY <1>4, <3>1, <3>3, <3>4 DEF Available
    <2>10. CASE WireStore(t)
        <3>1. /\ Goto(t, "idle") /\ pc[t] = "store" /\ wired' = built[t]
              /\ UNCHANGED <<preparing, unserved, agent, model>>
            BY <2>10 DEF WireStore
        <3>2. \A u \in Threads : pc'[u] = IF u = t THEN "idle" ELSE pc[u]
            BY <3>1, Moved DEF Moves
        <3>3. \A u \in Threads : pc'[u] \notin Building
            BY <3>1, <3>2, OneBuilds DEF Building
        <3>4. Stale => Stale'
            BY <3>1, <3>2 DEF Stale
        <3> QED
            BY <1>2, <3>1, <3>3, <3>4 DEF ShellStacks, Building, Chosen
    <2>11. CASE SpawnDownload(t)
        <3>1. /\ pc' = [pc EXCEPT ![t] = "idle", ![tasks + 1] = "streaming"] /\ pc[t] = "reset"
              /\ tasks < MaxTasks
              /\ UNCHANGED <<wired, built, preparing, unserved, agent, model>>
            BY <2>11 DEF SpawnDownload
        <3>2. \A u \in Threads : \/ pc'[u] \in {"idle", "streaming"} /\ pc[u] \in {"reset", "unborn"}
                                 \/ pc'[u] = pc[u]
            <4>1. tasks + 1 \in Threads /\ tasks + 1 > tasks
                BY <3>1, TasksAreCounted DEF ShellTypes, Threads
            <4>2. pc[tasks + 1] = "unborn"
                BY <4>1 DEF ShellThreads
            <4> QED
                BY <1>1, <3>1, <4>2
        <3>3. Stale => Stale'
            BY <3>1, <3>2 DEF Stale
        <3>4. \A u \in Threads : pc'[u] \in Building => pc'[u] = pc[u]
            BY <3>2 DEF Building
        <3> QED
            BY <1>4, <3>1, <3>3, <3>4 DEF Available
    <2> QED
        BY <1>11, <2>1, <2>2, <2>3, <2>4, <2>5, <2>6, <2>7, <2>8, <2>9, <2>10, <2>11
        DEF AssistShellThread
<1> QED
    BY <1>6, <1>7, <1>8, <1>9, <1>10, <1>11 DEF AssistShellNext

\* A thread goes idle and spawns a task, which is at `place` where there was none.
Spawning(t, place) == tasks < MaxTasks /\ pc' = [pc EXCEPT ![t] = "idle", ![tasks + 1] = place]

BornBy(new, t, place) ==
    /\ pc[new] = "unborn"
    /\ \A u \in Threads : pc'[u] = IF u = new THEN place ELSE IF u = t THEN "idle" ELSE pc[u]

\* Where a spawn leaves the threads: one moves, and one more there is.
LEMMA Spawned ==
    ASSUME ShellTypes, ShellThreads, NEW t \in Threads, NEW place, Spawning(t, place)
    PROVE  \E new \in Threads : BornBy(new, t, place)
<1>1. tasks + 1 \in Threads /\ tasks + 1 > tasks
    BY TasksAreCounted DEF ShellTypes, Threads, Spawning
<1>2. pc[tasks + 1] = "unborn"
    BY <1>1 DEF ShellThreads
<1>3. pc \in [Threads -> Points] /\ pc' = [pc EXCEPT ![t] = "idle", ![tasks + 1] = place]
    BY DEF ShellTypes, Spawning
<1>4. BornBy(tasks + 1, t, place)
    BY <1>1, <1>2, <1>3 DEF BornBy
<1> QED
    BY <1>1, <1>4

\* While the switch is on and nothing is wired, somebody is at it.
LEMMA ShellWantedStep ==
    ASSUME ShellTypes, ShellThreads, ShellStacks, ShellWanted, AssistShellNext
    PROVE  ShellWanted'
<1> USE DEF prefVars, downloadVars, stackVars, optionVars, Command
<1>1. 0 \in Threads
    BY TasksAreCounted DEF Threads
<1> DEFINE Wanted == switch /\ Available /\ assistModelFile /\ wired = NotWired
           Served == preparing \/ unserved \/ \E t \in Threads : pc[t] \in Wiring
<1>2. Wanted => Served
    BY DEF ShellWanted
\* Nobody stops serving, and what is wanted was.
<1>3. ASSUME NEW t \in Threads, NEW place, Moves(t, place), Wanted' => Wanted,
             UNCHANGED <<preparing, unserved>>, pc[t] \in Wiring /\ Wanted' => place \in Wiring
      PROVE  ShellWanted'
    <2>1. ASSUME Wanted', NEW u \in Threads, pc[u] \in Wiring
          PROVE  pc'[u] \in Wiring
        BY <1>3, <2>1 DEF Moves
    <2> QED
        BY <1>2, <1>3, <2>1 DEF ShellWanted
\* Somebody serves.
<1>4. ASSUME NEW t \in Threads, NEW place, Goto(t, place), place \in Wiring
      PROVE  ShellWanted'
    <2>1. pc'[t] \in Wiring
        BY <1>4, Moved DEF Moves
    <2> QED
        BY <2>1 DEF ShellWanted
<1>5. CASE SwitchOn \/ SetSessionOption
    BY <1>1, <1>4, <1>5 DEF SwitchOn, SetSessionOption, Wiring
<1>6. CASE OnGate
    <2>1. CASE assistModelFile
        BY <1>1, <1>4, <1>6, <2>1 DEF OnGate, Wiring
    <2>2. CASE ~assistModelFile
        BY <1>6, <2>2 DEF OnGate, ShellWanted
    <2> QED
        BY <2>1, <2>2
<1>7. CASE SwitchOff
    BY <1>7 DEF SwitchOff, ShellWanted
<1>8. CASE ChooseAgent
    BY <1>8 DEF ChooseAgent, ShellWanted
<1>9. CASE ClearKnobs
    <2>1. preparing /\ preparing' = preparing
        BY <1>1, <1>9 DEF ClearKnobs, ShellThreads, Installing
    <2> QED
        BY <2>1 DEF ShellWanted
<1>10. CASE ProbeOptions \/ CacheOptions
    <2>1. UNCHANGED <<switch, agent, assistModelFile, wired, preparing, unserved, pc>>
        BY <1>10 DEF ProbeOptions, CacheOptions
    <2> QED
        BY <2>1 DEF ShellWanted, Available
<1>11. ASSUME NEW t \in Threads, AssistShellThread(t)
       PROVE  ShellWanted'
    <2>1. CASE Prepare(t)
        <3>1. preparing /\ preparing' = preparing
            BY <2>1 DEF Prepare, ShellThreads, Installing
        <3> QED
            BY <3>1 DEF ShellWanted
    <2>2. CASE PrepareFails(t) \/ EngineFails(t)
        BY <2>2 DEF PrepareFails, EngineFails, ShellWanted
    <2>3. CASE Installed(t) \/ WireStart(t) \/ EngineAgent(t) \/ EngineKnobs(t)
        <3>1. \E place \in {"rewire", "agent", "knobs", "store"} : Goto(t, place)
            BY <2>3 DEF Installed, WireStart, EngineAgent, EngineKnobs
        <3> QED
            BY <1>4, <3>1 DEF Wiring
    <2>4. CASE Teardown(t)
        <3>1. CASE pc[t] = "rewire"
            BY <1>4, <2>4, <3>1 DEF Teardown, Wiring
        <3>2. CASE pc[t] # "rewire"
            <4>1. switch' => unserved'
                <5>1. pc[t] = "drop" /\ unserved' = (pc[t] = "drop" /\ switch) /\ switch' = switch
                    BY <2>4, <3>2 DEF Teardown
                <5> QED
                    BY <5>1, Zenon
            <4> QED
                BY <4>1 DEF ShellWanted
        <3> QED
            BY <3>1, <3>2
    <2>5. CASE Refresh(t)
        <3>1. CASE Available /\ switch
            BY <1>4, <2>5, <3>1 DEF Refresh, Wiring
        <3>2. CASE ~(Available /\ switch)
            BY <2>5, <3>2 DEF Refresh, ShellWanted, Available
        <3> QED
            BY <3>1, <3>2
    <2>6. CASE WireNothing(t)
        BY <2>6 DEF WireNothing, ShellWanted, Available
    <2>7. CASE WireStore(t)
        <3>1. wired' # NotWired
            BY <2>7 DEF WireStore, ShellStacks, NotWired
        <3> QED
            BY <3>1 DEF ShellWanted
    <2>8. CASE DownloadAlready(t) \/ StartDownload(t)
        <3>1. PICK place : Goto(t, place)
            BY <2>8 DEF DownloadAlready, StartDownload
        <3>2. /\ pc[t] \notin Wiring
              /\ UNCHANGED <<switch, agent, assistModelFile, wired, preparing, unserved>>
            BY <2>8 DEF DownloadAlready, StartDownload, Wiring
        <3>3. Moves(t, place)
            BY <3>1, Moved
        <3> QED
            BY <1>3, <3>2, <3>3 DEF Available
    <2>9. CASE SpawnDownload(t)
        <3>1. /\ pc[t] = "reset" /\ tasks < MaxTasks
              /\ pc' = [pc EXCEPT ![t] = "idle", ![tasks + 1] = "streaming"]
              /\ UNCHANGED <<switch, agent, assistModelFile, wired, preparing, unserved>>
            BY <2>9 DEF SpawnDownload
        <3>2. PICK new \in Threads :
                 /\ pc[new] = "unborn"
                 /\ \A u \in Threads : pc'[u] = IF u = new THEN "streaming" ELSE IF u = t THEN "idle" ELSE pc[u]
            <4>1. Spawning(t, "streaming")
                BY <3>1 DEF Spawning
            <4>2. \E new \in Threads : BornBy(new, t, "streaming")
                BY <4>1, Spawned
            <4> QED
                BY <4>2 DEF BornBy
        <3>3. \A u \in Threads : pc[u] \in Wiring => pc'[u] \in Wiring
            BY <3>1, <3>2 DEF Wiring
        <3> QED
            BY <1>2, <3>1, <3>3 DEF ShellWanted, Available
    <2>10. CASE Stream(t)
        <3>1. CASE assistModelFile' = assistModelFile
            <4>1. PICK place : Goto(t, place)
                BY <2>10 DEF Stream
            <4>2. pc[t] \notin Wiring /\ UNCHANGED <<switch, agent, wired, preparing, unserved>>
                BY <2>10 DEF Stream, Wiring
            <4>3. Moves(t, place)
                BY <4>1, Moved
            <4> QED
                BY <1>3, <3>1, <4>2, <4>3 DEF Available
        <3>2. CASE assistModelFile' # assistModelFile
            BY <1>4, <2>10, <3>2 DEF Stream, Wiring
        <3> QED
            BY <3>1, <3>2
    <2>11. CASE DownloadEnds(t)
        <3>1. PICK place : Goto(t, place) /\ (pc[t] = "completed" => place = "landed")
            BY <2>11 DEF DownloadEnds
        <3>2. /\ pc[t] \in {"completed", "cancelled", "failed"}
              /\ UNCHANGED <<switch, agent, assistModelFile, wired, preparing, unserved>>
            BY <2>11 DEF DownloadEnds
        <3>3. Moves(t, place)
            BY <3>1, Moved
        <3>4. pc[t] \in Wiring => place \in Wiring
            BY <3>1, <3>2 DEF Wiring
        <3> QED
            BY <1>3, <3>2, <3>3, <3>4 DEF Available
    <2>12. CASE AfterDownload(t)
        <3>1. PICK place : Goto(t, place) /\ (pc[t] = "landed" /\ switch => place = "wire")
            BY <2>12 DEF AfterDownload
        <3>2. /\ pc[t] \in {"landed", "stopped", "told"}
              /\ UNCHANGED <<switch, agent, assistModelFile, wired, preparing, unserved>>
            BY <2>12 DEF AfterDownload
        <3>3. Moves(t, place)
            BY <3>1, Moved
        <3>4. pc[t] \in Wiring /\ Wanted' => place \in Wiring
            BY <3>1, <3>2 DEF Wiring
        <3> QED
            BY <1>3, <3>2, <3>3, <3>4 DEF Available
    <2> QED
        BY <1>11, <2>1, <2>2, <2>3, <2>4, <2>5, <2>6, <2>7, <2>8, <2>9, <2>10, <2>11, <2>12
        DEF AssistShellThread
<1> QED
    BY <1>5, <1>6, <1>7, <1>8, <1>9, <1>10, <1>11 DEF AssistShellNext

\* Only the UI thread is at the gate, with the switch just saved.
LEMMA ShellGateStep ==
    ASSUME ShellTypes, ShellThreads, ShellGate, AssistShellNext
    PROVE  ShellGate'
<1> USE DEF prefVars, downloadVars, stackVars, optionVars, Command
<1>1. 0 \in Threads
    BY TasksAreCounted DEF Threads
<1>2. ASSUME NEW t \in Threads, NEW place, Goto(t, place), place # "on", switch' = switch \/ t = 0
      PROVE  ShellGate'
    <2>1. \A u \in Threads : pc'[u] = IF u = t THEN place ELSE pc[u]
        BY <1>2, Moved DEF Moves
    <2> QED
        BY <1>2, <2>1 DEF ShellGate
<1>3. CASE SwitchOn
    <2>1. \A u \in Threads : pc'[u] = IF u = 0 THEN "on" ELSE pc[u]
        BY <1>1, <1>3, Moved DEF Moves, SwitchOn
    <2> QED
        BY <1>3, <2>1 DEF ShellGate, SwitchOn
<1>4. CASE OnGate \/ SwitchOff \/ ChooseAgent \/ SetSessionOption
    <2>1. \E place \in Points \ {"on"} : Goto(0, place)
        BY <1>4 DEF OnGate, SwitchOff, ChooseAgent, SetSessionOption,
           Points, Fetching, Downloading, Wiring, Installing
    <2> QED
        BY <1>1, <1>2, <2>1
<1>5. CASE ClearKnobs
    <2>1. /\ switch' = switch /\ tasks < MaxTasks
          /\ pc' = [pc EXCEPT ![0] = "idle", ![tasks + 1] = "installing"]
        BY <1>5 DEF ClearKnobs
    <2>2. PICK new \in Threads :
             /\ pc[new] = "unborn"
             /\ \A u \in Threads : pc'[u] = IF u = new THEN "installing" ELSE IF u = 0 THEN "idle" ELSE pc[u]
        <3>1. Spawning(0, "installing")
            BY <2>1 DEF Spawning
        <3>2. \E new \in Threads : BornBy(new, 0, "installing")
            BY <1>1, <3>1, Spawned
        <3> QED
            BY <3>2 DEF BornBy
    <2> QED
        BY <2>1, <2>2 DEF ShellGate
<1>6. CASE ProbeOptions \/ CacheOptions
    BY <1>6 DEF ProbeOptions, CacheOptions, ShellGate
<1>7. ASSUME NEW t \in Threads, AssistShellThread(t)
      PROVE  ShellGate'
    <2>1. CASE SpawnDownload(t)
        <3>1. /\ switch' = switch /\ tasks < MaxTasks
              /\ pc' = [pc EXCEPT ![t] = "idle", ![tasks + 1] = "streaming"]
            BY <2>1 DEF SpawnDownload
        <3>2. PICK new \in Threads :
                 /\ pc[new] = "unborn"
                 /\ \A u \in Threads : pc'[u] = IF u = new THEN "streaming" ELSE IF u = t THEN "idle" ELSE pc[u]
            <4>1. Spawning(t, "streaming")
                BY <3>1 DEF Spawning
            <4>2. \E new \in Threads : BornBy(new, t, "streaming")
                BY <4>1, Spawned
            <4> QED
                BY <4>2 DEF BornBy
        <3> QED
            BY <3>1, <3>2 DEF ShellGate
    <2>2. CASE ~SpawnDownload(t)
        <3>1. switch' = switch /\ \E place \in Points \ {"on"} : Goto(t, place)
            BY <1>7, <2>2
            DEF AssistShellThread, Prepare, Installed, PrepareFails, Teardown, Refresh, WireNothing,
                WireStart, EngineAgent, EngineKnobs, EngineFails, WireStore, DownloadAlready,
                StartDownload, Stream, DownloadEnds, AfterDownload,
                Points, Fetching, Downloading, Wiring, Installing
        <3> QED
            BY <1>2, <3>1
    <2> QED
        BY <2>1, <2>2
<1> QED
    BY <1>3, <1>4, <1>5, <1>6, <1>7 DEF AssistShellNext

\* A download that is owed has somebody who will fetch it.
LEMMA ShellOwedStep ==
    ASSUME ShellTypes, ShellThreads, ShellGate, ShellOwed, AssistShellNext
    PROVE  ShellOwed'
<1> USE DEF prefVars, downloadVars, stackVars, optionVars, Command
<1>1. 0 \in Threads
    BY TasksAreCounted DEF Threads
<1> DEFINE Landing == {"completed", "landed"}
<1>2. owed => /\ switch
              /\ \E t \in Threads : pc[t] \in Fetching
              /\ assistModelFile => \E t \in Threads : pc[t] \in Landing
    BY DEF ShellOwed
\* Whoever fetches goes on with it.
<1>3. ASSUME NEW t \in Threads, NEW place, Moves(t, place),
             owed' => owed /\ switch', UNCHANGED assistModelFile,
             pc[t] \in Fetching => place \in Fetching,
             pc[t] \in Landing => place \in Landing
      PROVE  ShellOwed'
    <2>1. \A u \in Threads : pc[u] \in Fetching => pc'[u] \in Fetching
        BY <1>3 DEF Moves
    <2>2. \A u \in Threads : pc[u] \in Landing => pc'[u] \in Landing
        BY <1>3 DEF Moves
    <2> QED
        BY <1>2, <1>3, <2>1, <2>2 DEF ShellOwed
<1>4. ASSUME NEW t \in Threads, NEW place, Goto(t, place), pc[t] \notin Fetching,
             owed' => owed /\ switch', UNCHANGED assistModelFile
      PROVE  ShellOwed'
    <2>1. pc[t] \notin Landing
        BY <1>4 DEF Fetching, Downloading
    <2> QED
        BY <1>3, <1>4, <2>1, Moved
<1>5. CASE SwitchOn \/ SwitchOff \/ SetSessionOption \/ ChooseAgent
    <2>1. PICK place : Goto(0, place)
        BY <1>5 DEF SwitchOn, SwitchOff, SetSessionOption, ChooseAgent
    <2>2. pc[0] = "idle" /\ UNCHANGED assistModelFile /\ (owed' => owed /\ switch')
        BY <1>2, <1>5 DEF SwitchOn, SwitchOff, SetSessionOption, ChooseAgent
    <2> QED
        BY <1>1, <1>4, <2>1, <2>2 DEF Fetching, Downloading
<1>6. CASE OnGate
    <2>1. pc[0] = "on" /\ UNCHANGED <<switch, assistModelFile>>
        BY <1>6 DEF OnGate
    <2>2. CASE assistModelFile
        <3>1. Goto(0, "wire") /\ (owed' => owed)
            <4>1. owed' = (owed \/ ~assistModelFile)
                BY <1>6 DEF OnGate
            <4>2. owed' => owed
                BY <2>2, <4>1, Zenon
            <4> QED
                BY <1>6, <2>2, <4>2 DEF OnGate
        <3> QED
            BY <1>1, <1>2, <1>4, <2>1, <3>1 DEF Fetching, Downloading
    <2>3. CASE ~assistModelFile
        <3>1. Goto(0, "start")
            BY <1>6, <2>3 DEF OnGate
        <3>2. pc'[0] = "start"
            BY <1>1, <3>1, Moved DEF Moves
        <3>3. switch'
            BY <1>1, <2>1 DEF ShellGate
        <3> QED
            BY <1>1, <2>1, <2>3, <3>2, <3>3 DEF ShellOwed, Fetching
    <2> QED
        BY <2>2, <2>3
<1>7. CASE ClearKnobs
    <2>1. /\ pc[0] = "clear" /\ tasks < MaxTasks
          /\ pc' = [pc EXCEPT ![0] = "idle", ![tasks + 1] = "installing"]
          /\ UNCHANGED <<owed, switch, assistModelFile>>
        BY <1>7 DEF ClearKnobs
    <2>2. PICK new \in Threads :
             /\ pc[new] = "unborn"
             /\ \A u \in Threads : pc'[u] = IF u = new THEN "installing" ELSE IF u = 0 THEN "idle" ELSE pc[u]
        <3>1. Spawning(0, "installing")
            BY <2>1 DEF Spawning
        <3>2. \E new \in Threads : BornBy(new, 0, "installing")
            BY <1>1, <3>1, Spawned
        <3> QED
            BY <3>2 DEF BornBy
    <2>3. \A u \in Threads : pc[u] \in Fetching => pc'[u] = pc[u]
        BY <2>1, <2>2 DEF Fetching, Downloading
    <2>4. \A u \in Threads : pc[u] \in Landing => pc'[u] = pc[u]
        BY <2>1, <2>2
    <2> QED
        BY <1>2, <2>1, <2>3, <2>4 DEF ShellOwed
<1>8. CASE ProbeOptions \/ CacheOptions
    BY <1>2, <1>8 DEF ProbeOptions, CacheOptions, ShellOwed
<1>9. ASSUME NEW t \in Threads, AssistShellThread(t)
      PROVE  ShellOwed'
    <2>1. CASE Prepare(t) \/ Installed(t) \/ PrepareFails(t) \/ Teardown(t) \/ Refresh(t) \/ WireNothing(t)
                \/ WireStart(t) \/ EngineAgent(t) \/ EngineKnobs(t) \/ EngineFails(t) \/ WireStore(t)
        <3>1. PICK place : Goto(t, place)
            BY <2>1 DEF Prepare, Installed, PrepareFails, Teardown, Refresh, WireNothing,
               WireStart, EngineAgent, EngineKnobs, EngineFails, WireStore
        <3>2. pc[t] \notin Fetching /\ UNCHANGED <<owed, switch, assistModelFile>>
            BY <2>1 DEF Prepare, Installed, PrepareFails, Teardown, Refresh, WireNothing,
               WireStart, EngineAgent, EngineKnobs, EngineFails, WireStore, Fetching, Downloading
        <3> QED
            BY <1>2, <1>4, <3>1, <3>2
    <2>2. CASE DownloadAlready(t)
        <3>1. /\ Goto(t, "idle") /\ pc[t] = "start" /\ downloading
              /\ UNCHANGED <<owed, switch, assistModelFile>>
            BY <2>2 DEF DownloadAlready
        <3>2. PICK v \in Threads : pc[v] \in Downloading
            BY <3>1 DEF ShellThreads
        <3>3. \A u \in Threads : pc'[u] = IF u = t THEN "idle" ELSE pc[u]
            BY <3>1, Moved DEF Moves
        <3>4. pc'[v] \in Fetching
            BY <3>1, <3>2, <3>3 DEF Fetching, Downloading
        <3>5. \A u \in Threads : pc[u] \in Landing => pc'[u] \in Landing
            BY <3>1, <3>3
        <3> QED
            BY <1>2, <3>1, <3>4, <3>5 DEF ShellOwed
    <2>3. CASE StartDownload(t)
        <3>1. /\ Goto(t, "reset") /\ pc[t] = "start" /\ UNCHANGED <<owed, switch, assistModelFile>>
            BY <2>3 DEF StartDownload
        <3>2. Moves(t, "reset")
            BY <3>1, Moved
        <3> QED
            BY <1>2, <1>3, <3>1, <3>2 DEF Fetching, Downloading
    <2>4. CASE SpawnDownload(t)
        <3>1. /\ pc[t] = "reset" /\ tasks < MaxTasks
              /\ pc' = [pc EXCEPT ![t] = "idle", ![tasks + 1] = "streaming"]
              /\ UNCHANGED <<owed, switch, assistModelFile>>
            BY <2>4 DEF SpawnDownload
        <3>2. PICK new \in Threads :
                 /\ pc[new] = "unborn"
                 /\ \A u \in Threads : pc'[u] = IF u = new THEN "streaming" ELSE IF u = t THEN "idle" ELSE pc[u]
            <4>1. Spawning(t, "streaming")
                BY <3>1 DEF Spawning
            <4>2. \E new \in Threads : BornBy(new, t, "streaming")
                BY <4>1, Spawned
            <4> QED
                BY <4>2 DEF BornBy
        <3>3. pc'[new] \in Fetching
            BY <3>2 DEF Fetching, Downloading
        <3>4. \A u \in Threads : pc[u] \in Landing => pc'[u] \in Landing
            BY <3>1, <3>2
        <3> QED
            BY <1>2, <3>1, <3>3, <3>4 DEF ShellOwed
    <2>5. CASE Stream(t)
        <3>1. PICK place \in {"completed", "cancelled", "failed"} :
                 Goto(t, place) /\ (place = "completed" \/ assistModelFile' = assistModelFile)
            BY <2>5 DEF Stream
        <3>2. pc[t] = "streaming" /\ UNCHANGED <<owed, switch>>
            BY <2>5 DEF Stream
        <3>3. \A u \in Threads : pc'[u] = IF u = t THEN place ELSE pc[u]
            BY <3>1, Moved DEF Moves
        <3>4. pc'[t] = place /\ place \in Fetching
            BY <3>1, <3>3 DEF Fetching, Downloading
        <3>5. CASE place = "completed"
            BY <1>2, <3>2, <3>4, <3>5 DEF ShellOwed
        <3>6. CASE assistModelFile' = assistModelFile
            <4>1. \A u \in Threads : pc[u] \in Landing => pc'[u] \in Landing
                BY <3>2, <3>3
            <4> QED
                BY <1>2, <3>2, <3>4, <3>6, <4>1 DEF ShellOwed
        <3> QED
            BY <3>1, <3>5, <3>6
    <2>6. CASE DownloadEnds(t)
        <3>1. PICK place \in {"landed", "stopped", "told"} :
                 Goto(t, place) /\ (pc[t] = "completed" => place = "landed")
            BY <2>6 DEF DownloadEnds
        <3>2. /\ pc[t] \in {"completed", "cancelled", "failed"}
              /\ UNCHANGED <<owed, switch, assistModelFile>>
            BY <2>6 DEF DownloadEnds
        <3>3. Moves(t, place)
            BY <3>1, Moved
        <3>4. place \in Fetching /\ (pc[t] \in Landing => place \in Landing)
            BY <3>1, <3>2 DEF Fetching
        <3> QED
            BY <1>2, <1>3, <3>2, <3>3, <3>4
    <2>7. CASE AfterDownload(t)
        <3>1. CASE owed' = FALSE
            BY <3>1 DEF ShellOwed
        <3>2. CASE pc[t] = "stopped"
            <4>1. /\ Goto(t, IF switch /\ ~assistModelFile THEN "start" ELSE "idle")
                  /\ UNCHANGED <<owed, switch, assistModelFile>>
                BY <2>7, <3>2 DEF AfterDownload
            <4>2. CASE switch /\ ~assistModelFile
                <5>1. pc'[t] = "start"
                    BY <4>1, <4>2, Moved DEF Moves
                <5> QED
                    BY <4>1, <4>2, <5>1 DEF ShellOwed, Fetching
            <4>3. CASE ~(switch /\ ~assistModelFile)
                <5>1. \A u \in Threads : pc'[u] = IF u = t THEN "idle" ELSE pc[u]
                    BY <4>1, <4>3, Moved DEF Moves
                <5>2. \A u \in Threads : pc[u] \in Landing => pc'[u] \in Landing
                    BY <3>2, <5>1
                <5>3. \A u \in Threads : pc'[u] \in Landing => pc'[u] \in Fetching
                    BY DEF Fetching, Downloading
                <5> QED
                    BY <1>2, <4>1, <4>3, <5>2, <5>3 DEF ShellOwed
            <4> QED
                BY <4>2, <4>3
        <3> QED
            BY <2>7, <3>1, <3>2 DEF AfterDownload
    <2> QED
        BY <1>9, <2>1, <2>2, <2>3, <2>4, <2>5, <2>6, <2>7 DEF AssistShellThread
<1> QED
    BY <1>5, <1>6, <1>7, <1>8, <1>9 DEF AssistShellNext

\* At launch nothing is wired, installed or downloaded.
LEMMA ShellStart == AssistShellInit => ShellInv
<1> SUFFICES ASSUME AssistShellInit PROVE ShellInv
    OBVIOUS
<1>1. /\ pc = [t \in Threads |-> CASE t = 0 -> IF switch THEN "wire" ELSE "idle" [] OTHER -> "unborn"]
      /\ wired = NotWired /\ lock = -1 /\ built = [t \in Threads |-> NotWired]
      /\ preparing = FALSE /\ downloading = FALSE /\ tasks = 0 /\ owed = FALSE /\ unserved = FALSE
      /\ agent \in Agents \cup {NoAgent} /\ model = "default"
    BY DEF AssistShellInit
<1>2. 0 \in Threads /\ \A t \in Threads : t > 0 => t # 0
    BY TasksAreCounted DEF Threads
<1>3. \A t \in Threads : t # -1
    BY DEF Threads
<1>4. \A t \in Threads : pc[t] = IF t = 0 THEN IF switch THEN "wire" ELSE "idle" ELSE "unborn"
    BY <1>1
<1>5. \A t \in Threads : pc[t] \in {"wire", "idle", "unborn"}
    BY <1>4
<1>6. NotWired \in Stacks
    BY DEF NotWired, Stacks, Models
<1>7. ShellTypes
    <2>1. pc \in [Threads -> Points]
        BY <1>1, <1>5 DEF Points, Wiring
    <2>2. model \in Models
        BY <1>1 DEF Models
    <2>3. built \in [Threads -> Stacks]
        BY <1>1, <1>6
    <2> QED
        BY <1>1, <1>6, <2>1, <2>2, <2>3 DEF ShellTypes
<1>8. ShellThreads
    <2>1. \A t \in Threads : pc[t] \notin Building /\ pc[t] \notin Installing /\ pc[t] \notin Downloading
        BY <1>5 DEF Building, Installing, Downloading
    <2>2. \A t \in Threads : t > tasks => pc[t] = "unborn"
        BY <1>1, <1>2, <1>4
    <2> QED
        BY <1>1, <1>3, <2>1, <2>2 DEF ShellThreads
<1>9. ShellStacks /\ ShellGate /\ ShellOwed
    BY <1>1, <1>5 DEF ShellStacks, ShellGate, ShellOwed
<1>10. ShellWanted
    BY <1>2, <1>4 DEF ShellWanted, Wiring
<1> QED
    BY <1>7, <1>8, <1>9, <1>10 DEF ShellInv

\* Every step of every thread of the shell keeps the invariant.
LEMMA ShellStep == ShellInv /\ [AssistShellNext]_assistShellVars => ShellInv'
<1>1. ShellInv /\ AssistShellNext => ShellInv'
    BY ShellTypesStep, ShellThreadsStep, ShellStacksStep, ShellWantedStep, ShellOwedStep, ShellGateStep
    DEF ShellInv
<1>2. ShellInv /\ UNCHANGED assistShellVars => ShellInv'
    <2> SUFFICES ASSUME ShellInv, UNCHANGED assistShellVars PROVE ShellInv'
        OBVIOUS
    <2> USE DEF assistShellVars
    <2>1. ShellTypes'
        BY DEF ShellInv, ShellTypes
    <2>2. ShellThreads'
        BY DEF ShellInv, ShellThreads, Available
    <2>3. ShellStacks'
        BY DEF ShellInv, ShellStacks, Available, Chosen, Stale
    <2>4. ShellWanted' /\ ShellOwed' /\ ShellGate'
        BY DEF ShellInv, ShellWanted, ShellOwed, ShellGate, Available
    <2> QED
        BY <2>1, <2>2, <2>3, <2>4 DEF ShellInv
<1> QED
    BY <1>1, <1>2

\* The promise of the shell is a consequence of its invariant.
LEMMA ShellServes == ShellInv => ShellServesTheSwitch
<1> SUFFICES ASSUME ShellInv PROVE ShellServesTheSwitch
    OBVIOUS
<1>1. Settled => \A t \in Threads : pc[t] \in {"unborn", "idle", "streaming", "installing"}
    BY DEF Settled, IdlePoints
<1>2. StackIsTheChosenOne
    BY <1>1 DEF ShellInv, ShellStacks, StackIsTheChosenOne, Chosen, Stale
<1>3. WantedIsRunning
    BY <1>1 DEF ShellInv, ShellWanted, WantedIsRunning, Wiring
<1>4. WantedIsFetched
    BY <1>1 DEF ShellInv, ShellOwed, WantedIsFetched, Fetching, Downloading
<1> QED
    BY <1>2, <1>3, <1>4 DEF ShellServesTheSwitch

\* ShellServesTheSwitch: once everyone has returned, the stack that runs is the one the
\* preferences name, it runs when it is wanted and can, and a model that is owed is being
\* fetched.
THEOREM ShellIsSound == AssistShellSpec => []ShellServesTheSwitch
BY ShellStart, ShellStep, ShellServes, PTL DEF AssistShellSpec

-----------------------------------------------------------------------------
(* A session with the agent: the inductive invariant.                      *)

AgentChunks == [turn : Nat, kind : {"text", "thought"}]

AgentTypes ==
  /\ agentAt \in {"absent", "idle", "prompting"}
  /\ agentTurn \in Nat /\ prompted \in BOOLEAN /\ reply \in {"none", "ok", "error", "timeout"}
  /\ output \in Seq(AgentChunks) /\ answer \in Seq(Nat) /\ uttered \in Seq(Nat)

\* What was collected and what is on its way is what the agent said, all of it in reply
\* to the prompt in hand; nothing is on its way between prompts.
AnswerFollows ==
  /\ answer \o TextOfEvents(output) = uttered
  /\ \A i \in 1 .. Len(uttered) : uttered[i] = agentTurn
  /\ agentAt # "prompting" => output = <<>>
  /\ result.kind = "answer" => result.text = result.uttered

\* The instructions went out with the first turns, and with all of them while they are
\* kept for the next.
InstructionsFollow ==
  /\ \E n \in 0 .. agentTurn : instructions = 1 .. n
  /\ prompted => instructions = 1 .. agentTurn
  /\ agentAt = "absent" => agentTurn = 0 /\ instructions = {}

AgentInv == AgentTypes /\ AnswerFollows /\ InstructionsFollow

TextOfOne(e) == IF e.kind = "text" THEN <<e.turn>> ELSE <<>>
TextOfAgent == [e \in AgentChunks |-> TextOfOne(e)]

\* The text of a queue of agent events is the text of each, joined in order.
LEMMA TextIsMapped ==
  /\ TextOfAgent \in Maps(AgentChunks, Seq(Nat))
  /\ \A e \in AgentChunks : TextOfAgent[e] = TextOfOne(e) /\ TextOfOne(e) \in Seq(Nat)
  /\ \A q \in Seq(AgentChunks) : TextOfEvents(q) = FlattenSeq(Mapped(q, TextOfAgent))
<1>1. ASSUME NEW e \in AgentChunks PROVE TextOfOne(e) \in Seq(Nat)
    <2>1. e.turn \in Nat
        BY DEF AgentChunks
    <2>2. <<e.turn>> \in Seq(Nat) /\ <<>> \in Seq(Nat)
        BY <2>1
    <2> QED
        BY <2>2 DEF TextOfOne
<1>2. TextOfAgent \in Maps(AgentChunks, Seq(Nat)) /\ \A e \in AgentChunks : TextOfAgent[e] = TextOfOne(e)
    BY <1>1 DEF Maps, TextOfAgent
<1>3. ASSUME NEW q \in Seq(AgentChunks) PROVE TextOfEvents(q) = FlattenSeq(Mapped(q, TextOfAgent))
    <2>1. \A i \in DOMAIN q : q[i] \in AgentChunks
        BY QueueOps
    <2>2. \A i \in DOMAIN q : TextOfAgent[q[i]] = IF q[i].kind = "text" THEN <<q[i].turn>> ELSE <<>>
        BY <1>2, <2>1 DEF TextOfOne
    <2>3. Mapped(q, TextOfAgent) = [i \in DOMAIN q |-> IF q[i].kind = "text" THEN <<q[i].turn>> ELSE <<>>]
        BY <2>2 DEF Mapped
    <2> QED
        BY <2>3 DEF TextOfEvents
<1> QED
    BY <1>1, <1>2, <1>3

\* The text of a channel, from either end.
LEMMA TextGoesOn ==
  ASSUME NEW q \in Seq(AgentChunks)
  PROVE  /\ TextOfEvents(q) \in Seq(Nat)
         /\ \A e \in AgentChunks : TextOfEvents(Append(q, e)) = TextOfEvents(q) \o TextOfOne(e)
         /\ q # <<>> => TextOfEvents(q) = TextOfOne(Head(q)) \o TextOfEvents(Tail(q))
<1>1. Mapped(q, TextOfAgent) \in Seq(Seq(Nat)) /\ TextOfEvents(q) = FlattenSeq(Mapped(q, TextOfAgent))
    BY TextIsMapped, MappedQueue
<1>2. TextOfEvents(q) \in Seq(Nat)
    BY <1>1, FlattenKind
<1>3. ASSUME NEW e \in AgentChunks
      PROVE  TextOfEvents(Append(q, e)) = TextOfEvents(q) \o TextOfOne(e)
    <2>1. Append(q, e) \in Seq(AgentChunks)
        BY QueueOps
    <2>2. TextOfEvents(Append(q, e)) = FlattenSeq(Append(Mapped(q, TextOfAgent), TextOfAgent[e]))
        BY <2>1, TextIsMapped, MappedAppend
    <2>3. TextOfAgent[e] = TextOfOne(e) /\ TextOfOne(e) \in Seq(Nat)
        BY TextIsMapped
    <2> QED
        BY <1>1, <2>2, <2>3, FlattenAppend
<1>4. ASSUME q # <<>>
      PROVE  TextOfEvents(q) = TextOfOne(Head(q)) \o TextOfEvents(Tail(q))
    <2>1. Head(q) \in AgentChunks /\ Tail(q) \in Seq(AgentChunks)
        BY <1>4, QueueOps
    <2>2. /\ Mapped(q, TextOfAgent) # <<>> /\ Head(Mapped(q, TextOfAgent)) = TextOfOne(Head(q))
          /\ Tail(Mapped(q, TextOfAgent)) = Mapped(Tail(q), TextOfAgent)
        BY <1>4, <2>1, TextIsMapped, MappedTail
    <2>3. TextOfEvents(Tail(q)) = FlattenSeq(Mapped(Tail(q), TextOfAgent))
        BY <2>1, TextIsMapped
    <2> QED
        BY <1>1, <2>2, <2>3, FlattenHead
<1> QED
    BY <1>2, <1>3, <1>4

\* An empty queue holds no text.
LEMMA NoTextOfNothing == TextOfEvents(<<>>) = <<>>
BY FlatIs, EmptySeq DEF TextOfEvents, FlattenSeq

\* Nothing has been said at first.
LEMMA AgentStart == AgentInit => AgentInv
<1> SUFFICES ASSUME AgentInit PROVE AgentInv
    OBVIOUS
<1>1. <<>> \in Seq(AgentChunks) /\ <<>> \in Seq(Nat) /\ Len(<<>>) = 0
    OBVIOUS
<1>2. AgentTypes
    BY <1>1 DEF AgentTypes, AgentInit
<1>3. AnswerFollows
    <2>1. <<>> \o <<>> = <<>>
        BY ConcatEmptySeq, <1>1
    <2>2. answer \o TextOfEvents(output) = uttered
        BY <2>1, NoTextOfNothing DEF AgentInit
    <2>3. 1 .. Len(uttered) = {}
        BY <1>1 DEF AgentInit
    <2> QED
        BY <2>2, <2>3 DEF AnswerFollows, AgentInit, NoResult
<1>4. InstructionsFollow
    <2>1. instructions = 1 .. 0 /\ 0 \in 0 .. agentTurn
        BY DEF AgentInit
    <2> QED
        BY <2>1 DEF InstructionsFollow, AgentInit
<1> QED
    BY <1>2, <1>3, <1>4 DEF AgentInv

\* A word more, collected or said.
LEMMA AnswerFollowsStep ==
  ASSUME AgentTypes, AnswerFollows, AgentNext
  PROVE  AgentTypes' /\ AnswerFollows'
<1> USE DEF AgentNext
<1>0. /\ output \in Seq(AgentChunks) /\ answer \in Seq(Nat) /\ uttered \in Seq(Nat) /\ agentTurn \in Nat
      /\ <<>> \in Seq(AgentChunks) /\ <<>> \in Seq(Nat)
      /\ TextOfEvents(output) \in Seq(Nat) /\ Len(uttered) \in Nat
    BY TextGoesOn, LenProperties DEF AgentTypes
<1>1. CASE BeginSession \/ PromptEnds
    BY <1>1 DEF BeginSession, PromptEnds, AgentTypes, AnswerFollows
<1>2. CASE SendInput \/ DropSession
    <2>1. output' = <<>> /\ answer' = <<>> /\ uttered' = <<>>
        BY <1>2 DEF SendInput, DropSession, AnswerFollows
    <2>2. answer' \o TextOfEvents(output') = uttered'
        BY <1>0, <2>1, NoTextOfNothing, ConcatEmptySeq
    <2>3. 1 .. Len(uttered') = {}
        BY <2>1
    <2>4. result'.kind # "answer"
        BY <1>2 DEF SendInput, DropSession, NoResult
    <2>5. AgentTypes'
        <3>1. agentTurn' \in Nat
            BY <1>0, <1>2 DEF SendInput, DropSession
        <3> QED
            BY <1>0, <1>2, <2>1, <3>1 DEF SendInput, DropSession, AgentTypes
    <2> QED
        BY <2>1, <2>2, <2>3, <2>4, <2>5 DEF AnswerFollows
<1>3. CASE AgentSays
    <2>1. PICK kind \in {"text", "thought"} :
             /\ output' = Append(output, [turn |-> agentTurn, kind |-> kind])
             /\ uttered' = IF kind = "text" THEN Append(uttered, agentTurn) ELSE uttered
        BY <1>3 DEF AgentSays
    <2> DEFINE e == [turn |-> agentTurn, kind |-> kind]
    <2>2. e \in AgentChunks /\ TextOfOne(e) = IF kind = "text" THEN <<agentTurn>> ELSE <<>>
        BY <1>0 DEF AgentChunks, TextOfOne
    <2> HIDE DEF e
    <2>3. /\ output' \in Seq(AgentChunks)
          /\ TextOfEvents(output') = TextOfEvents(output) \o TextOfOne(e)
        BY <1>0, <2>1, <2>2, TextGoesOn, QueueOps DEF e
    <2>4. TextOfOne(e) \in Seq(Nat) /\ uttered' = uttered \o TextOfOne(e)
        <3>1. CASE kind = "text"
            <4>1. Append(uttered, agentTurn) = uttered \o <<agentTurn>> /\ <<agentTurn>> \in Seq(Nat)
                BY <1>0, AppendIsConcat
            <4> QED
                BY <2>1, <2>2, <3>1, <4>1
        <3>2. CASE kind # "text"
            <4>1. uttered \o <<>> = uttered
                BY <1>0, ConcatEmptySeq
            <4> QED
                BY <1>0, <2>1, <2>2, <3>2, <4>1
        <3> QED
            BY <3>1, <3>2
    <2>5. answer' \o TextOfEvents(output') = uttered'
        <3> DEFINE a == answer
                   b == TextOfEvents(output)
                   t == TextOfOne(e)
        <3>1. (a \o b) \o t = a \o (b \o t)
            <4>1. a \in Seq(Nat) /\ b \in Seq(Nat) /\ t \in Seq(Nat)
                BY <1>0, <2>4
            <4> HIDE DEF a, b, t
            <4> QED
                BY <4>1, JoinedInOrder
        <3>2. a \o b = uttered /\ answer' = a
            BY <1>3 DEF AnswerFollows, AgentSays
        <3> QED
            BY <2>3, <2>4, <3>1, <3>2, Zenon
    <2>6. uttered' \in Seq(Nat) /\ \A i \in 1 .. Len(uttered') : uttered'[i] = agentTurn
        <3>1. /\ Append(uttered, agentTurn) \in Seq(Nat) /\ Len(Append(uttered, agentTurn)) = Len(uttered) + 1
              /\ Append(uttered, agentTurn)[Len(uttered) + 1] = agentTurn
              /\ \A i \in 1 .. Len(uttered) : Append(uttered, agentTurn)[i] = uttered[i]
            BY <1>0, AppendProperties
        <3>2. \A i \in 1 .. Len(uttered) : uttered[i] = agentTurn
            BY DEF AnswerFollows
        <3>3. \A i \in 1 .. Len(uttered) + 1 : i = Len(uttered) + 1 \/ i \in 1 .. Len(uttered)
            BY <1>0
        <3> QED
            BY <1>0, <2>1, <3>1, <3>2, <3>3
    <2>7. UNCHANGED <<agentAt, agentTurn, prompted, reply, answer, result>>
        BY <1>3 DEF AgentSays
    <2>8. agentAt = "prompting"
        BY <1>3 DEF AgentSays
    <2>9. AgentTypes'
        BY <2>3, <2>6, <2>7 DEF AgentTypes
    <2> QED
        BY <2>5, <2>6, <2>7, <2>8, <2>9 DEF AnswerFollows
<1>4. CASE CollectEvent
    <2>1. output # <<>> /\ Head(output) \in AgentChunks /\ Tail(output) \in Seq(AgentChunks)
        BY <1>0, <1>4, QueueOps DEF CollectEvent
    <2> DEFINE a == answer
               b == TextOfOne(Head(output))
               t == TextOfEvents(Tail(output))
    <2>2. b \in Seq(Nat) /\ TextOfEvents(<<Head(output)>>) = b
        <3>1. Append(<<>>, Head(output)) = <<Head(output)>>
            BY <2>1
        <3>2. TextOfEvents(Append(<<>>, Head(output))) = TextOfEvents(<<>>) \o TextOfOne(Head(output))
            BY <1>0, <2>1, TextGoesOn
        <3>3. b \in Seq(Nat)
            <4>1. Head(output).turn \in Nat
                BY <2>1 DEF AgentChunks
            <4>2. <<Head(output).turn>> \in Seq(Nat)
                BY <4>1
            <4> QED
                BY <1>0, <4>2 DEF TextOfOne
        <3>4. <<>> \o b = b
            BY <3>3, ConcatEmptySeq
        <3> QED
            BY <3>1, <3>2, <3>3, <3>4, NoTextOfNothing
    <2>3. t \in Seq(Nat) /\ TextOfEvents(output) = b \o t
        BY <1>0, <2>1, TextGoesOn
    <2>4. (a \o b) \o t = a \o (b \o t) /\ a \o b \in Seq(Nat)
        <3>1. a \in Seq(Nat)
            BY <1>0
        <3> HIDE DEF a, b, t
        <3> QED
            BY <2>2, <2>3, <3>1, JoinedInOrder, ConcatProperties
    <2>5. answer' = a \o b /\ output' = Tail(output) /\ UNCHANGED uttered
        BY <1>4, <2>2 DEF CollectEvent
    <2>6. answer' \o TextOfEvents(output') = uttered'
        <3>1. a \o (b \o t) = uttered
            BY <2>3 DEF AnswerFollows
        <3> QED
            BY <2>4, <2>5, <3>1, Zenon
    <2>7. answer' \in Seq(Nat) /\ output' \in Seq(AgentChunks)
        BY <2>1, <2>4, <2>5
    <2>8. agentAt = "prompting" /\ UNCHANGED <<agentAt, agentTurn, prompted, reply, result>>
        BY <1>4 DEF CollectEvent
    <2>9. AgentTypes'
        BY <2>5, <2>7, <2>8 DEF AgentTypes
    <2> QED
        BY <2>5, <2>6, <2>8, <2>9 DEF AnswerFollows
<1>5. CASE FinishTurn
    <2>1. answer' = uttered /\ output' = <<>> /\ UNCHANGED uttered
        BY <1>5 DEF FinishTurn, AnswerFollows
    <2>2. answer' \o TextOfEvents(output') = uttered'
        BY <1>0, <2>1, NoTextOfNothing, ConcatEmptySeq
    <2>3. result'.kind = "answer" => result'.text = result'.uttered
        <3>1. reply \in {"ok", "error", "timeout"}
            BY <1>5 DEF FinishTurn, AgentTypes
        <3>2. result' = Outcome(uttered)
            BY <1>5, <2>1 DEF FinishTurn
        <3> QED
            BY <3>1, <3>2 DEF Outcome
    <2>4. prompted' \in BOOLEAN /\ agentAt' = "idle" /\ UNCHANGED <<agentTurn, reply>>
        BY <1>5 DEF FinishTurn
    <2>5. AgentTypes'
        BY <1>0, <2>1, <2>4 DEF AgentTypes
    <2> QED
        BY <2>1, <2>2, <2>3, <2>4, <2>5 DEF AnswerFollows
<1> QED
    BY <1>1, <1>2, <1>3, <1>4, <1>5

\* One turn more with the instructions, or without.
LEMMA InstructionsStep ==
  ASSUME AgentTypes, InstructionsFollow, AgentNext
  PROVE  InstructionsFollow'
<1> USE DEF AgentNext
<1>0. agentTurn \in Nat
    BY DEF AgentTypes
<1>1. CASE BeginSession
    <2>1. instructions = 1 .. agentTurn
        BY <1>1 DEF BeginSession, InstructionsFollow
    <2> QED
        BY <1>1, <2>1 DEF BeginSession, InstructionsFollow
<1>2. CASE SendInput
    <2>1. agentTurn' = agentTurn + 1 /\ UNCHANGED prompted /\ agentAt' = "prompting"
        BY <1>2 DEF SendInput
    <2>2. CASE prompted
        <3>1. instructions = 1 .. agentTurn /\ instructions' = instructions \cup {agentTurn + 1}
            BY <1>2, <2>2 DEF SendInput, InstructionsFollow
        <3>2. (1 .. agentTurn) \cup {agentTurn + 1} = 1 .. agentTurn + 1
            BY <1>0
        <3>3. agentTurn + 1 \in 0 .. agentTurn + 1
            BY <1>0
        <3> QED
            BY <2>1, <3>1, <3>2, <3>3 DEF InstructionsFollow
    <2>3. CASE ~prompted
        <3>1. UNCHANGED instructions
            BY <1>2, <2>3 DEF SendInput
        <3>2. PICK n \in 0 .. agentTurn : instructions = 1 .. n
            BY DEF InstructionsFollow
        <3>3. n \in 0 .. agentTurn + 1
            BY <1>0
        <3> QED
            BY <2>1, <2>3, <3>1, <3>2, <3>3 DEF InstructionsFollow
    <2> QED
        BY <2>2, <2>3
<1>3. CASE AgentSays \/ PromptEnds \/ CollectEvent
    BY <1>3 DEF AgentSays, PromptEnds, CollectEvent, InstructionsFollow
<1>4. CASE FinishTurn
    BY <1>4 DEF FinishTurn, InstructionsFollow
<1>5. CASE DropSession
    <2>1. 1 .. 0 = {} /\ 0 \in 0 .. 0
        OBVIOUS
    <2> QED
        BY <1>5, <2>1 DEF DropSession, InstructionsFollow
<1> QED
    BY <1>1, <1>2, <1>3, <1>4, <1>5

\* No step breaks the invariant.
LEMMA AgentStep == AgentInv /\ [AgentNext]_agentVars => AgentInv'
<1>1. AgentInv /\ AgentNext => AgentInv'
    BY AnswerFollowsStep, InstructionsStep DEF AgentInv
<1>2. ASSUME AgentInv, UNCHANGED agentVars PROVE AgentInv'
    <2>1. AgentTypes'
        BY <1>2 DEF AgentInv, AgentTypes, agentVars
    <2>2. AnswerFollows'
        BY <1>2 DEF AgentInv, AnswerFollows, agentVars
    <2>3. InstructionsFollow'
        BY <1>2 DEF AgentInv, InstructionsFollow, agentVars
    <2> QED
        BY <2>1, <2>2, <2>3 DEF AgentInv
<1> QED
    BY <1>1, <1>2

\* A whole answer to this very turn, by an agent that was told what it is for.
LEMMA AgentFaithful == AgentInv => AgentAnswersFaithfully
<1> SUFFICES ASSUME AgentInv PROVE AgentAnswersFaithfully
    OBVIOUS
<1>1. ASSUME NEW i \in DOMAIN answer PROVE answer[i] = agentTurn
    <2>1. /\ answer \in Seq(Nat) /\ TextOfEvents(output) \in Seq(Nat)
          /\ answer \o TextOfEvents(output) = uttered
          /\ \A j \in 1 .. Len(uttered) : uttered[j] = agentTurn
        BY TextGoesOn DEF AgentInv, AgentTypes, AnswerFollows
    <2>2. Len(answer) \in Nat /\ Len(TextOfEvents(output)) \in Nat /\ DOMAIN answer = 1 .. Len(answer)
        BY <2>1, LenProperties
    <2>3. /\ Len(uttered) = Len(answer) + Len(TextOfEvents(output))
          /\ \A j \in 1 .. Len(answer) + Len(TextOfEvents(output)) :
                uttered[j] = IF j <= Len(answer) THEN answer[j] ELSE TextOfEvents(output)[j - Len(answer)]
        BY <2>1, ConcatProperties
    <2>4. i \in 1 .. Len(uttered) /\ i <= Len(answer)
        BY <2>2, <2>3
    <2> QED
        BY <2>1, <2>3, <2>4
<1>2. AnswersAreWhole
    BY <1>1 DEF AgentInv, AnswerFollows, AnswersAreWhole
<1>3. InstructedOnce
    <2>1. PICK n \in 0 .. agentTurn : instructions = 1 .. n
        BY DEF AgentInv, InstructionsFollow
    <2>2. n \in Nat
        BY <2>1 DEF AgentInv, AgentTypes
    <2>3. Cardinality(1 .. n) = n
        <3>1. 0 \in Int /\ n \in Int /\ 1 \in Int
            BY <2>2
        <3>2. Cardinality(1 .. n) = IF 1 > n THEN 0 ELSE n - 1 + 1
            BY <3>1, FS_Interval
        <3> QED
            BY <2>2, <3>2
    <2>4. instructions = 1 .. Cardinality(instructions)
        BY <2>1, <2>3
    <2> QED
        BY <2>4 DEF AgentInv, InstructionsFollow, InstructedOnce
<1> QED
    BY <1>2, <1>3 DEF AgentAnswersFaithfully

\* AgentAnswersFaithfully: of a session by itself.
THEOREM AgentIsFaithful == AgentSpec => []AgentAnswersFaithfully
BY AgentStart, AgentStep, AgentFaithful, PTL DEF AgentSpec

-----------------------------------------------------------------------------
(* The panel and its journal: the inductive invariant.                     *)

PanelTypes ==
  /\ journal.meeting \in 0 .. MaxPanelMeetings /\ journal.entries \in Seq(Nat)
  /\ journal = [meeting |-> journal.meeting, entries |-> journal.entries]
  /\ pool \subseteq Nat /\ entryClock \in Nat /\ writing \in 0 .. MaxPanelMeetings
  /\ json \in [PanelMeetings -> Seq(Nat)] /\ text \in [PanelMeetings -> Seq(Nat)]
  /\ recordingsArmed \in 0 .. MaxPanelMeetings /\ toOpen \in {0, recordingsArmed}

\* The journal that is open is the one on file, and the last that was opened; what is to
\* open and what is not armed yet has no file.
JournalFollows ==
  /\ journal.meeting <= recordingsArmed /\ (toOpen # 0 => journal.meeting < toOpen)
  /\ journal.meeting # 0 => json[journal.meeting] = journal.entries
  /\ \A m \in PanelMeetings : m = toOpen \/ m > recordingsArmed => json[m] = <<>>
  /\ writing # 0 => journal.meeting = writing
  /\ \A m \in PanelMeetings : writing # m => text[m] = json[m]

\* An entry is stamped once, and in the pool or in one file.
EntriesAreOnce ==
  /\ \A e \in pool : e <= entryClock
  /\ \A m \in PanelMeetings : /\ Up(json[m]) /\ ToSet(json[m]) \cap pool = {}
                              /\ \A e \in ToSet(json[m]) : e <= entryClock
  /\ \A m, n \in PanelMeetings : m # n => ToSet(json[m]) \cap ToSet(json[n]) = {}

\* Hidden, or about to be, the panel is not shown and nothing is about to show it.
HideFollows == (suppressed \/ hiding) /\ ~crossed => ~visible /\ ~showing

HideTypes == {visible, suppressed, showing, hiding, crossed} \subseteq BOOLEAN

PanelInv == PanelTypes /\ JournalFollows /\ EntriesAreOnce /\ HideFollows /\ HideTypes

\* Sorting files the new entry among the others.
LEMMA FiledInOrder ==
  ASSUME NEW p \in Seq(Nat), Up(p), NEW e \in Nat, e \notin ToSet(p)
  PROVE  LET q == Ascending(Append(p, e))
         IN  q \in Seq(Nat) /\ Up(q) /\ ToSet(q) = ToSet(p) \cup {e}
<1> DEFINE s == Append(p, e)
           q == Ascending(s)
<1>1. /\ s \in Seq(Nat) /\ Len(s) = Len(p) + 1 /\ ToSet(s) = ToSet(p) \cup {e} /\ ToSet(s) \subseteq Nat
      /\ Len(s) \in Nat
    <2>1. s \in Seq(Nat) /\ Len(s) = Len(p) + 1 /\ ToSet(s) = ToSet(p) \cup {e}
        BY Elements
    <2> HIDE DEF s
    <2> QED
        BY <2>1, NumberQueue, LenProperties
<1> HIDE DEF s
<1>2. PICK r \in Seq(Nat) : Len(r) = Len(s) /\ Up(r) /\ ToSet(r) = ToSet(s)
    <2>1. PICK r \in Seq(Nat) : Len(r) = Len(p) + 1 /\ Up(r) /\ ToSet(r) = ToSet(p) \cup {e}
        BY PlaceInOrder
    <2> QED
        BY <1>1, <2>1
<1>3. r \in [1 .. Len(s) -> ToSet(s)]
    <2>1. r \in [1 .. Len(r) -> Nat] /\ DOMAIN r = 1 .. Len(r)
        BY LenProperties
    <2>2. \A i \in 1 .. Len(r) : r[i] \in ToSet(r)
        BY <2>1 DEF ToSet
    <2>3. r \in [1 .. Len(r) -> ToSet(r)]
        BY <2>1, <2>2
    <2> QED
        BY <1>2, <2>3
<1>4. \A i, j \in 1 .. Len(s) : i < j => r[i] < r[j]
    BY <1>2 DEF Up
<1>5. \E x \in [1 .. Len(s) -> ToSet(s)] :
         ToSet(x) = ToSet(s) /\ \A i, j \in 1 .. Len(s) : i < j => x[i] < x[j]
    BY <1>2, <1>3, <1>4
<1>6. /\ q \in [1 .. Len(s) -> ToSet(s)] /\ ToSet(q) = ToSet(s)
      /\ \A i, j \in 1 .. Len(s) : i < j => q[i] < q[j]
    BY <1>5, Zenon DEF Ascending
<1> HIDE DEF q
<1>7. q \in Seq(Nat) /\ Len(q) = Len(s)
    <2>1. q \in [1 .. Len(s) -> Nat]
        BY <1>1, <1>6
    <2>2. q \in Seq(Nat)
        BY <1>1, <2>1, SeqDef
    <2> QED
        BY <1>1, <2>1, <2>2, LenProperties
<1>8. Up(q)
    BY <1>6, <1>7 DEF Up
<1> QED
    BY <1>1, <1>6, <1>7, <1>8 DEF q, s

\* Nothing is on file at first.
LEMMA PanelStart == AssistPanelInit => PanelInv
<1> SUFFICES ASSUME AssistPanelInit PROVE PanelInv
    OBVIOUS
<1> USE DEF AssistPanelInit, PanelMeetings, NoJournal
<1>1. json \in [PanelMeetings -> Seq(Nat)] /\ text = json /\ \A m \in PanelMeetings : json[m] = <<>>
    BY NoNumber
<1>2. PanelTypes
    <2>1. 0 \in 0 .. MaxPanelMeetings
        BY PanelAssumption
    <2> QED
        BY <1>1, <2>1 DEF PanelTypes
<1>3. JournalFollows
    BY <1>1 DEF JournalFollows
<1>4. EntriesAreOnce
    BY <1>1, NoNumber DEF EntriesAreOnce
<1>5. HideFollows /\ HideTypes
    BY DEF HideFollows, HideTypes
<1> QED
    BY <1>2, <1>3, <1>4, <1>5 DEF PanelInv

\* The journal.
LEMMA JournalStep ==
  ASSUME PanelTypes, JournalFollows, EntriesAreOnce, AssistPanelNext
  PROVE  (PanelTypes /\ JournalFollows /\ EntriesAreOnce)'
<1> USE PanelAssumption
<1>1. CASE ShowSuggestion \/ HidePanel \/ RememberHide \/ ReopenPanel
    <2>1. UNCHANGED <<journal, pool, writing, json, text, entryClock, recordingsArmed, toOpen>>
        BY <1>1 DEF ShowSuggestion, HidePanel, RememberHide, ReopenPanel, journalVars
    <2> QED
        BY <2>1 DEF PanelTypes, JournalFollows, EntriesAreOnce, PanelMeetings
<1>2. CASE PanelArmed
    <2>1. /\ recordingsArmed < MaxPanelMeetings /\ toOpen = 0
          /\ recordingsArmed' = recordingsArmed + 1 /\ toOpen' = recordingsArmed + 1
          /\ UNCHANGED <<journal, pool, writing, json, text, entryClock>>
        BY <1>2 DEF PanelArmed, journalVars
    <2>2. recordingsArmed \in Nat /\ recordingsArmed' \in 0 .. MaxPanelMeetings /\ toOpen' = recordingsArmed'
        BY <2>1 DEF PanelTypes
    <2>3. PanelTypes'
        BY <2>1, <2>2 DEF PanelTypes
    <2>4. JournalFollows'
        <3>1. journal.meeting <= recordingsArmed /\ journal.meeting \in Nat
            BY DEF JournalFollows, PanelTypes
        <3>2. journal.meeting <= recordingsArmed + 1 /\ journal.meeting < recordingsArmed + 1
            BY <2>2, <3>1
        <3>3. \A m \in PanelMeetings : m = recordingsArmed + 1 \/ m > recordingsArmed + 1 => m > recordingsArmed
            BY <2>2 DEF PanelMeetings
        <3> QED
            BY <2>1, <3>2, <3>3 DEF JournalFollows, PanelMeetings
    <2>5. EntriesAreOnce'
        BY <2>1 DEF EntriesAreOnce, PanelMeetings
    <2> QED
        BY <2>3, <2>4, <2>5
<1>3. CASE OpenJournal
    <2>1. /\ toOpen # 0 /\ writing = 0 /\ journal'.meeting = toOpen /\ journal'.entries = <<>> /\ toOpen' = 0
          /\ journal' = [meeting |-> toOpen, entries |-> <<>>]
          /\ UNCHANGED <<pool, writing, json, text, entryClock, recordingsArmed>>
        BY <1>3 DEF OpenJournal
    <2>2. toOpen = recordingsArmed /\ toOpen \in PanelMeetings /\ toOpen <= recordingsArmed
        BY <2>1 DEF PanelTypes, PanelMeetings
    <2>3. PanelTypes'
        BY <2>1, <2>2, NoNumber DEF PanelTypes, PanelMeetings
    <2>4. json[toOpen] = <<>>
        BY <2>2 DEF JournalFollows
    <2>5. JournalFollows'
        <3>1. \A m \in PanelMeetings : m = 0 \/ m > recordingsArmed => json[m] = <<>>
            <4>1. \A m \in PanelMeetings : m # 0
                BY DEF PanelMeetings
            <4> QED
                BY <4>1 DEF JournalFollows
        <3> QED
            BY <2>1, <2>2, <2>4, <3>1 DEF JournalFollows, PanelMeetings
    <2>6. EntriesAreOnce'
        BY <2>1 DEF EntriesAreOnce, PanelMeetings
    <2> QED
        BY <2>3, <2>5, <2>6
<1>4. CASE CloseJournal
    <2>1. /\ journal' = NoJournal /\ journal'.meeting = 0 /\ journal'.entries = <<>> /\ toOpen = 0 /\ writing = 0
          /\ UNCHANGED <<pool, writing, json, text, entryClock, recordingsArmed, toOpen>>
        BY <1>4 DEF CloseJournal, NoJournal
    <2>2. PanelTypes'
        BY <2>1, NoNumber DEF PanelTypes, PanelMeetings, NoJournal
    <2>3. JournalFollows'
        <3>1. 0 <= recordingsArmed
            BY DEF PanelTypes
        <3> QED
            BY <2>1, <3>1 DEF JournalFollows, PanelMeetings
    <2>4. EntriesAreOnce'
        BY <2>1 DEF EntriesAreOnce, PanelMeetings
    <2> QED
        BY <2>2, <2>3, <2>4
<1>5. CASE AskQuestion \/ Suggest
    <2>1. /\ entryClock' = entryClock + 1 /\ pool' = pool \cup {entryClock + 1}
          /\ UNCHANGED <<journal, writing, json, text, recordingsArmed, toOpen>>
        BY <1>5 DEF AskQuestion, Suggest, Stamp, journalVars
    <2>2. entryClock \in Nat /\ pool \subseteq Nat /\ \A m \in PanelMeetings : ToSet(json[m]) \subseteq Nat
        BY NumberQueue DEF PanelTypes
    <2>3. PanelTypes'
        BY <2>1, <2>2 DEF PanelTypes, PanelMeetings
    <2>4. JournalFollows'
        BY <2>1 DEF JournalFollows, PanelMeetings
    <2>5. EntriesAreOnce'
        <3>1. \A e \in pool' : e <= entryClock'
            BY <2>1, <2>2 DEF EntriesAreOnce
        <3>2. ASSUME NEW m \in PanelMeetings
              PROVE  Up(json[m]) /\ ToSet(json[m]) \cap pool' = {} /\ \A e \in ToSet(json[m]) : e <= entryClock'
            <4>1. \A e \in ToSet(json[m]) : e <= entryClock /\ e \in Nat
                BY <2>2 DEF EntriesAreOnce
            <4>2. \A e \in ToSet(json[m]) : e <= entryClock + 1 /\ e # entryClock + 1
                BY <2>2, <4>1
            <4> QED
                BY <2>1, <4>2 DEF EntriesAreOnce
        <3> QED
            BY <2>1, <3>1, <3>2 DEF EntriesAreOnce, PanelMeetings
    <2> QED
        BY <2>3, <2>4, <2>5
<1>6. ASSUME NEW e \in pool, Record(e) PROVE (PanelTypes /\ JournalFollows /\ EntriesAreOnce)'
    <2>1. /\ writing = 0 /\ pool' = pool \ {e} /\ UNCHANGED <<text, entryClock, recordingsArmed, toOpen>> /\ e \in Nat
        BY <1>6 DEF Record, PanelTypes
    <2>2. CASE UNCHANGED <<journal, json, writing>>
        BY <2>1, <2>2 DEF PanelTypes, JournalFollows, EntriesAreOnce, PanelMeetings
    <2>3. CASE ~ UNCHANGED <<journal, json, writing>>
        <3> DEFINE w == journal.meeting
                   q == Ascending(Append(journal.entries, e))
        <3>1. /\ w # 0 /\ journal' = [journal EXCEPT !.entries = q]
              /\ json' = [json EXCEPT ![w] = journal'.entries] /\ writing' = w
            BY <1>6, <2>3 DEF Record
        <3>2. w \in PanelMeetings /\ json[w] = journal.entries /\ w <= recordingsArmed /\ w \in Nat
            BY <3>1 DEF PanelTypes, JournalFollows, PanelMeetings
        <3>3. journal.entries \in Seq(Nat) /\ Up(journal.entries) /\ e \notin ToSet(journal.entries)
            BY <3>2 DEF EntriesAreOnce, PanelTypes
        <3>4. q \in Seq(Nat) /\ Up(q) /\ ToSet(q) = ToSet(journal.entries) \cup {e}
            BY <2>1, <3>3, FiledInOrder
        <3> HIDE DEF q
        <3>5. journal' = [meeting |-> w, entries |-> q]
            <4>1. journal = [meeting |-> journal.meeting, entries |-> journal.entries]
                BY DEF PanelTypes
            <4> QED
                BY <3>1, <4>1
        <3>6. journal'.meeting = w /\ journal'.entries = q
            BY <3>5
        <3>7. /\ json' \in [PanelMeetings -> Seq(Nat)]
              /\ \A m \in PanelMeetings : json'[m] = IF m = w THEN q ELSE json[m]
            BY <3>1, <3>2, <3>4, <3>6 DEF PanelTypes
        <3>8. PanelTypes'
            <4>1. pool' \subseteq Nat /\ writing' \in 0 .. MaxPanelMeetings
                BY <2>1, <3>1 DEF PanelTypes
            <4> QED
                BY <2>1, <3>4, <3>5, <3>6, <3>7, <4>1 DEF PanelTypes, PanelMeetings
        <3> HIDE DEF w
        <3>9. JournalFollows'
            <4>1. w # toOpen /\ ~(w > recordingsArmed)
                <5>1. toOpen # 0 => w < toOpen
                    BY DEF JournalFollows, w
                <5>2. toOpen \in Nat /\ recordingsArmed \in Nat
                    BY DEF PanelTypes
                <5> QED
                    BY <3>1, <3>2, <5>1, <5>2
            <4>2. \A m \in PanelMeetings : m = toOpen \/ m > recordingsArmed => json'[m] = <<>>
                BY <3>7, <4>1 DEF JournalFollows
            <4>3. \A m \in PanelMeetings : w # m => text[m] = json'[m]
                <5>1. \A m \in PanelMeetings : writing # m
                    BY <2>1 DEF PanelMeetings
                <5> QED
                    BY <3>7, <5>1 DEF JournalFollows
            <4>4. json'[w] = q
                BY <3>2, <3>7
            <4>5. w <= recordingsArmed /\ (toOpen # 0 => w < toOpen)
                BY DEF JournalFollows, w
            <4> QED
                BY <2>1, <3>1, <3>6, <4>2, <4>3, <4>4, <4>5 DEF JournalFollows, PanelMeetings
        <3>10. EntriesAreOnce'
            <4>1. \A m \in PanelMeetings : ToSet(json'[m]) = IF m = w THEN ToSet(json[w]) \cup {e} ELSE ToSet(json[m])
                BY <3>2, <3>4, <3>7
            <4>2. \A m \in PanelMeetings : e \notin ToSet(json[m])
                BY DEF EntriesAreOnce
            <4>3. \A m \in PanelMeetings : Up(json'[m])
                BY <3>4, <3>7 DEF EntriesAreOnce
            <4>4. e <= entryClock
                BY DEF EntriesAreOnce
            <4>5. ASSUME NEW m \in PanelMeetings
                  PROVE  ToSet(json'[m]) \cap pool' = {} /\ \A x \in ToSet(json'[m]) : x <= entryClock
                BY <2>1, <3>2, <4>1, <4>4 DEF EntriesAreOnce
            <4>6. ASSUME NEW m \in PanelMeetings, NEW n \in PanelMeetings, m # n
                  PROVE  ToSet(json'[m]) \cap ToSet(json'[n]) = {}
                BY <3>2, <4>1, <4>2, <4>6 DEF EntriesAreOnce
            <4>7. \A x \in pool' : x <= entryClock
                BY <2>1 DEF EntriesAreOnce
            <4> QED
                BY <2>1, <4>3, <4>5, <4>6, <4>7 DEF EntriesAreOnce, PanelMeetings
        <3> QED
            BY <3>8, <3>9, <3>10
    <2> QED
        BY <2>2, <2>3
<1>7. CASE WriteText
    <2>1. /\ writing # 0 /\ text' = [text EXCEPT ![writing] = journal.entries] /\ writing' = 0
          /\ UNCHANGED <<journal, pool, json, entryClock, recordingsArmed, toOpen>>
        BY <1>7 DEF WriteText
    <2>2. writing \in PanelMeetings /\ json[writing] = journal.entries
        BY <2>1 DEF PanelTypes, JournalFollows, PanelMeetings
    <2>3. /\ text' \in [PanelMeetings -> Seq(Nat)]
          /\ \A m \in PanelMeetings : text'[m] = IF m = writing THEN json[m] ELSE text[m]
        BY <2>1, <2>2 DEF PanelTypes
    <2>4. PanelTypes'
        BY <2>1, <2>3 DEF PanelTypes, PanelMeetings
    <2>5. JournalFollows'
        BY <2>1, <2>3 DEF JournalFollows, PanelMeetings
    <2>6. EntriesAreOnce'
        BY <2>1 DEF EntriesAreOnce, PanelMeetings
    <2> QED
        BY <2>4, <2>5, <2>6
<1> QED
    BY <1>1, <1>2, <1>3, <1>4, <1>5, <1>6, <1>7 DEF AssistPanelNext

\* The panel.
LEMMA HideStep ==
  ASSUME HideFollows, HideTypes, AssistPanelNext
  PROVE  HideFollows' /\ HideTypes'
<1> USE DEF HideFollows, HideTypes
<1>1. CASE PanelArmed
    BY <1>1 DEF PanelArmed
<1>2. CASE OpenJournal \/ CloseJournal \/ AskQuestion \/ WriteText
    BY <1>2 DEF OpenJournal, CloseJournal, AskQuestion, WriteText, panelVars
<1>3. CASE \E e \in pool : Record(e)
    BY <1>3 DEF Record, panelVars
<1>4. CASE Suggest
    BY <1>4 DEF Suggest
<1>5. CASE ShowSuggestion
    BY <1>5 DEF ShowSuggestion
<1>6. CASE HidePanel
    BY <1>6 DEF HidePanel
<1>7. CASE RememberHide
    BY <1>7 DEF RememberHide
<1>8. CASE ReopenPanel
    BY <1>8 DEF ReopenPanel
<1> QED
    BY <1>1, <1>2, <1>3, <1>4, <1>5, <1>6, <1>7, <1>8 DEF AssistPanelNext

\* Every step of the listeners, the question box and the journal's threads keeps the invariant.
LEMMA PanelStep == PanelInv /\ [AssistPanelNext]_assistPanelVars => PanelInv'
<1> SUFFICES ASSUME PanelInv, [AssistPanelNext]_assistPanelVars PROVE PanelInv'
    OBVIOUS
<1>1. CASE UNCHANGED assistPanelVars
    BY <1>1 DEF assistPanelVars, PanelInv, PanelTypes, JournalFollows, EntriesAreOnce, HideFollows, HideTypes,
                PanelMeetings
<1>2. CASE AssistPanelNext
    BY <1>2, JournalStep, HideStep DEF PanelInv
<1> QED
    BY <1>1, <1>2

\* The files are in order, and the hidden panel hidden.
LEMMA PanelFaithful == PanelInv => PanelKeepsItsWord
<1> SUFFICES ASSUME PanelInv PROVE PanelKeepsItsWord
    OBVIOUS
<1>1. \A m \in PanelMeetings : DOMAIN json[m] = 1 .. Len(json[m])
    BY QueueOps DEF PanelInv, PanelTypes
<1>2. \A m \in PanelMeetings : \A i, j \in DOMAIN json[m] : i < j => json[m][i] < json[m][j]
    BY <1>1 DEF PanelInv, EntriesAreOnce, Up
<1>3. JournalIsInOrder
    BY <1>2 DEF PanelInv, EntriesAreOnce, JournalFollows, JournalIsInOrder
<1>4. HiddenStaysHidden
    BY DEF PanelInv, HideFollows, HiddenStaysHidden
<1> QED
    BY <1>3, <1>4 DEF PanelKeepsItsWord

\* PanelKeepsItsWord, of the panel alone.
THEOREM PanelIsInOrder == AssistPanelSpec => []PanelKeepsItsWord
<1> QED
    BY PanelStart, PanelStep, PanelFaithful, PTL DEF AssistPanelSpec
=============================================================================
