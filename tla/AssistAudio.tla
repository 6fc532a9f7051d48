------------------------------- MODULE AssistAudio -------------------------------
(***************************************************************************)
(* The realtime side of the assistant, from the live tap to the engine's   *)
(* queue: the audio task (resampling, echo cancellation, segmentation),    *)
(* the STT worker, the task that forwards its utterances, and the task     *)
(* that carries the boundaries of a meeting from the bus to all of them.   *)
(*                                                                         *)
(* Audio is named by the meeting it was heard in.  The microphone and the  *)
(* system channel run the same code and share only the worker's queue: the *)
(* model follows one channel.                                              *)
(***************************************************************************)
EXTENDS Integers, Sequences

CONSTANTS
    MaxMeetings,        \* bound: meetings of one launch
    MaxChunks,          \* bound: audio chunks of one meeting
    TapCapacity,        \* ring of the live tap; a slow reader loses the oldest
    MaxQueue            \* SttWorkerConfig::max_queue

ASSUME AudioAssumption ==
    {MaxMeetings, MaxChunks, TapCapacity, MaxQueue} \subseteq Nat \ {0}

VARIABLES
    meetingNo,      \* the meeting whose audio is captured, 0 before the first
    recorded,       \* it is being captured
    chunks,         \* how many chunks of it were
    bus,            \* recording events the boundary task has yet to receive
    boundaryTask,   \* "idle", or the step of the Armed it is handling
    boundary,       \* the channel of capacity 1 to the audio task
    ring,           \* chunks in the tap
    openSegment,    \* meetings heard in the open segment
    resets,         \* history: the epoch in which the audio task last did a reset
    leftover,       \* history: meetings with chunks in the tap at that reset
    epoch,          \* SttWorkerHandle.epoch
    keepModel,      \* SttWorkerHandle.keep_model
    queue,          \* segments for the worker: rx and its own backlog
    inference,      \* the segment being transcribed, or <<>>
    utterances,     \* recognized, not yet forwarded
    conversation,   \* assist.reset calls: the conversation a new turn will join
    modelIn,        \* the worker's model is in memory
    turn            \* history: the last turn forwarded, or <<>>

busVars    == <<meetingNo, recorded, chunks, bus>>
taskVars   == <<boundaryTask, boundary, ring, openSegment, resets, leftover>>
workerVars == <<epoch, keepModel, queue, inference, modelIn>>
assistAudioVars == <<busVars, taskVars, workerVars, utterances, conversation, turn>>

Meetings == 1..MaxMeetings

\* A segment: the meetings heard in it, the epoch it was tagged with, whether the
\* audio task may still have held older sound when it was cut, and the epoch its
\* text came out in.
Segments == [of : SUBSET Meetings, tag : 0..MaxMeetings, late : BOOLEAN, textIn : 0..MaxMeetings]

AudioTypeOK ==
    /\ meetingNo \in 0..MaxMeetings /\ recorded \in BOOLEAN /\ chunks \in 0..MaxChunks
    /\ bus \in Seq({"armed", "cancelled"})
    /\ boundaryTask \in {"idle", "engine_reset", "worker_reset"}
    /\ boundary \in {"none", "reset", "flush"}
    /\ ring \in Seq(Meetings) /\ Len(ring) <= TapCapacity
    /\ openSegment \subseteq Meetings /\ leftover \subseteq Meetings
    /\ {resets, epoch, conversation} \subseteq 0..MaxMeetings
    /\ {keepModel, modelIn} \subseteq BOOLEAN
    /\ queue \in Seq(Segments) /\ utterances \in Seq(Segments)
    /\ inference \in Segments \cup {<<>>}
    /\ turn \in [of : SUBSET Meetings, joined : 0..MaxMeetings, late : BOOLEAN, textIn : 0..MaxMeetings]
                \cup {<<>>}

AudioInit ==
    /\ meetingNo = 0 /\ recorded = FALSE /\ chunks = 0 /\ bus = <<>>
    /\ boundaryTask = "idle" /\ boundary = "none" /\ ring = <<>> /\ openSegment = {}
    /\ resets = 0 /\ leftover = {} /\ epoch = 0 /\ keepModel = FALSE /\ queue = <<>> /\ inference = <<>>
    /\ utterances = <<>> /\ conversation = 0 /\ modelIn = FALSE /\ turn = <<>>

-----------------------------------------------------------------------------
(* The recorder.  A meeting is armed before its capture starts; Cancelled  *)
(* is published by a declined countdown, never at the end of a capture.    *)

ArmMeeting ==
    /\ ~recorded /\ meetingNo < MaxMeetings
    /\ meetingNo' = meetingNo + 1 /\ recorded' = TRUE /\ chunks' = 0
    /\ bus' = Append(bus, "armed")
    /\ UNCHANGED <<taskVars, workerVars, utterances, conversation, turn>>

EndMeeting ==
    /\ recorded
    /\ recorded' = FALSE
    /\ bus' \in {bus, Append(bus, "cancelled")}
    /\ UNCHANGED <<meetingNo, chunks, taskVars, workerVars, utterances, conversation, turn>>

\* send_mic, send_system: never blocks, the oldest chunk is lost.
TapChunk ==
    /\ recorded /\ chunks < MaxChunks
    /\ chunks' = chunks + 1
    /\ ring' = Append(IF Len(ring) = TapCapacity THEN Tail(ring) ELSE ring, meetingNo)
    /\ UNCHANGED <<meetingNo, recorded, bus, boundaryTask, boundary, openSegment, resets, leftover,
                   workerVars, utterances, conversation, turn>>

-----------------------------------------------------------------------------
(* The boundary task.                                                      *)

TrySend(b) == boundary' = IF boundary = "none" THEN b ELSE boundary

ReceiveArmed ==
    /\ boundaryTask = "idle" /\ bus # <<>> /\ Head(bus) = "armed"
    /\ bus' = Tail(bus)
    /\ conversation' = conversation + 1
    /\ boundaryTask' = "engine_reset"
    /\ UNCHANGED <<meetingNo, recorded, chunks, boundary, ring, openSegment, resets, leftover, workerVars,
                   utterances, turn>>

ResetWorker ==
    /\ boundaryTask = "engine_reset"
    /\ epoch' = epoch + 1
    /\ boundaryTask' = "worker_reset"
    /\ UNCHANGED <<busVars, boundary, ring, openSegment, resets, leftover, keepModel, queue, inference, modelIn,
                   utterances, conversation, turn>>

\* A full channel is not waited for: what is in it stays.
SendReset ==
    /\ boundaryTask = "worker_reset"
    /\ TrySend("reset")
    /\ keepModel' = TRUE
    /\ boundaryTask' = "idle"
    /\ UNCHANGED <<busVars, ring, openSegment, resets, leftover, epoch, queue, inference, modelIn,
                   utterances, conversation, turn>>

ReceiveCancelled ==
    /\ boundaryTask = "idle" /\ bus # <<>> /\ Head(bus) = "cancelled"
    /\ bus' = Tail(bus)
    /\ TrySend("flush")
    /\ keepModel' = FALSE
    /\ UNCHANGED <<meetingNo, recorded, chunks, boundaryTask, ring, openSegment, resets, leftover, epoch,
                   queue, inference, modelIn, utterances, conversation, turn>>

-----------------------------------------------------------------------------
(* The audio task.                                                         *)

\* Tagged with the epoch of the moment it is pushed in.
Segment(of) ==
    [of |-> of, tag |-> epoch, late |-> resets # epoch \/ of \cap leftover # {}, textIn |-> 0]

\* push: the backlog keeps the newest segments.
Push(segment) ==
    LET q == Append(queue, segment) IN
    queue' = IF Len(q) > MaxQueue THEN Tail(q) ELSE q

AudioReset ==
    /\ boundary = "reset"
    /\ boundary' = "none"
    /\ openSegment' = {} /\ resets' = epoch
    /\ leftover' = {ring[i] : i \in DOMAIN ring}
    /\ UNCHANGED <<busVars, boundaryTask, ring, workerVars, utterances, conversation, turn>>

AudioFlush ==
    /\ boundary = "flush"
    /\ boundary' = "none"
    /\ \/ openSegment = {} /\ UNCHANGED queue
       \/ openSegment # {} /\ Push(Segment(openSegment))
    /\ openSegment' = {}
    /\ UNCHANGED <<busVars, boundaryTask, ring, resets, leftover, epoch, keepModel, inference, modelIn,
                   utterances, conversation, turn>>

\* A chunk goes on with the open segment, or closes it; silence opens none.
HearChunk ==
    /\ ring # <<>>
    /\ ring' = Tail(ring)
    /\ LET of == openSegment \cup {Head(ring)} IN
       \/ openSegment' \in {openSegment, of} /\ UNCHANGED queue
       \/ openSegment' = {} /\ Push(Segment(of))
    /\ UNCHANGED <<busVars, boundaryTask, boundary, resets, leftover, epoch, keepModel, inference, modelIn,
                   utterances, conversation, turn>>

-----------------------------------------------------------------------------
(* The STT worker and the task that forwards its utterances.               *)

\* A segment of an older epoch is dropped.
StartInference ==
    /\ inference = <<>> /\ queue # <<>>
    /\ queue' = Tail(queue)
    /\ IF Head(queue).tag = epoch
       THEN inference' = Head(queue) /\ modelIn' = TRUE
       ELSE UNCHANGED <<inference, modelIn>>
    /\ UNCHANGED <<busVars, taskVars, epoch, keepModel, utterances, conversation, turn>>

\* Bug: what was started before a reset is let out after it.
FinishInferenceUnchecked ==
    /\ inference # <<>>
    /\ utterances' \in {utterances, Append(utterances, [inference EXCEPT !.textIn = epoch])}
    /\ inference' = <<>>
    /\ UNCHANGED <<busVars, taskVars, epoch, keepModel, queue, modelIn, conversation, turn>>

\* Text, if the epoch is still the segment's; or silence, or an error.
FinishInference ==
    /\ inference # <<>>
    /\ \/ UNCHANGED utterances
       \/ /\ inference.tag = epoch
          /\ utterances' = Append(utterances, [inference EXCEPT !.textIn = epoch])
    /\ inference' = <<>>
    /\ UNCHANGED <<busVars, taskVars, epoch, keepModel, queue, modelIn, conversation, turn>>

IdleUnload ==
    /\ inference = <<>> /\ queue = <<>> /\ ~keepModel /\ modelIn
    /\ modelIn' = FALSE
    /\ UNCHANGED <<busVars, taskVars, epoch, keepModel, queue, inference, utterances, conversation, turn>>

PushTurn ==
    /\ utterances # <<>>
    /\ utterances' = Tail(utterances)
    /\ LET u == Head(utterances) IN
       turn' = [of |-> u.of, joined |-> conversation, late |-> u.late, textIn |-> u.textIn]
    /\ UNCHANGED <<busVars, taskVars, workerVars, conversation>>

-----------------------------------------------------------------------------

AudioNext ==
    \/ ArmMeeting \/ EndMeeting \/ TapChunk
    \/ ReceiveArmed \/ ResetWorker \/ SendReset \/ ReceiveCancelled
    \/ AudioReset \/ AudioFlush \/ HearChunk
    \/ StartInference \/ FinishInference \/ IdleUnload \/ PushTurn

AudioSpec == AudioInit /\ [][AudioNext]_assistAudioVars
-----------------------------------------------------------------------------
\* Speech of one meeting joins the conversation of a later one only through the
\* windows the boundary leaves open: its text was out of the worker before the worker
\* was reset; or its segment was cut by an audio task that was still to be reset, or
\* that found old chunks in the tap after it was.  No backlog and no inference of the
\* old meeting survives the reset.
OldSpeechOnlyThroughTheGap ==
    turn # <<>> =>
       \A m \in turn.of : m < turn.joined => turn.late \/ turn.textIn < turn.joined
=============================================================================
