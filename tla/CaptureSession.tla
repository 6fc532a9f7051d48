----------------------------- MODULE CaptureSession -----------------------------
(***************************************************************************)
(* One capture of the macOS backend: MacosCapturer.start and stop, the     *)
(* sources they open and close (microphone thread, process tap or its      *)
(* ScreenCaptureKit fallback, window stream), and the watcher that swaps   *)
(* the window stream while the recording runs.                             *)
(*                                                                         *)
(* Two sessions share only the slot they are kept in, so one is followed   *)
(* from start to the end of stop.  ScreenCaptureKit and Core Audio are     *)
(* external: a stream delivers nothing after its stop has returned.        *)
(***************************************************************************)
EXTENDS Integers, FiniteSets

CONSTANTS
    MaxGenerations,     \* bound: window streams built by the watcher
    MaxFaults           \* bound: failures of a step, of a stream, and changes
                        \*   of the app's windows, together

ASSUME CaptureAssumption == MaxGenerations \in Nat /\ MaxFaults \in Nat

VARIABLES
    stage,          \* how far start or stop has come
    mic,            \* the microphone thread
    system,         \* what captures system audio: "tap", "sck" or "off"
    streams,        \* window streams capturing, by generation
    accepts,        \* VideoHealth.generation
    lastFrame,      \* generation of the last frame appended, -1 before the first
    watcher,        \* "none", "sleeping", "building", "swapping", "gone"
    watcherStop,    \* watcher_stop
    dead,           \* VideoHealth.dead
    delivers,       \* the current window stream still delivers frames
    stalled,        \* FRAME_STALL has passed without a frame
    windowThere,    \* the captured window exists
    otherWindow,    \* the app shows another capturable window
    kept, fed,      \* sources heard in the buffers, and by the live tap
    liveTap,        \* a live tap was installed when start ran
    mp4,            \* the video file
    wav,            \* what of `kept` is in the audio files, if written
    faults          \* how many so far

healthVars  == <<accepts, lastFrame, dead, delivers, stalled>>
windowVars  == <<windowThere, otherWindow>>
bufferVars  == <<kept, fed, liveTap>>
fileVars    == <<mp4, wav>>
watchVars   == <<watcher, watcherStop>>
captureVars == <<stage, mic, system, streams, healthVars, watchVars, windowVars,
                 bufferVars, fileVars, faults>>

StartStages == {"idle", "writer", "mic", "system", "video"}
StopStages  == {"told", "joined", "unwatched", "muted", "quiet", "closed"}

CaptureTypeOK ==
    /\ stage \in StartStages \cup StopStages \cup {"live", "failed", "over"}
    /\ mic \in {"off", "on", "told"}
    /\ system \in {"off", "tap", "sck"}
    /\ streams \subseteq 0..MaxGenerations
    /\ accepts \in 0..MaxGenerations /\ lastFrame \in -1..MaxGenerations
    /\ watcher \in {"none", "sleeping", "building", "swapping", "gone"}
    /\ \A b \in {watcherStop, dead, delivers, stalled, windowThere, otherWindow, liveTap} :
          b \in BOOLEAN
    /\ kept \subseteq {"mic", "system"} /\ fed \subseteq kept
    /\ mp4 \in {"none", "open", "broken", "silent", "muxed"}
    /\ wav \subseteq {"mic", "system", "written"}
    /\ faults \in 0..MaxFaults

CaptureInit ==
    /\ stage = "idle" /\ mic = "off" /\ system = "off" /\ streams = {}
    /\ accepts = 0 /\ lastFrame = -1 /\ dead = FALSE /\ delivers = FALSE /\ stalled = FALSE
    /\ watcher = "none" /\ watcherStop = FALSE
    /\ windowThere \in BOOLEAN /\ otherWindow = FALSE
    /\ kept = {} /\ fed = {} /\ liveTap \in BOOLEAN
    /\ mp4 = "none" /\ wav = {} /\ faults = 0

Fault == faults < MaxFaults /\ faults' = faults + 1

-----------------------------------------------------------------------------
(* start.                                                                  *)

\* An error on the way drops the guards and the tap.
DropGuards == mic' = "told" /\ system' = "off"

OpenWriter ==
    /\ stage = "idle"
    /\ stage' = "writer" /\ mp4' = "open"
    /\ UNCHANGED <<mic, system, streams, healthVars, watchVars, windowVars, bufferVars, wav, faults>>

\* The thread plays, fails, or is given up after five seconds: it then finds
\* the stop in its channel as soon as it does play.
SpawnMicCapture ==
    /\ stage = "writer"
    /\ \/ stage' = "mic" /\ mic' = "on" /\ UNCHANGED faults
       \/ Fault /\ stage' = "failed" /\ mic' \in {"off", "told"}
    /\ UNCHANGED <<system, streams, healthVars, watchVars, windowVars, bufferVars, fileVars>>

\* The process tap, or without it the ScreenCaptureKit stream.
StartSystemAudio ==
    /\ stage = "mic"
    /\ \/ stage' = "system" /\ system' = "tap" /\ UNCHANGED <<mic, faults>>
       \/ stage' = "system" /\ system' = "sck" /\ Fault /\ UNCHANGED mic
       \/ stage' = "failed" /\ DropGuards /\ Fault
    /\ UNCHANGED <<streams, healthVars, watchVars, windowVars, bufferVars, fileVars>>

StartVideo ==
    /\ stage = "system"
    /\ \/ /\ stage' = "video" /\ streams' = {0} /\ delivers' = TRUE
          /\ UNCHANGED <<mic, system, faults>>
       \/ /\ Fault
          /\ stage' = "failed" /\ DropGuards
          /\ UNCHANGED <<streams, delivers>>
    /\ UNCHANGED <<accepts, lastFrame, dead, stalled, watchVars, windowVars, bufferVars, fileVars>>

\* The watcher, the last step; a capture without an app has none.
EnterSession ==
    /\ stage = "video"
    /\ stage' = "live"
    /\ watcher' \in {"sleeping", "none"}
    /\ UNCHANGED <<mic, system, streams, healthVars, watcherStop, windowVars, bufferVars,
                   fileVars, faults>>

-----------------------------------------------------------------------------
(* Callbacks of the sources.                                               *)

MicChunk ==
    /\ mic = "on"
    /\ kept' = kept \cup {"mic"}
    /\ fed' = IF liveTap THEN fed \cup {"mic"} ELSE fed
    /\ UNCHANGED <<stage, mic, system, streams, healthVars, watchVars, windowVars, liveTap,
                   fileVars, faults>>

\* AudioSink sends the chunk on to the live tap.
SckChunk ==
    /\ system = "sck"
    /\ kept' = kept \cup {"system"}
    /\ fed' = IF liveTap THEN fed \cup {"system"} ELSE fed
    /\ UNCHANGED <<stage, mic, system, streams, healthVars, watchVars, windowVars, liveTap,
                   fileVars, faults>>

\* The closure given to the process tap only keeps it.
ProcessTapChunk ==
    /\ system = "tap"
    /\ kept' = kept \cup {"system"}
    /\ UNCHANGED <<stage, mic, system, streams, healthVars, watchVars, windowVars, fed, liveTap,
                   fileVars, faults>>

\* Re-timestamped to the wall clock; one the encoder is not ready for is dropped.
AppendFrame(g) == lastFrame' = g

\* Bug: the sink does not look at the generation.
FrameUngated(g) ==
    /\ g \in streams /\ (g = accepts => delivers)
    /\ AppendFrame(g)
    /\ stalled' = FALSE
    /\ UNCHANGED <<stage, mic, system, streams, accepts, dead, delivers, watchVars, windowVars,
                   bufferVars, fileVars, faults>>

\* A frame of a stream that is not the current one is dropped.
Frame(g) ==
    /\ g \in streams /\ g = accepts /\ delivers
    /\ AppendFrame(g)
    /\ stalled' = FALSE
    /\ UNCHANGED <<stage, mic, system, streams, accepts, dead, delivers, watchVars, windowVars,
                   bufferVars, fileVars, faults>>

\* The window stream ends, with a word to the delegate or without one.
StreamBreaks ==
    /\ stage = "live" /\ delivers
    /\ Fault
    /\ delivers' = FALSE
    /\ dead' \in BOOLEAN
    /\ UNCHANGED <<stage, mic, system, streams, accepts, lastFrame, stalled, watchVars, windowVars,
                   bufferVars, fileVars>>

\* FRAME_STALL passes; also over a healthy window whose contents do not change.
FrameStallPasses ==
    /\ stage = "live" /\ ~stalled
    /\ stalled' = TRUE
    /\ UNCHANGED <<stage, mic, system, streams, accepts, lastFrame, dead, delivers, watchVars,
                   windowVars, bufferVars, fileVars, faults>>

WindowsChange ==
    /\ stage = "live"
    /\ Fault
    /\ windowThere' \in BOOLEAN /\ otherWindow' \in BOOLEAN
    /\ windowVars' # windowVars
    /\ UNCHANGED <<stage, mic, system, streams, healthVars, watchVars, bufferVars, fileVars>>

-----------------------------------------------------------------------------
(* spawn_window_watcher.                                                   *)

Capturable == windowThere \/ otherWindow

\* Bug: a silent end of the stream is not looked for.
WatchTickDeadOnly ==
    /\ watcher = "sleeping" /\ ~watcherStop
    /\ dead' = FALSE
    /\ \/ UNCHANGED watcher /\ Fault
       \/ /\ watcher' = IF (windowThere /\ ~dead) \/ ~Capturable
                        THEN "sleeping" ELSE "building"
          /\ UNCHANGED faults
    /\ UNCHANGED <<stage, mic, system, streams, accepts, lastFrame, delivers, stalled, watcherStop,
                   windowVars, bufferVars, fileVars>>

\* One tick: the dead flag is consumed, whatever becomes of the rebuild; the
\* list of windows may be unavailable; a healthy stream of a window that
\* still exists is left alone.
WatchTick ==
    /\ watcher = "sleeping" /\ ~watcherStop
    /\ dead' = FALSE
    /\ \/ UNCHANGED watcher /\ Fault
       \/ /\ watcher' = IF (windowThere /\ ~dead /\ ~stalled) \/ ~Capturable
                        THEN "sleeping" ELSE "building"
          /\ UNCHANGED faults
    /\ UNCHANGED <<stage, mic, system, streams, accepts, lastFrame, delivers, stalled, watcherStop,
                   windowVars, bufferVars, fileVars>>

\* The replacement captures beside the outgoing stream; without one the
\* outgoing stream stays.
BuildWindowStream ==
    /\ watcher = "building"
    /\ accepts < MaxGenerations
    /\ \/ streams' = streams \cup {accepts + 1} /\ watcher' = "swapping" /\ UNCHANGED faults
       \/ Fault /\ watcher' = "sleeping" /\ UNCHANGED streams
    /\ UNCHANGED <<stage, mic, system, healthVars, watcherStop, windowVars, bufferVars, fileVars>>

\* Under the stream's mutex: stop the old one, install and publish the new one.
SwapStream ==
    /\ watcher = "swapping"
    /\ streams' = {accepts + 1}
    /\ accepts' = accepts + 1
    /\ delivers' = TRUE /\ stalled' = FALSE
    /\ windowThere' = Capturable /\ otherWindow' \in {FALSE, otherWindow}
    /\ watcher' = "sleeping"
    /\ UNCHANGED <<stage, mic, system, lastFrame, dead, watcherStop, bufferVars, fileVars, faults>>

WatcherExits ==
    /\ watcher = "sleeping" /\ watcherStop
    /\ watcher' = "gone"
    /\ UNCHANGED <<stage, mic, system, streams, healthVars, watcherStop, windowVars, bufferVars,
                   fileVars, faults>>

-----------------------------------------------------------------------------
(* stop.                                                                   *)

TellWatcher ==
    /\ stage = "live"
    /\ stage' = "told" /\ watcherStop' = TRUE
    /\ UNCHANGED <<mic, system, streams, healthVars, watcher, windowVars, bufferVars, fileVars, faults>>

\* Bug: the watcher is told to stop but not waited for.
JoinWatcherUnjoined ==
    /\ stage = "told"
    /\ stage' = "joined"
    /\ UNCHANGED <<mic, system, streams, healthVars, watchVars, windowVars, bufferVars, fileVars, faults>>

JoinWatcher ==
    /\ stage = "told" /\ watcher \in {"gone", "none"}
    /\ stage' = "joined"
    /\ UNCHANGED <<mic, system, streams, healthVars, watchVars, windowVars, bufferVars, fileVars, faults>>

\* The stream that is in the slot now.
StopVideoStream ==
    /\ stage = "joined"
    /\ stage' = "unwatched" /\ streams' = streams \ {accepts}
    /\ UNCHANGED <<mic, system, healthVars, watchVars, windowVars, bufferVars, fileVars, faults>>

StopSystemAudio ==
    /\ stage = "unwatched"
    /\ stage' = "muted" /\ system' = "off"
    /\ UNCHANGED <<mic, streams, healthVars, watchVars, windowVars, bufferVars, fileVars, faults>>

TellMic ==
    /\ stage = "muted" /\ mic = "on"
    /\ mic' = "told"
    /\ UNCHANGED <<stage, system, streams, healthVars, watchVars, windowVars, bufferVars, fileVars, faults>>

\* The thread drops its stream and ends.
MicEnds ==
    /\ mic = "told"
    /\ mic' = "off"
    /\ UNCHANGED <<stage, system, streams, healthVars, watchVars, windowVars, bufferVars, fileVars, faults>>

\* Joins the microphone thread, then closes the file: one that never got a
\* frame is deleted.
FinishVideo ==
    /\ stage = "muted" /\ mic = "off"
    /\ stage' = "quiet"
    /\ \/ mp4' = (IF lastFrame = -1 THEN "none" ELSE "silent") /\ UNCHANGED faults
       \/ lastFrame # -1 /\ mp4' = "broken" /\ Fault
    /\ UNCHANGED <<mic, system, streams, healthVars, watchVars, windowVars, bufferVars, wav>>

\* finalize_meeting_audio and write_meeting_audio; an error is stop's.
WriteAudio ==
    /\ stage = "quiet"
    /\ \/ stage' = "closed" /\ wav' = kept \cup {"written"} /\ UNCHANGED faults
       \/ stage' = "over" /\ Fault /\ UNCHANGED wav
    /\ UNCHANGED <<mic, system, streams, healthVars, watchVars, windowVars, bufferVars, mp4>>

MuxAudioIntoVideo ==
    /\ stage = "closed"
    /\ stage' = "over"
    /\ \/ mp4' = (IF mp4 = "silent" THEN "muxed" ELSE mp4) /\ UNCHANGED faults
       \/ mp4 = "silent" /\ Fault /\ UNCHANGED mp4
    /\ UNCHANGED <<mic, system, streams, healthVars, watchVars, windowVars, bufferVars, wav>>

-----------------------------------------------------------------------------

StartStep == OpenWriter \/ SpawnMicCapture \/ StartSystemAudio \/ StartVideo \/ EnterSession

WatcherStep == WatchTick \/ BuildWindowStream \/ SwapStream \/ WatcherExits

StopStep ==
    \/ JoinWatcher \/ StopVideoStream \/ StopSystemAudio \/ TellMic
    \/ FinishVideo \/ WriteAudio \/ MuxAudioIntoVideo

CaptureNext ==
    \/ StartStep \/ TellWatcher \/ StopStep \/ WatcherStep \/ MicEnds
    \/ MicChunk \/ SckChunk \/ ProcessTapChunk
    \/ \E g \in streams : Frame(g)
    \/ StreamBreaks \/ FrameStallPasses \/ WindowsChange

\* Threads run, time passes; nobody has to stop the recording.
CaptureFairness ==
    /\ WF_captureVars(WatcherStep) /\ WF_captureVars(StopStep) /\ WF_captureVars(MicEnds)
    /\ WF_captureVars(~delivers /\ FrameStallPasses)

CaptureSpec == CaptureInit /\ [][CaptureNext]_captureVars /\ CaptureFairness
-----------------------------------------------------------------------------
\* Nothing keeps capturing for a start that failed or a stop that is closing the
\* files: every stream and the tap are off, the watcher can swap none in any more,
\* and the microphone thread has at least been told.  The audio files hold all that
\* was captured, and the microphone of the closed ones is silent.
NoSourceOutlivesSession ==
    /\ stage \in {"failed", "quiet", "closed", "over"} =>
          streams = {} /\ system = "off" /\ watcher \in {"none", "gone"} /\ mic # "on"
    /\ "written" \in wav => wav \ {"written"} = kept /\ mic = "off"

\* Frames of two window streams never interleave in the file, though both capture
\* while the watcher swaps them.
FramesNeverInterleave == [][lastFrame' >= lastFrame]_captureVars

\* Liveness: a window stream that stopped delivering, reported or not, is replaced
\* while the app has a window to capture and the recording runs; the rebuild may
\* fail, or the list of windows be unavailable, in between.
OwesAStream ==
    stage = "live" /\ ~delivers /\ Capturable /\ watcher # "none" /\ accepts < MaxGenerations

BrokenStreamIsReplaced == []<>~OwesAStream

\* Every chunk the recording keeps reaches the live tap, when one is installed.
LiveTapHearsAllSources == liveTap => kept \subseteq fed
=============================================================================
