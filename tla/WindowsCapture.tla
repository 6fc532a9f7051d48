----------------------------- MODULE WindowsCapture -----------------------------
(***************************************************************************)
(* One capture of the Windows backend: two WASAPI threads that fill the    *)
(* audio buffers, a thread that captures the screen and encodes it, and    *)
(* stop, which clears `running`, waits for the audio threads, mixes, and   *)
(* hands the mix to the video thread, the only one to close the file.      *)
(*                                                                         *)
(* Graphics.Capture and Media Foundation are external: a capture that was  *)
(* stopped delivers no further frame.                                      *)
(***************************************************************************)
EXTENDS Integers, FiniteSets

CONSTANTS
    MaxFrames,          \* bound: frames forwarded to the encoder
    MaxErrors           \* bound: failing COM calls and lost windows

ASSUME WindowsAssumption == MaxFrames \in Nat /\ MaxErrors \in Nat

VARIABLES
    stop,                            \* how far stop has come
    running,                         \* Session.running
    audioThread,                     \* each WASAPI thread: "capturing" or "ended"
    sampled,                         \* sources with samples in the buffers
    videoThread,                     \* "setup", "capturing", "blind", "draining", "waiting", "ended"
    window,                          \* the captured item: "monitor", "shown" or "gone"
    forwardedFrames, writtenFrames,  \* frames forwarded by on_frame, written to the sink writer
    audioTx,                         \* the channel of the mix: "open", "sent" or "closed"
    file,                            \* video.mp4: "none", "open", "silent", "whole" or "broken"
    wavs,                            \* what the audio files hold, once "written"
    errors                           \* how many so far

videoVars   == <<videoThread, window, forwardedFrames, writtenFrames, file>>
audioVars   == <<audioThread, sampled>>
windowsVars == <<stop, running, audioVars, videoVars, audioTx, wavs, errors>>

Sources == {"mic", "system"}

WindowsTypeOK ==
    /\ stop \in {"uncalled", "told", "joined", "mixed", "handed", "ok", "error"}
    /\ running \in BOOLEAN
    /\ audioThread \in [Sources -> {"capturing", "ended"}]
    /\ sampled \subseteq Sources
    /\ videoThread \in {"setup", "capturing", "blind", "draining", "waiting", "ended"}
    /\ window \in {"monitor", "shown", "gone"}
    /\ forwardedFrames \in 0..MaxFrames /\ writtenFrames \in 0..forwardedFrames
    /\ audioTx \in {"open", "sent", "closed"}
    /\ file \in {"none", "open", "silent", "whole", "broken"}
    /\ wavs \subseteq Sources \cup {"written"}
    /\ errors \in 0..MaxErrors

\* find_app_window: the largest titled window of the call's app, else the monitor.
CaptureTargets == {"monitor", "shown"}

\* start has returned: it only spawns the threads.
WindowsInit ==
    /\ stop = "uncalled" /\ running = TRUE
    /\ audioThread = [s \in Sources |-> "capturing"] /\ sampled = {}
    /\ videoThread = "setup" /\ window \in CaptureTargets
    /\ forwardedFrames = 0 /\ writtenFrames = 0
    /\ audioTx = "open" /\ file = "none" /\ wavs = {} /\ errors = 0

CallFails == errors < MaxErrors /\ errors' = errors + 1

-----------------------------------------------------------------------------
(* capture_audio.                                                          *)

AudioPacket(s) ==
    /\ audioThread[s] = "capturing" /\ running
    /\ sampled' = sampled \cup {s}
    /\ UNCHANGED <<stop, running, audioThread, videoVars, audioTx, wavs, errors>>

\* `running` has cleared, or a call failed: the recording goes on without.
AudioThreadEnds(s) ==
    /\ audioThread[s] = "capturing"
    /\ \/ ~running /\ UNCHANGED errors
       \/ CallFails
    /\ audioThread' = [audioThread EXCEPT ![s] = "ended"]
    /\ UNCHANGED <<stop, running, sampled, videoVars, audioTx, wavs>>

-----------------------------------------------------------------------------
(* capture_video.                                                          *)

\* Two streams, the sound's written only at the end; throttling is off, so that
\* the picture does not wait for it.
CreateSinkWriter == file' = "open"

StartCaptureForItem == videoThread' = "capturing"

\* The device, the item, the sink writer and the first capture.
SetUpVideo ==
    /\ videoThread = "setup"
    /\ \/ CreateSinkWriter /\ StartCaptureForItem /\ UNCHANGED errors
       \/ CallFails /\ videoThread' = "ended" /\ file' \in {"none", "broken"}
    /\ UNCHANGED <<stop, running, audioVars, window, forwardedFrames, writtenFrames, audioTx, wavs>>

\* on_frame, on a thread of the pool: the limiter and a failing copy drop the
\* frame, the others are scaled and queued.
FrameArrived ==
    /\ videoThread = "capturing" /\ window # "gone" /\ forwardedFrames < MaxFrames
    /\ forwardedFrames' = forwardedFrames + 1
    /\ UNCHANGED <<stop, running, audioVars, videoThread, window, writtenFrames, file, audioTx, wavs, errors>>

WindowGone ==
    /\ videoThread = "capturing" /\ window = "shown"
    /\ CallFails
    /\ window' = "gone"
    /\ UNCHANGED <<stop, running, audioVars, videoThread, forwardedFrames, writtenFrames, file, audioTx, wavs>>

\* The next queued frame; the thread dies of a failing write, the file unclosed.
WriteFrame ==
    /\ videoThread \in {"capturing", "blind", "draining"} /\ writtenFrames < forwardedFrames
    /\ \/ writtenFrames' = writtenFrames + 1 /\ UNCHANGED <<videoThread, file, errors>>
       \/ /\ CallFails
          /\ videoThread' = "ended" /\ file' = "broken"
          /\ UNCHANGED writtenFrames
    /\ UNCHANGED <<stop, running, audioVars, window, forwardedFrames, audioTx, wavs>>

\* The app replaced its window: the old capture is stopped before the new one
\* is started, and a failure to start it ends the picture.
Retarget ==
    /\ videoThread = "capturing" /\ window = "gone"
    /\ \/ window' = "shown" /\ StartCaptureForItem /\ UNCHANGED errors
       \/ CallFails /\ videoThread' = "blind" /\ UNCHANGED window
    /\ UNCHANGED <<stop, running, audioVars, forwardedFrames, writtenFrames, file, audioTx, wavs>>

\* The loop is left: the capture is stopped, what is queued will be flushed.
StopCapture ==
    /\ \/ videoThread = "capturing" /\ ~running
       \/ videoThread = "blind"
    /\ videoThread' = "draining"
    /\ UNCHANGED <<stop, running, audioVars, window, forwardedFrames, writtenFrames, file, audioTx, wavs, errors>>

\* Bug: frames still queued when the capture stops are not flushed.
AwaitMixUnflushed ==
    /\ videoThread = "draining"
    /\ videoThread' = "waiting"
    /\ UNCHANGED <<stop, running, audioVars, window, forwardedFrames, writtenFrames, file, audioTx, wavs, errors>>

AwaitMix ==
    /\ videoThread = "draining" /\ writtenFrames = forwardedFrames
    /\ videoThread' = "waiting"
    /\ UNCHANGED <<stop, running, audioVars, window, forwardedFrames, writtenFrames, file, audioTx, wavs, errors>>

WriteAudioSamples == file' = "whole"

\* With the mix the file gets its sound; a closed channel, or samples that
\* cannot be written, leave it silent; closing it may fail.
FinalizeFile ==
    /\ videoThread = "waiting" /\ audioTx # "open"
    /\ videoThread' = "ended"
    /\ \/ audioTx = "sent" /\ WriteAudioSamples /\ UNCHANGED errors
       \/ audioTx = "sent" /\ file' \in {"silent", "broken"} /\ CallFails
       \/ audioTx = "closed" /\ file' = "silent" /\ UNCHANGED errors
       \/ audioTx = "closed" /\ file' = "broken" /\ CallFails
    /\ UNCHANGED <<stop, running, audioVars, window, forwardedFrames, writtenFrames, audioTx, wavs>>

-----------------------------------------------------------------------------
(* stop.                                                                   *)

TellThreads ==
    /\ stop = "uncalled"
    /\ stop' = "told" /\ running' = FALSE
    /\ UNCHANGED <<audioVars, videoVars, audioTx, wavs, errors>>

JoinAudio ==
    /\ stop = "told"
    /\ \A s \in Sources : audioThread[s] = "ended"
    /\ stop' = "joined"
    /\ UNCHANGED <<running, audioVars, videoVars, audioTx, wavs, errors>>

\* Bug: the session, and the sender in it, outlives the error.
MixAudioKeepsSender ==
    /\ stop = "joined"
    /\ \/ stop' = "mixed" /\ wavs' = sampled \cup {"written"} /\ UNCHANGED errors
       \/ stop' = "error" /\ CallFails /\ UNCHANGED wavs
    /\ UNCHANGED <<running, audioVars, videoVars, audioTx>>

\* The audio files; an error returns at once and drops the sender.
MixAudio ==
    /\ stop = "joined"
    /\ \/ stop' = "mixed" /\ wavs' = sampled \cup {"written"} /\ UNCHANGED <<audioTx, errors>>
       \/ stop' = "error" /\ audioTx' = "closed" /\ CallFails /\ UNCHANGED wavs
    /\ UNCHANGED <<running, audioVars, videoVars>>

HandOverMix ==
    /\ stop = "mixed"
    /\ stop' = "handed" /\ audioTx' = "sent"
    /\ UNCHANGED <<running, audioVars, videoVars, wavs, errors>>

JoinVideo ==
    /\ stop = "handed" /\ videoThread = "ended"
    /\ stop' = "ok"
    /\ UNCHANGED <<running, audioVars, videoVars, audioTx, wavs, errors>>

-----------------------------------------------------------------------------

VideoStep ==
    SetUpVideo \/ WriteFrame \/ Retarget \/ StopCapture \/ AwaitMix \/ FinalizeFile

StopCall == JoinAudio \/ MixAudio \/ HandOverMix \/ JoinVideo

WindowsNext ==
    \/ \E s \in Sources : AudioPacket(s) \/ AudioThreadEnds(s)
    \/ VideoStep \/ FrameArrived \/ WindowGone
    \/ TellThreads \/ StopCall

\* Threads run and COM calls return; the recording need not be stopped.
WindowsFairness ==
    /\ WF_windowsVars(VideoStep) /\ WF_windowsVars(StopCall)
    /\ \A s \in Sources : WF_windowsVars(AudioThreadEnds(s))

WindowsSpec == WindowsInit /\ [][WindowsNext]_windowsVars /\ WindowsFairness
-----------------------------------------------------------------------------
\* What is handed on after a successful stop is complete: the audio files hold all
\* that was heard, and the video file is closed, with every frame that was forwarded
\* and its sound, unless a call of the video thread failed.
StoppedIsWhole ==
    stop = "ok" =>
       /\ videoThread = "ended" /\ wavs = sampled \cup {"written"}
       /\ file = "whole" => writtenFrames = forwardedFrames
       /\ errors = 0 => file = "whole"

\* Liveness: once stop is called it returns, and no thread outlives it for ever, not
\* even the video thread of a stop that fails and never hands the mix over.
OwesAnEnd ==
    ~running /\ \/ stop \notin {"ok", "error"} \/ videoThread # "ended"
                \/ \E s \in Sources : audioThread[s] # "ended"

ThreadsEnd == []<>~OwesAnEnd
=============================================================================
