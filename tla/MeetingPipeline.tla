--------------------------- MODULE MeetingPipeline ---------------------------
(***************************************************************************)
(* The meeting pipeline: the bridge loop of crates/gilb-pipeline, the two  *)
(* countdown popups and the manual toggle of the shell, and the recorder   *)
(* of module Recorder, coupled by the broadcast bus, the stop-resolution   *)
(* channel and direct calls.                                               *)
(*                                                                         *)
(* Recorder's actions are taken as they are; its open environment is       *)
(* replaced by the bridge and the shell.  The bridge is one task: while    *)
(* it awaits recorder.stop it handles nothing else.  Detector events are   *)
(* not queued here: the bridge may meet any event at any time, which is    *)
(* what a FIFO of arbitrary events amounts to.                             *)
(***************************************************************************)
EXTENDS Recorder

CONSTANTS
    StopCapacity,   \* STOP_RESOLUTION_CAPACITY
    MaxEnds,        \* bound: Ended events that open the stop countdown
    MaxToggles,     \* bound: presses of the manual record toggle
    HoursPass       \* do behaviours last longer than MAX_RECORDING?

ASSUME PipelineAssumption ==
    /\ Meetings \subseteq Nat
    /\ StopCapacity \in Nat \ {0}
    /\ {MaxEnds, MaxToggles} \subseteq Nat
    /\ HoursPass \in BOOLEAN

VARIABLES
    recording,      \* BridgeState.recording, which the shell's AppState mirrors
    capDue,         \* BridgeState.cap_deadline is set
    bridgeInbox,    \* what the bridge's bus subscription still holds
    reporting,      \* the meeting stop_recording is working on
    reported,       \* calls of ui.recording_stopped, per meeting
    stopQueue,      \* stop resolutions on their way to the bridge
    startPopup,     \* the meeting whose start countdown is running
    stopPopup,      \* the meeting whose stop countdown is running
    armingSince,    \* AppState.arming_since is younger than ARMING_GRACE
    manualStarts,   \* manual starts spawned and not yet inserted
    manualRows,     \* manual rows inserted and not yet announced
    quitting,       \* stop_then_quit: "no", "waiting", "exited" or "gaveUp"
    ends,           \* Ended events so far
    toggles         \* toggles so far

bridgeVars == <<recording, capDue, bridgeInbox, reporting, reported>>
shellVars  == <<stopQueue, startPopup, stopPopup, armingSince, manualStarts,
                manualRows, quitting, ends, toggles>>
pipelineVars == <<recorderVars, bridgeVars, shellVars>>

Resolutions == [meeting : Meetings, keep : BOOLEAN]

PipelineTypeOK ==
    /\ TypeOK
    /\ {recording, reporting, startPopup, stopPopup} \subseteq Meetings \cup {NoMeeting}
    /\ {capDue, armingSince} \subseteq BOOLEAN
    /\ bridgeInbox \in Seq(Events)
    /\ reported \in [Meetings -> Nat]
    /\ stopQueue \in Seq(Resolutions)
    /\ Len(stopQueue) <= StopCapacity
    /\ manualRows \subseteq Meetings
    /\ {manualStarts, ends, toggles} \subseteq Nat
    /\ quitting \in {"no", "waiting", "exited", "gaveUp"}

PipelineInit ==
    /\ Init
    /\ recording = NoMeeting
    /\ capDue = FALSE
    /\ bridgeInbox = <<>>
    /\ reporting = NoMeeting
    /\ reported = [m \in Meetings |-> 0]
    /\ stopQueue = <<>>
    /\ startPopup = NoMeeting
    /\ stopPopup = NoMeeting
    /\ armingSince = FALSE
    /\ manualStarts = 0
    /\ manualRows = {}
    /\ quitting = "no"
    /\ ends = 0
    /\ toggles = 0

\* Row ids come from an autoincrement column.
NextRow(m) == status[m] = "absent" /\ \A k \in Meetings : k < m => status[k] # "absent"

\* Every subscriber of the bus gets the event.
PublishToBridge(event) == bridgeInbox' = Deliver(bridgeInbox, event)

-----------------------------------------------------------------------------
(* The bridge loop.                                                        *)

BridgeIdle == up /\ pc["bridge"] = "idle" /\ reporting = NoMeeting

\* Started: insert the row, then show its start countdown.  The popup is one
\* reused window: a countdown still running in it is replaced unresolved.
BridgeStarted(m) ==
    /\ BridgeIdle
    /\ NextRow(m)
    /\ OpenRow(m)
    /\ \/ startPopup' = m
       \/ UNCHANGED startPopup      \* the popup could not be opened
    /\ UNCHANGED <<bridgeVars, stopQueue, stopPopup, armingSince, manualStarts, manualRows,
                   quitting, ends, toggles>>

\* Bug: the capturer is stopped behind the recorder's back.
StopRecordingBypass(m) ==
    \/ recording # m /\ UNCHANGED <<recorderVars, recording, capDue, reporting, armingSince>>
    \/ /\ recording = m
       /\ recording' = NoMeeting
       /\ capDue' = FALSE
       /\ armingSince' = FALSE
       /\ reporting' = m
       /\ session' = NoMeeting
       /\ UNCHANGED <<claimVars, taskVars, busVars, rowVars, files, up, fresh,
                      budgetVars, faults>>

\* Bug: the deadline outlives the recording.
StopRecordingKeepsCap(m) ==
    \/ recording # m /\ UNCHANGED <<recorderVars, recording, capDue, reporting, armingSince>>
    \/ /\ recording = m
       /\ recording' = NoMeeting
       /\ armingSince' = FALSE
       /\ reporting' = m
       /\ BridgeStop
       /\ UNCHANGED capDue

\* Bug: every resolution stops, whatever is shown.
StopRecordingUngated(m) ==
    /\ recording' = NoMeeting
    /\ capDue' = FALSE
    /\ armingSince' = FALSE
    /\ reporting' = m
    /\ BridgeStop

\* stop_recording up to its call of recorder.stop: only for the meeting shown;
\* the indicator goes out first.
StopRecording(m) ==
    \/ /\ recording # m
       /\ UNCHANGED <<recorderVars, recording, capDue, reporting, armingSince>>
    \/ /\ recording = m
       /\ recording' = NoMeeting
       /\ capDue' = FALSE
       /\ armingSince' = FALSE
       /\ reporting' = m
       /\ BridgeStop

\* Ended, with something recording: show the stop countdown, or stop at once
\* when it cannot be shown.
BridgeEnded ==
    /\ BridgeIdle
    /\ recording # NoMeeting
    /\ ends < MaxEnds
    /\ ends' = ends + 1
    /\ \/ /\ stopPopup' = recording
          /\ UNCHANGED <<recorderVars, recording, capDue, reporting, armingSince>>
       \/ StopRecording(recording) /\ UNCHANGED stopPopup
    /\ UNCHANGED <<bridgeInbox, reported, stopQueue, startPopup, manualStarts, manualRows,
                   quitting, toggles>>

BridgeArmed ==
    /\ BridgeIdle
    /\ bridgeInbox # <<>>
    /\ Head(bridgeInbox).type = "Armed"
    /\ bridgeInbox' = Tail(bridgeInbox)
    /\ LET m == Head(bridgeInbox).meeting IN
         \/ /\ recording \notin {NoMeeting, m}
            /\ UNCHANGED <<recording, capDue, armingSince>>
         \/ /\ recording \in {NoMeeting, m}
            /\ recording' = m
            /\ capDue' = TRUE
            /\ armingSince' = FALSE
    /\ UNCHANGED <<recorderVars, reporting, reported, stopQueue, startPopup,
                   stopPopup, manualStarts, manualRows, quitting, ends, toggles>>

BridgeCancelled ==
    /\ BridgeIdle
    /\ bridgeInbox # <<>>
    /\ Head(bridgeInbox).type = "Cancelled"
    /\ bridgeInbox' = Tail(bridgeInbox)
    /\ \/ /\ recording # Head(bridgeInbox).meeting
          /\ UNCHANGED <<recording, capDue, armingSince>>
       \/ /\ recording = Head(bridgeInbox).meeting
          /\ recording' = NoMeeting
          /\ capDue' = FALSE
          /\ armingSince' = FALSE
    /\ UNCHANGED <<recorderVars, reporting, reported, stopQueue, startPopup,
                   stopPopup, manualStarts, manualRows, quitting, ends, toggles>>

BridgeResolution ==
    /\ BridgeIdle
    /\ stopQueue # <<>>
    /\ stopQueue' = Tail(stopQueue)
    /\ \/ /\ Head(stopQueue).keep
          /\ UNCHANGED <<recorderVars, recording, capDue, reporting, armingSince>>
       \/ /\ ~Head(stopQueue).keep
          /\ StopRecording(Head(stopQueue).meeting)
    /\ UNCHANGED <<bridgeInbox, reported, startPopup, stopPopup, manualStarts, manualRows,
                   quitting, ends, toggles>>

\* Bug: the cap fires and nothing is stopped.
BridgeCapForgets ==
    /\ BridgeIdle
    /\ HoursPass
    /\ capDue
    /\ capDue' = FALSE
    /\ UNCHANGED <<recorderVars, recording, bridgeInbox, reporting, reported, shellVars>>

\* MAX_RECORDING has elapsed since the recording armed.
BridgeCap ==
    /\ BridgeIdle
    /\ HoursPass
    /\ capDue
    /\ \/ recording # NoMeeting /\ StopRecording(recording)
       \/ /\ recording = NoMeeting
          /\ capDue' = FALSE
          /\ UNCHANGED <<recorderVars, recording, reporting, armingSince>>
    /\ UNCHANGED <<bridgeInbox, reported, stopQueue, startPopup, stopPopup,
                   manualStarts, manualRows, quitting, ends, toggles>>

\* recorder.stop has returned, with or without an error: tell the shell, which
\* queues the meeting for transcription.
ReportStopped ==
    /\ up
    /\ pc["bridge"] = "idle"
    /\ reporting # NoMeeting
    /\ reported' = [reported EXCEPT ![reporting] = @ + 1]
    /\ reporting' = NoMeeting
    /\ UNCHANGED <<recorderVars, recording, capDue, bridgeInbox, shellVars>>

-----------------------------------------------------------------------------
(* The shell.                                                              *)

\* The start countdown ran out or "Record" was pressed; or it was declined.
CountdownArmed(m) ==
    /\ startPopup = m
    /\ PublishArmed(m)
    /\ PublishToBridge([type |-> "Armed", meeting |-> m])
    /\ startPopup' = NoMeeting
    /\ UNCHANGED <<recording, capDue, reporting, reported, stopQueue, stopPopup,
                   armingSince, manualStarts, manualRows, quitting, ends, toggles>>

CountdownCancelled(m) ==
    /\ startPopup = m
    /\ PublishCancelled(m)
    /\ PublishToBridge([type |-> "Cancelled", meeting |-> m])
    /\ startPopup' = NoMeeting
    /\ UNCHANGED <<recording, capDue, reporting, reported, stopQueue, stopPopup,
                   armingSince, manualStarts, manualRows, quitting, ends, toggles>>

\* Bug: an unbounded channel.
SendResolutionUnbounded(resolution) == stopQueue' = Append(stopQueue, resolution)

SendResolution(resolution) ==
    /\ Len(stopQueue) < StopCapacity
    /\ stopQueue' = Append(stopQueue, resolution)

\* The stop countdown ran out, "Stop" was pressed, or "Keep recording" was.
StopCountdownResolved ==
    /\ up
    /\ stopPopup # NoMeeting
    /\ \E keep \in BOOLEAN : SendResolution([meeting |-> stopPopup, keep |-> keep])
    /\ stopPopup' = NoMeeting
    /\ UNCHANGED <<recorderVars, bridgeVars, startPopup, armingSince,
                   manualStarts, manualRows, quitting, ends, toggles>>

\* recording::toggle, from the tray or the shortcut.  With a recording shown it
\* asks for a stop, as the Stop control of the main window does; without one
\* it spawns a manual start, unless one is younger than ARMING_GRACE.
Toggle ==
    /\ up
    /\ toggles < MaxToggles
    /\ toggles' = toggles + 1
    /\ \/ /\ recording # NoMeeting
          /\ SendResolution([meeting |-> recording, keep |-> FALSE])
          /\ UNCHANGED <<armingSince, manualStarts, manualRows>>
       \/ /\ recording = NoMeeting
          /\ ~armingSince
          /\ armingSince' = TRUE
          /\ manualStarts' = manualStarts + 1
          /\ UNCHANGED stopQueue
    /\ UNCHANGED <<recorderVars, bridgeVars, startPopup, stopPopup, manualRows,
                   quitting, ends>>

GraceElapsed ==
    /\ armingSince
    /\ armingSince' = FALSE
    /\ UNCHANGED <<recorderVars, bridgeVars, stopQueue, startPopup, stopPopup,
                   manualStarts, manualRows, quitting, ends, toggles>>

\* The spawned start: insert the row, or fail to and release the guard ...
ManualInsert(m) ==
    /\ manualStarts > 0
    /\ manualStarts' = manualStarts - 1
    /\ NextRow(m)
    /\ OpenRow(m)
    /\ manualRows' = manualRows \cup {m}
    /\ UNCHANGED <<bridgeVars, stopQueue, startPopup, stopPopup, armingSince,
                   quitting, ends, toggles>>

ManualInsertFails ==
    /\ up
    /\ manualStarts > 0
    /\ manualStarts' = manualStarts - 1
    /\ armingSince' = FALSE
    /\ UNCHANGED <<recorderVars, bridgeVars, stopQueue, startPopup, stopPopup,
                   manualRows, quitting, ends, toggles>>

\* ... and publish Armed for it.
ManualArmed(m) ==
    /\ m \in manualRows
    /\ manualRows' = manualRows \ {m}
    /\ PublishArmed(m)
    /\ PublishToBridge([type |-> "Armed", meeting |-> m])
    /\ UNCHANGED <<recording, capDue, reporting, reported, stopQueue, startPopup,
                   stopPopup, armingSince, manualStarts, quitting, ends, toggles>>

-----------------------------------------------------------------------------
(* Process death and exit.                                                 *)

Gone ==
    /\ recording' = NoMeeting
    /\ capDue' = FALSE
    /\ bridgeInbox' = <<>>
    /\ reporting' = NoMeeting
    /\ stopQueue' = <<>>
    /\ startPopup' = NoMeeting
    /\ stopPopup' = NoMeeting
    /\ armingSince' = FALSE
    /\ manualStarts' = 0
    /\ manualRows' = {}
    /\ UNCHANGED <<reported, ends, toggles>>

PipelineCrash ==
    /\ Crash
    /\ Gone
    /\ quitting' = "no"

PipelineRestart ==
    /\ Restart
    /\ quitting' = "no"
    /\ UNCHANGED <<bridgeVars, stopQueue, startPopup, stopPopup, armingSince,
                   manualStarts, manualRows, ends, toggles>>

\* stop_then_quit: with a recording shown, ask for its stop first.
Quit ==
    /\ up
    /\ quitting = "no"
    /\ recording # NoMeeting
    /\ SendResolution([meeting |-> recording, keep |-> FALSE])
    /\ quitting' = "waiting"
    /\ UNCHANGED <<recorderVars, bridgeVars, startPopup, stopPopup, armingSince,
                   manualStarts, manualRows, ends, toggles>>

\* ... then exit as soon as a poll of AppState finds no recording shown; with
\* nothing shown at the outset, at once.  To the rest of the program it is a
\* process death, so it draws on the same bound.
Exit ==
    /\ quitting \in {"no", "waiting"}
    /\ recording = NoMeeting
    /\ Crash
    /\ Gone
    /\ quitting' = "exited"

\* ... or after a hundred polls, whatever is shown.
ExitAtCeiling ==
    /\ quitting = "waiting"
    /\ Crash
    /\ Gone
    /\ quitting' = "gaveUp"

-----------------------------------------------------------------------------

RunTask == RunStep /\ UNCHANGED <<bridgeVars, shellVars>>

BridgeStep ==
    \/ StopStep("bridge") /\ UNCHANGED <<bridgeVars, shellVars>>
    \/ ReportStopped
    \/ BridgeArmed
    \/ BridgeCancelled
    \/ BridgeResolution
    \/ BridgeCap

ShellStep ==
    \/ \E m \in Meetings :
          \/ BridgeStarted(m) \/ CountdownArmed(m) \/ CountdownCancelled(m)
          \/ ManualInsert(m) \/ ManualArmed(m)
    \/ BridgeEnded
    \/ StopCountdownResolved
    \/ Toggle
    \/ GraceElapsed
    \/ ManualInsertFails
    \/ PipelineCrash
    \/ PipelineRestart
    \/ Quit
    \/ Exit
    \/ ExitAtCeiling

PipelineNext == RunTask \/ BridgeStep \/ ShellStep

\* The two tasks are scheduled while they have a step to take and their timers
\* fire (the cap among them; tokio::select! polls its ready branches in random
\* order, so a branch that stays ready is taken).  Nothing is assumed of the
\* user, of the detector, or of the process not dying.
PipelineFairness ==
    /\ WF_pipelineVars(RunTask)
    /\ WF_pipelineVars(BridgeStep)
    /\ SF_pipelineVars(BridgeCap)

PipelineSpec == PipelineInit /\ [][PipelineNext]_pipelineVars /\ PipelineFairness
-----------------------------------------------------------------------------
(* Safety.                                                                 *)

\* The pipeline is a legal environment of the recorder: whatever is proved or
\* checked of Recorder holds of the recorder inside the pipeline.
RecorderContract == Init /\ [][Next]_recorderVars

\* The cap watches exactly the recordings the bridge shows: a deadline left
\* behind would stop the next meeting early, one forgotten would never stop.
CapIffRecording == capDue <=> recording # NoMeeting

Announced(m) ==
    \/ startPopup = m
    \/ m \in manualRows
    \/ [type |-> "Armed", meeting |-> m] \in {bridgeInbox[i] : i \in DOMAIN bridgeInbox}
    \/ recording = m
    \/ reporting = m

\* A meeting is handed to transcription at most once, however many stops were
\* asked for (both popups, the toggle, the Stop control, the cap, quitting),
\* and one handed over cannot come back to be shown or announced.
HandedOverOnce ==
    \A m \in Meetings :
        /\ reported[m] <= 1
        /\ reported[m] = 1 => ~Announced(m)

\* Liveness: a capture that is shown ends, at the latest by the cap, whatever
\* became of the popups, the detector and the claim in the meantime.
ShownCaptureEnds ==
    \A m \in Meetings : (session = m /\ recording = m) ~> session # m

-----------------------------------------------------------------------------
(* What comments of the code say of it and the code does not do.           *)

\* MAX_RECORDING: "capture auto-stops 3h in regardless of detector events, so
\* a stuck or forgotten recording can't keep capturing screen + mic ...
\* forever": once the bridge has seen every event, a claimed capture has a
\* deadline.  A stop that overtakes the recorder's own Armed event leaves a
\* capture without one.
ClaimedCaptureIsCapped ==
    active # NoMeeting /\ BridgeIdle /\ bridgeInbox = <<>> => capDue

\* stop_recording: a resolution "must not kill a different meeting's capture".
\* Declining the countdown of one meeting stops the capture of another.
DeclineStopsItsOwn ==
    [][pc["run"] = "idle" /\ pc'["run"] = "teardown"
          => who'["run"] = Head(inbox).meeting]_pipelineVars

\* stop_then_quit: "Wait for the pipeline to finalize the capture": unless the
\* ceiling is hit, the process exits with no stop in progress.
QuitWaitsForFinalize ==
    [][quitting = "waiting" /\ quitting' = "exited" => reporting = NoMeeting]_pipelineVars
=============================================================================
