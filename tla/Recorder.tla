------------------------------ MODULE Recorder ------------------------------
(***************************************************************************)
(* The recorder of crates/gilb-record: the claim that serialises captures  *)
(* (State { active, arming }), the arm procedure with its bounded retry,   *)
(* the stop procedure, the capturer's session, the meetings row each of    *)
(* them stamps and the files they leave on disk, across crashes.           *)
(*                                                                         *)
(* Two tasks call it.  "run" is Recorder::run, which takes one recording   *)
(* event at a time from its bus subscription and arms or stops inline;     *)
(* "bridge" is the meeting bridge, which calls Recorder::stop whenever it  *)
(* likes.  A program point is a place where a task has let go of the state *)
(* mutex or of the capturer's mutex, or awaits the database or a timer:    *)
(* between two of them nothing of the other task can be seen.              *)
(***************************************************************************)
EXTENDS Integers, Sequences, FiniteSets

CONSTANTS
    Meetings,       \* ids of meetings rows
    NoMeeting,      \* Option::None
    StartAttempts,  \* START_ATTEMPTS
    BusCapacity,    \* ring size of the broadcast bus
    MaxArms,        \* bound: Armed events published for one meeting
    MaxCancels,     \* bound: Cancelled events published for one meeting
    MaxFaults,      \* bound: storage operations (UPDATE, unlink) that fail
    MaxCrashes      \* bound: process deaths

ASSUME RecorderAssumption ==
    /\ NoMeeting \notin Meetings
    /\ StartAttempts \in Nat \ {0}
    /\ BusCapacity \in Nat \ {0}
    /\ MaxArms \in Nat
    /\ MaxCancels \in Nat
    /\ MaxFaults \in Nat
    /\ MaxCrashes \in Nat

Tasks == {"run", "bridge"}

Outcomes == {"completed", "cancelled", "failed"}

Statuses == {"absent", "recording"} \cup Outcomes

\* "partial": debris of a refused start, or a capture cut short.
FileStates == {"none", "partial", "open", "final"}

\* Points of Recorder::arm, reached only by the run task ...
ArmPoints == {"busy", "prepare", "start", "backoff", "giveup", "failStamp",
              "claim", "unwind", "unwindStamp", "paths"}

\* ... and of Recorder::stop, reached by either task.
StopPoints == {"teardown", "finalize", "stamp"}

Points == {"idle"} \cup ArmPoints \cup StopPoints

Events == [type : {"Armed", "Cancelled"}, meeting : Meetings]

VARIABLES
    active,     \* State.active: the meeting whose capture is live
    arming,     \* State.arming: the meeting whose capture is being brought up
    session,    \* the capturer's session: the meeting being captured
    pc,         \* task -> its program point
    who,        \* task -> the meeting its call in progress is about
    outcome,    \* task -> the status its stop in progress will stamp
                \*   ("completed" outside a stop)
    attempt,    \* loop variable of arm (1 outside the loop)
    inbox,      \* what the recorder's bus subscription still holds
    missed,     \* meetings whose Armed event the ring dropped before we saw it
    status,     \* meetings.status, "absent" before the INSERT
    paths,      \* meetings.video_path / audio_path are set
    files,      \* the meeting's folder
    up,         \* the process lives
    fresh,      \* rows inserted by this process: the ones events may name
    arms,       \* Armed events published for a meeting
    cancels,    \* Cancelled events published for a meeting
    faults,     \* storage operations that failed so far
    crashes     \* process deaths so far

claimVars   == <<active, arming>>
taskVars    == <<pc, who, outcome, attempt>>
busVars     == <<inbox, missed>>
rowVars     == <<status, paths>>
budgetVars  == <<arms, cancels, crashes>>
recorderVars == <<active, arming, session, pc, who, outcome, attempt, inbox,
                  missed, status, paths, files, up, fresh, arms, cancels, faults,
                  crashes>>

TypeOK ==
    /\ active \in Meetings \cup {NoMeeting}
    /\ arming \in Meetings \cup {NoMeeting}
    /\ session \in Meetings \cup {NoMeeting}
    /\ pc \in [Tasks -> Points]
    /\ who \in [Tasks -> Meetings \cup {NoMeeting}]
    /\ outcome \in [Tasks -> Outcomes]
    /\ attempt \in 1..StartAttempts
    /\ inbox \in Seq(Events)
    /\ missed \in SUBSET Meetings
    /\ status \in [Meetings -> Statuses]
    /\ paths \in [Meetings -> BOOLEAN]
    /\ files \in [Meetings -> FileStates]
    /\ up \in BOOLEAN
    /\ fresh \in SUBSET Meetings
    /\ arms \in [Meetings -> 0..MaxArms]
    /\ cancels \in [Meetings -> 0..MaxCancels]
    /\ faults \in 0..MaxFaults
    /\ crashes \in 0..MaxCrashes

Init ==
    /\ active = NoMeeting
    /\ arming = NoMeeting
    /\ session = NoMeeting
    /\ pc = [t \in Tasks |-> "idle"]
    /\ who = [t \in Tasks |-> NoMeeting]
    /\ outcome = [t \in Tasks |-> "completed"]
    /\ attempt = 1
    /\ inbox = <<>>
    /\ missed = {}
    /\ status = [m \in Meetings |-> "absent"]
    /\ paths = [m \in Meetings |-> FALSE]
    /\ files = [m \in Meetings |-> "none"]
    /\ up = TRUE
    /\ fresh = {}
    /\ arms = [m \in Meetings |-> 0]
    /\ cancels = [m \in Meetings |-> 0]
    /\ faults = 0
    /\ crashes = 0

-----------------------------------------------------------------------------
(* Storage.  An UPDATE or an unlink either happens or fails; the code logs *)
(* the failure and carries on.                                             *)

StorageFault == faults < MaxFaults /\ faults' = faults + 1

FinishMeeting(m, s) ==
    \/ status' = [status EXCEPT ![m] = s] /\ UNCHANGED faults
    \/ StorageFault /\ UNCHANGED status

ClearFailedAttempt(m) ==
    \/ files' = [files EXCEPT ![m] = "none"] /\ UNCHANGED faults
    \/ /\ files[m] # "none"
       /\ StorageFault
       /\ files' = [files EXCEPT ![m] = "partial"]

Goto(t, p) == pc' = [pc EXCEPT ![t] = p]

\* The call returns: its locals go out of scope.
Return(t) == Goto(t, "idle") /\ who' = [who EXCEPT ![t] = NoMeeting]

\* A slow subscriber loses the oldest message of the ring (RecvError::Lagged).
Deliver(queue, event) ==
    IF Len(queue) < BusCapacity THEN Append(queue, event)
                                ELSE Append(Tail(queue), event)

Publish(event) ==
    /\ inbox' = Deliver(inbox, event)
    /\ missed' = IF Len(inbox) = BusCapacity /\ Head(inbox).type = "Armed"
                 THEN missed \cup {Head(inbox).meeting}
                 ELSE missed

-----------------------------------------------------------------------------
(* The callers: rows are inserted before any event names them.             *)

InsertMeeting(m) ==
    /\ up
    /\ status[m] = "absent"
    /\ status' = [status EXCEPT ![m] = "recording"]
    /\ fresh' = fresh \cup {m}

OpenRow(m) ==
    /\ InsertMeeting(m)
    /\ UNCHANGED <<claimVars, taskVars, session, busVars, paths, files, up,
                   budgetVars, faults>>

PublishArmed(m) ==
    /\ up
    /\ m \in fresh
    /\ arms[m] < MaxArms
    /\ arms' = [arms EXCEPT ![m] = @ + 1]
    /\ Publish([type |-> "Armed", meeting |-> m])
    /\ UNCHANGED <<claimVars, taskVars, session, rowVars, files, up, fresh,
                   cancels, faults, crashes>>

PublishCancelled(m) ==
    /\ up
    /\ m \in fresh
    /\ cancels[m] < MaxCancels
    /\ cancels' = [cancels EXCEPT ![m] = @ + 1]
    /\ Publish([type |-> "Cancelled", meeting |-> m])
    /\ UNCHANGED <<claimVars, taskVars, session, rowVars, files, up, fresh,
                   arms, faults, crashes>>

-----------------------------------------------------------------------------
(* Recorder::arm.                                                          *)

AlreadyHandling(m) == active = m \/ arming = m

Busy == active # NoMeeting \/ arming # NoMeeting

ReceiveArmed ==
    /\ up
    /\ pc["run"] = "idle"
    /\ inbox # <<>>
    /\ Head(inbox).type = "Armed"
    /\ inbox' = Tail(inbox)
    /\ LET m == Head(inbox).meeting IN
         \/ /\ AlreadyHandling(m)
            /\ UNCHANGED <<arming, pc, who>>
         \/ /\ ~AlreadyHandling(m)
            /\ Busy
            /\ Goto("run", "busy")
            /\ who' = [who EXCEPT !["run"] = m]
            /\ UNCHANGED arming
         \/ /\ ~AlreadyHandling(m)
            /\ ~Busy
            /\ arming' = m
            /\ Goto("run", "prepare")
            /\ who' = [who EXCEPT !["run"] = m]
    /\ UNCHANGED <<active, session, outcome, attempt, rowVars, files, up,
                   fresh, budgetVars, missed, faults>>

\* Bug: the refused meeting's row is forgotten.
StampBusyForgets ==
    /\ pc["run"] = "busy"
    /\ Return("run")
    /\ UNCHANGED <<claimVars, session, outcome, attempt, busVars, rowVars,
                   files, up, fresh, budgetVars, faults>>

\* The refused meeting's row is retired.
StampBusy ==
    /\ pc["run"] = "busy"
    /\ FinishMeeting(who["run"], "cancelled")
    /\ Return("run")
    /\ UNCHANGED <<claimVars, session, outcome, attempt, busVars, paths,
                   files, up, fresh, budgetVars>>

\* The meeting's folder is created, or cannot be.
Prepare ==
    /\ pc["run"] = "prepare"
    /\ \/ Goto("run", "start") /\ UNCHANGED arming
       \/ /\ Goto("run", "failStamp")
          /\ arming' = IF arming = who["run"] THEN NoMeeting ELSE arming
    /\ UNCHANGED <<active, session, who, outcome, attempt, busVars, rowVars,
                   files, up, fresh, budgetVars, faults>>

\* capturer.start, which holds the session mutex for the whole call: it brings
\* up a session, or fails, at once while there is one and otherwise perhaps
\* with a file already created.
CapturerStarts(m) ==
    /\ session = NoMeeting
    /\ session' = m
    /\ files' = [files EXCEPT ![m] = "open"]

CapturerRefuses(m) ==
    /\ UNCHANGED session
    /\ \/ UNCHANGED files
       \/ session = NoMeeting /\ files' = [files EXCEPT ![m] = "partial"]

\* Bug: one attempt too many.
TryStartOffByOne ==
    /\ pc["run"] = "start"
    /\ \/ CapturerStarts(who["run"]) /\ Goto("run", "claim")
       \/ /\ CapturerRefuses(who["run"])
          /\ Goto("run", IF attempt > StartAttempts THEN "giveup" ELSE "backoff")
    /\ UNCHANGED <<claimVars, who, outcome, attempt, busVars, rowVars, up, fresh,
                   budgetVars, faults>>

\* One turn of the retry loop.  Past the last attempt there is no backoff and
\* the failure path runs.
TryStart ==
    /\ pc["run"] = "start"
    /\ \/ CapturerStarts(who["run"]) /\ Goto("run", "claim")
       \/ /\ CapturerRefuses(who["run"])
          /\ Goto("run", IF attempt = StartAttempts THEN "giveup" ELSE "backoff")
    /\ UNCHANGED <<claimVars, who, outcome, attempt, busVars, rowVars, up, fresh,
                   budgetVars, faults>>

\* Bug: the attempts are not counted.
RetryForever ==
    /\ pc["run"] = "backoff"
    /\ arming = who["run"]
    /\ ClearFailedAttempt(who["run"])
    /\ Goto("run", "start")
    /\ UNCHANGED <<claimVars, session, who, outcome, attempt, busVars, rowVars, up,
                   fresh, budgetVars>>

\* The backoff has elapsed and nobody stopped us: clear the debris, try again.
Retry ==
    /\ pc["run"] = "backoff"
    /\ arming = who["run"]
    /\ attempt' = attempt + 1
    /\ ClearFailedAttempt(who["run"])
    /\ Goto("run", "start")
    /\ UNCHANGED <<claimVars, session, who, outcome, busVars, rowVars, up, fresh,
                   budgetVars>>

\* The backoff has elapsed and a stop cleared the claim meanwhile.
Abandoned ==
    /\ pc["run"] = "backoff"
    /\ arming # who["run"]
    /\ Goto("run", "giveup")
    /\ UNCHANGED <<claimVars, session, who, outcome, attempt, busVars, rowVars,
                   files, up, fresh, budgetVars, faults>>

\* Bug: the last attempt's debris stays on disk.
GiveUpLeavesDebris ==
    /\ pc["run"] = "giveup"
    /\ arming' = IF arming = who["run"] THEN NoMeeting ELSE arming
    /\ Goto("run", "failStamp")
    /\ attempt' = 1
    /\ UNCHANGED <<active, session, who, outcome, busVars, rowVars, files, up,
                   fresh, budgetVars, faults>>

\* clear_failed_attempt, then abandon_arming up to its UPDATE.
GiveUp ==
    /\ pc["run"] = "giveup"
    /\ ClearFailedAttempt(who["run"])
    /\ arming' = IF arming = who["run"] THEN NoMeeting ELSE arming
    /\ Goto("run", "failStamp")
    /\ attempt' = 1
    /\ UNCHANGED <<active, session, who, outcome, busVars, rowVars, up,
                   fresh, budgetVars>>

StampFailed ==
    /\ pc["run"] = "failStamp"
    /\ FinishMeeting(who["run"], "failed")
    /\ Return("run")
    /\ UNCHANGED <<claimVars, session, outcome, attempt, busVars, paths,
                   files, up, fresh, budgetVars>>

\* Bug: a start that lost its claim is not taken down.
ClaimDropsRefused ==
    /\ pc["run"] = "claim"
    /\ \/ /\ arming = who["run"]
          /\ arming' = NoMeeting
          /\ active' = who["run"]
          /\ Goto("run", "paths")
       \/ /\ arming # who["run"]
          /\ Goto("run", "unwindStamp")
          /\ UNCHANGED claimVars
    /\ attempt' = 1
    /\ UNCHANGED <<session, who, outcome, busVars, rowVars, files, up,
                   fresh, budgetVars, faults>>

\* Bug: the claim is not looked at again once the capture is live.
ClaimUnchecked ==
    /\ pc["run"] = "claim"
    /\ arming' = NoMeeting
    /\ active' = who["run"]
    /\ Goto("run", "paths")
    /\ attempt' = 1
    /\ UNCHANGED <<session, who, outcome, busVars, rowVars, files, up,
                   fresh, budgetVars, faults>>

\* Capture is live: take it over under the lock, unless a stop came first.
Claim ==
    /\ pc["run"] = "claim"
    /\ \/ /\ arming = who["run"]
          /\ arming' = NoMeeting
          /\ active' = who["run"]
          /\ Goto("run", "paths")
       \/ /\ arming # who["run"]
          /\ Goto("run", "unwind")
          /\ UNCHANGED claimVars
    /\ attempt' = 1
    /\ UNCHANGED <<session, who, outcome, busVars, rowVars, files, up,
                   fresh, budgetVars, faults>>

\* Bug: the paths of a capture already stopped are not recorded.
SetRecordingPathsIfActive ==
    /\ pc["run"] = "paths"
    /\ paths' = [paths EXCEPT ![who["run"]] = (active = who["run"])]
    /\ Return("run")
    /\ UNCHANGED <<claimVars, session, outcome, attempt, busVars, status,
                   files, up, fresh, budgetVars, faults>>

\* set_recording_paths; a failed UPDATE leaves the claimed capture running.
SetRecordingPaths ==
    /\ pc["run"] = "paths"
    /\ \/ paths' = [paths EXCEPT ![who["run"]] = TRUE] /\ UNCHANGED faults
       \/ StorageFault /\ UNCHANGED paths
    /\ Return("run")
    /\ UNCHANGED <<claimVars, session, outcome, attempt, busVars, status,
                   files, up, fresh, budgetVars>>

\* capturer.stop on the capture nobody wants, and its files removed again.
Unwind ==
    /\ pc["run"] = "unwind"
    /\ session' = NoMeeting
    /\ ClearFailedAttempt(who["run"])
    /\ Goto("run", "unwindStamp")
    /\ UNCHANGED <<claimVars, who, outcome, attempt, busVars, rowVars, up, fresh,
                   budgetVars>>

StampUnwound ==
    /\ pc["run"] = "unwindStamp"
    /\ FinishMeeting(who["run"], "cancelled")
    /\ Return("run")
    /\ UNCHANGED <<claimVars, session, outcome, attempt, busVars, paths,
                   files, up, fresh, budgetVars>>

-----------------------------------------------------------------------------
(* Recorder::stop, called by task t with outcome o.                        *)

\* Bug: the active recording is read, not taken.
StopBeginKeepsActive(t, o) ==
    /\ arming' = NoMeeting
    /\ UNCHANGED active
    /\ \/ /\ active = NoMeeting
          /\ UNCHANGED <<pc, who, outcome>>
       \/ /\ active # NoMeeting
          /\ Goto(t, "teardown")
          /\ who' = [who EXCEPT ![t] = active]
          /\ outcome' = [outcome EXCEPT ![t] = o]

StopBegin(t, o) ==
    /\ arming' = NoMeeting
    /\ active' = NoMeeting
    /\ \/ /\ active = NoMeeting
          /\ UNCHANGED <<pc, who, outcome>>
       \/ /\ active # NoMeeting
          /\ Goto(t, "teardown")
          /\ who' = [who EXCEPT ![t] = active]
          /\ outcome' = [outcome EXCEPT ![t] = o]

\* Cancelled on the bus: run stops, whatever meeting the event names.
ReceiveCancelled ==
    /\ up
    /\ pc["run"] = "idle"
    /\ inbox # <<>>
    /\ Head(inbox).type = "Cancelled"
    /\ inbox' = Tail(inbox)
    /\ StopBegin("run", "cancelled")
    /\ UNCHANGED <<session, attempt, rowVars, files, up, fresh, budgetVars, missed,
                   faults>>

BridgeStop ==
    /\ up
    /\ pc["bridge"] = "idle"
    /\ StopBegin("bridge", "completed")
    /\ UNCHANGED <<session, attempt, busVars, rowVars, files, up, fresh,
                   budgetVars, faults>>

\* Bug: the row is stamped while the files are still being finalized.
TeardownSkipsFinalize(t) ==
    /\ pc[t] = "teardown"
    /\ session' = NoMeeting
    /\ Goto(t, "stamp")
    /\ UNCHANGED <<claimVars, who, outcome, attempt, busVars, rowVars, files, up,
                   fresh, budgetVars, faults>>

\* capturer.stop: take the session and stop its streams; it errs without one.
Teardown(t) ==
    /\ pc[t] = "teardown"
    /\ \/ /\ session # NoMeeting
          /\ session' = NoMeeting
          /\ Goto(t, "finalize")
          /\ UNCHANGED outcome
       \/ /\ session = NoMeeting
          /\ Goto(t, "stamp")
          /\ outcome' = [outcome EXCEPT ![t] = "failed"]
          /\ UNCHANGED session
    /\ UNCHANGED <<claimVars, who, attempt, busVars, rowVars, files, up, fresh,
                   budgetVars, faults>>

\* Bug: an error of the mux is swallowed.
FinalizeSwallowsError(t) ==
    /\ pc[t] = "finalize"
    /\ \E f \in {"final", "partial"} : files' = [files EXCEPT ![who[t]] = f]
    /\ Goto(t, "stamp")
    /\ UNCHANGED <<claimVars, session, who, outcome, attempt, busVars, rowVars, up,
                   fresh, budgetVars, faults>>

\* The rest of capturer.stop, outside the session mutex: write the audio, mux.
Finalize(t) ==
    /\ pc[t] = "finalize"
    /\ \/ /\ files' = [files EXCEPT ![who[t]] = "final"]
          /\ UNCHANGED outcome
       \/ /\ files' = [files EXCEPT ![who[t]] = "partial"]
          /\ outcome' = [outcome EXCEPT ![t] = "failed"]
    /\ Goto(t, "stamp")
    /\ UNCHANGED <<claimVars, session, who, attempt, busVars, rowVars, up, fresh,
                   budgetVars, faults>>

StampStopped(t) ==
    /\ pc[t] = "stamp"
    /\ FinishMeeting(who[t], outcome[t])
    /\ Return(t)
    /\ outcome' = [outcome EXCEPT ![t] = "completed"]
    /\ UNCHANGED <<claimVars, session, attempt, busVars, paths,
                   files, up, fresh, budgetVars>>

-----------------------------------------------------------------------------
(* The process dies with everything it held in memory; a capture being     *)
(* written or finalized is cut short.  At the next launch the engine       *)
(* retires the rows left in "recording" before any task is spawned.        *)

Crash ==
    /\ up
    /\ crashes < MaxCrashes
    /\ crashes' = crashes + 1
    /\ up' = FALSE
    /\ active' = NoMeeting
    /\ arming' = NoMeeting
    /\ session' = NoMeeting
    /\ pc' = [t \in Tasks |-> "idle"]
    /\ who' = [t \in Tasks |-> NoMeeting]
    /\ inbox' = <<>>
    /\ missed' = {}
    /\ fresh' = {}
    /\ files' = [m \in Meetings |-> IF files[m] = "open" THEN "partial" ELSE files[m]]
    /\ outcome' = [t \in Tasks |-> "completed"]
    /\ attempt' = 1
    /\ UNCHANGED <<rowVars, arms, cancels, faults>>

\* Bug: the sweep's UPDATE has no WHERE.
RestartFailsAll ==
    /\ ~up
    /\ up' = TRUE
    /\ status' = [m \in Meetings |-> IF status[m] = "absent" THEN "absent" ELSE "failed"]
    /\ UNCHANGED <<claimVars, taskVars, session, busVars, paths, files, fresh,
                   budgetVars, faults>>

Restart ==
    /\ ~up
    /\ up' = TRUE
    /\ \/ /\ status' = [m \in Meetings |->
                          IF status[m] = "recording" THEN "failed" ELSE status[m]]
          /\ UNCHANGED faults
       \/ StorageFault /\ UNCHANGED status
    /\ UNCHANGED <<claimVars, taskVars, session, busVars, paths, files, fresh,
                   budgetVars>>

-----------------------------------------------------------------------------

ArmStep ==
    \/ StampBusy \/ Prepare \/ TryStart \/ Retry \/ Abandoned \/ GiveUp
    \/ StampFailed \/ Claim \/ SetRecordingPaths \/ Unwind \/ StampUnwound

StopStep(t) == Teardown(t) \/ Finalize(t) \/ StampStopped(t)

RunStep == ReceiveArmed \/ ReceiveCancelled \/ ArmStep \/ StopStep("run")

Environment ==
    \/ \E m \in Meetings : OpenRow(m) \/ PublishArmed(m) \/ PublishCancelled(m)
    \/ BridgeStop
    \/ Crash
    \/ Restart

Next == RunStep \/ StopStep("bridge") \/ Environment

\* Each task is scheduled again while it has a step to take: the runtime polls
\* ready tasks, backoff timers fire and the capturer's calls return.
Fairness == WF_recorderVars(RunStep) /\ WF_recorderVars(StopStep("bridge"))

Spec == Init /\ [][Next]_recorderVars /\ Fairness
-----------------------------------------------------------------------------
(* Safety.                                                                 *)

InStart == pc["run"] \in {"prepare", "start", "backoff", "giveup", "claim"}

\* A capture is somebody's: it is the claimed one, or arm is about to claim it
\* or to take it down again, or a stop is about to take it down.  Without an
\* owner it would record the screen and the microphone with nothing left in
\* the program that could stop it ("an orphan recording that nothing will ever
\* stop", Recorder::arm).
NoOrphanCapture ==
    session # NoMeeting =>
        \/ active = session
        \/ pc["run"] \in {"claim", "unwind"} /\ who["run"] = session
        \/ \E t \in Tasks : pc[t] = "teardown" /\ who[t] = session

\* The other direction: capturer.stop names no meeting and takes down whatever
\* session it finds, so each place that calls it must find its own, whatever
\* the other task did since it decided to.
StopTakesOwnSession ==
    /\ \A t \in Tasks : pc[t] = "teardown" => session = who[t]
    /\ pc["run"] = "unwind" => session = who["run"]
    /\ active # NoMeeting => session = active

Handled(m) == \E t \in Tasks : pc[t] # "idle" /\ who[t] = m

\* A meeting armed once and stamped is over: it is neither captured nor claimed
\* any more, and "completed" is said only of a finalized recording.  A restart
\* can find a completed row only with whole files.
SettledIsOver ==
    \A m \in Meetings :
        arms[m] <= 1 /\ status[m] \in Outcomes =>
            /\ session # m
            /\ active # m
            /\ status[m] = "completed" => files[m] = "final"

\* The transcription worker and its sweep find a completed meeting only through
\* the row's audio path.  stop can overtake arm's last UPDATE, so the path may
\* still be on its way; it is lost only to a failed UPDATE or a crash.
CompletedIsFindable ==
    \A m \in Meetings :
        status[m] = "completed" /\ faults = 0 /\ crashes = 0 =>
            paths[m] \/ (pc["run"] = "paths" /\ who["run"] = m)

\* Files on disk are reachable from their row once no call is working on the
\* meeting ("an orphan on disk that nothing references", clear_failed_attempt),
\* unless an UPDATE or unlink failed or the process died.
NoUnreferencedFiles ==
    \A m \in Meetings :
        files[m] # "none" /\ ~Handled(m) /\ faults = 0 /\ crashes = 0 => paths[m]

\* A row nobody will stamp any more is not left saying "recording" once its
\* Armed event was consumed: it is claimed, being worked on, or settled.
NoStrandedRow ==
    \A m \in fresh :
        /\ arms[m] > 0
        /\ faults = 0
        /\ m \notin missed
        /\ [type |-> "Armed", meeting |-> m] \notin {inbox[i] : i \in DOMAIN inbox}
        => status[m] # "recording" \/ active = m \/ Handled(m)

(* Action properties. *)

\* A terminal status is final: finish_meeting has no guard of its own, and six
\* places call it, on two tasks.
TerminalIsFinal ==
    [][\A m \in Meetings :
          arms'[m] <= 1 /\ status[m] \in Outcomes => status'[m] = status[m]]_recorderVars

(* Refinement: a recorder whose callers arm each meeting at most once      *)
(* (MaxArms = 1) implements the lifecycle of MeetingLifecycle.             *)

Lifecycle == INSTANCE MeetingLifecycle WITH
    row   <- status,
    live  <- session,
    taken <- {m \in Meetings : files[m] = "open" /\ session # m},
    whole <- {m \in Meetings : files[m] = "final"}

LifecycleSpec == Lifecycle!Spec

(* Liveness. *)

\* Every call returns, whatever the other task does in the meantime.
CallsReturn ==
    \A t \in Tasks : pc[t] # "idle" ~> pc[t] = "idle"

\* An arm that lost its claim to a stop ends with its capture, if it ever got
\* one, taken down again.
AbandonedArmEnds ==
    \A m \in Meetings :
        (InStart /\ who["run"] = m /\ arming # m) ~> (session # m /\ ~Handled(m))
=============================================================================
