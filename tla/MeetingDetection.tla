-------------------------- MODULE MeetingDetection ---------------------------
(***************************************************************************)
(* Meeting detection on macOS: the task that reads Control Center's log,   *)
(* debounces it and feeds the Tracker (crates/gilb-meeting, macos.rs), and *)
(* the supervisor of crates/gilb-pipeline that starts and stops it and     *)
(* forwards its events to the bridge.                                      *)
(*                                                                         *)
(* Four queues connect five parties: log lines (the child's pipe), the     *)
(* detector's channel, the forwarding channel and the control channel of   *)
(* the "Enable meeting detection" setting.  Each start of the detector is  *)
(* a run with a channel, a child and a Tracker of its own; events carry    *)
(* their run here, as history.  A line is the set of allowlisted apps it   *)
(* names: lines that differ only in other apps repeat the previous set.    *)
(***************************************************************************)
EXTENDS Integers, Sequences, FiniteSets

CONSTANTS
    Apps,               \* allowlisted meeting apps
    InitiallyEnabled,   \* the saved setting at launch
    EventCapacity,      \* EVENT_CHANNEL_CAPACITY
    ForwardCapacity,    \* DETECTOR_FORWARD_CAPACITY
    CtlCapacity,        \* DETECTION_CTL_CAPACITY
    MaxLines,           \* bound: changes of the microphone indicator
    MaxAsks,            \* bound: changes of the setting
    MaxFailures         \* bound: children that fail to spawn or end by themselves

ASSUME DetectionAssumption ==
    /\ InitiallyEnabled \in BOOLEAN
    /\ EventCapacity \in Nat \ {0}
    /\ ForwardCapacity \in Nat \ {0}
    /\ CtlCapacity \in Nat \ {0}
    /\ MaxLines \in Nat
    /\ MaxAsks \in Nat
    /\ MaxFailures \in Nat

EventTypes == {"Started", "AppsChanged", "Ended", "HealthDegraded"}

VARIABLES
    running,    \* MacosDetector.running is Some: nobody may start it again
    task,       \* the detector task: "none", "spawn", "loop", "send", "lastSend"
    shutdown,   \* the oneshot has been sent
    log,        \* lines in the child's pipe
    pending,    \* the observation being debounced: at most one element
    current,    \* Tracker.current
    outgoing,   \* type of the event the task is sending
    events,     \* the detector's channel
    sup,        \* the supervisor: "idle", "starting", "forwarding", "sending",
                \*   "stopping", "closing" or "gone"
    held,       \* the event it is forwarding (<<>> or one element)
    forward,    \* the forwarding channel
    ctl,        \* the control channel
    ctlOpen,    \* its sender is alive
    open,       \* the bridge's view: the run whose Started it saw last and has
                \*   seen no Ended since, 0 for none
    run,        \* detector runs started so far
    said,       \* the last line of this run
    asked,      \* the setting as last sent
    lines,
    asks,
    failures

taskVars    == <<task, shutdown, log, pending, current, outgoing, said>>
supVars     == <<sup, held>>
channelVars == <<events, forward, ctl, ctlOpen>>
budgetVars  == <<lines, asks, failures>>
detectionVars == <<running, taskVars, supVars, channelVars, open, run, asked, budgetVars>>

Events == [type : EventTypes, run : Nat]

DetectionTypeOK ==
    /\ {running, shutdown, ctlOpen, asked} \subseteq BOOLEAN
    /\ task \in {"none", "spawn", "loop", "send", "lastSend"}
    /\ log \in Seq(SUBSET Apps)
    /\ pending \in Seq(SUBSET Apps) /\ Len(pending) <= 1
    /\ current \subseteq Apps
    /\ said \subseteq Apps
    /\ outgoing \in EventTypes
    /\ sup \in {"idle", "starting", "forwarding", "sending", "stopping", "closing", "gone"}
    /\ held \in Seq(Events) /\ Len(held) <= 1
    /\ events \in Seq(Events) /\ Len(events) <= EventCapacity
    /\ forward \in Seq(Events) /\ Len(forward) <= ForwardCapacity
    /\ ctl \in Seq(BOOLEAN) /\ Len(ctl) <= CtlCapacity
    /\ {open, run, lines, asks, failures} \subseteq Nat

Init ==
    /\ running = FALSE
    /\ task = "none"
    /\ shutdown = FALSE
    /\ log = <<>>
    /\ pending = <<>>
    /\ current = {}
    /\ said = {}
    /\ outgoing = "HealthDegraded"
    /\ sup = IF InitiallyEnabled THEN "starting" ELSE "idle"
    /\ held = <<>>
    /\ events = <<>>
    /\ forward = <<>>
    /\ ctl = <<>>
    /\ ctlOpen = TRUE
    /\ open = 0
    /\ run = 0
    /\ asked = InitiallyEnabled
    /\ lines = 0
    /\ asks = 0
    /\ failures = 0

-----------------------------------------------------------------------------
(* Control Center and the settings window.                                 *)

\* The indicator changes; the child, if one streams, prints the new set.
MicChanges(apps) ==
    /\ task \in {"loop", "send"}
    /\ lines < MaxLines
    /\ lines' = lines + 1
    /\ log' = Append(log, apps)
    /\ said' = apps
    /\ UNCHANGED <<running, task, shutdown, pending, current, outgoing, supVars,
                   channelVars, open, run, asked, asks, failures>>

Ask(enabled) ==
    /\ ctlOpen
    /\ asks < MaxAsks
    /\ asks' = asks + 1
    /\ Len(ctl) < CtlCapacity
    /\ ctl' = Append(ctl, enabled)
    /\ asked' = enabled
    /\ UNCHANGED <<running, taskVars, supVars, events, forward, ctlOpen, open, run,
                   lines, failures>>

\* The shell drops its handles.
DropHandles ==
    /\ ctlOpen
    /\ ctlOpen' = FALSE
    /\ UNCHANGED <<running, taskVars, supVars, events, forward, ctl, open, run, asked,
                   budgetVars>>

-----------------------------------------------------------------------------
(* The detector task.                                                      *)

\* The task returns: its child is killed, its sender and its Tracker dropped.
End ==
    /\ task' = "none"
    /\ log' = <<>>
    /\ pending' = <<>>
    /\ current' = {}
    /\ said' = {}

Spawn ==
    /\ task = "spawn"
    /\ \/ task' = "loop" /\ UNCHANGED <<outgoing, failures>>
       \/ /\ failures < MaxFailures
          /\ failures' = failures + 1
          /\ outgoing' = "HealthDegraded"
          /\ task' = "lastSend"
    /\ UNCHANGED <<running, shutdown, log, pending, current, said, supVars, channelVars,
                   open, run, asked, lines, asks>>

\* Bug: lines inside a debounce window are dropped.
ReadLineKeepsFirst ==
    /\ task = "loop"
    /\ log # <<>>
    /\ pending' = IF pending = <<>> THEN <<Head(log)>> ELSE pending
    /\ log' = Tail(log)
    /\ UNCHANGED <<running, task, shutdown, current, outgoing, said, supVars, channelVars,
                   open, run, asked, budgetVars>>

\* A line replaces the observation being debounced and restarts its window.
ReadLine ==
    /\ task = "loop"
    /\ log # <<>>
    /\ pending' = <<Head(log)>>
    /\ log' = Tail(log)
    /\ UNCHANGED <<running, task, shutdown, current, outgoing, said, supVars, channelVars,
                   open, run, asked, budgetVars>>

\* Tracker::observe.
EventOf(before, now) ==
    IF before = {} THEN "Started" ELSE IF now = {} THEN "Ended" ELSE "AppsChanged"

\* The debounce window has elapsed.
Flush ==
    /\ task = "loop"
    /\ pending # <<>>
    /\ pending' = <<>>
    /\ current' = Head(pending)
    /\ \/ /\ current' = current
          /\ UNCHANGED <<task, outgoing>>
       \/ /\ current' # current
          /\ outgoing' = EventOf(current, current')
          /\ task' = "send"
    /\ UNCHANGED <<running, shutdown, log, said, supVars, channelVars, open, run, asked,
                   budgetVars>>

\* Bug: an unbounded channel.
SendUnbounded ==
    /\ task \in {"send", "lastSend"}
    /\ events' = Append(events, [type |-> outgoing, run |-> run])
    /\ \/ task = "send" /\ task' = "loop" /\ UNCHANGED <<log, pending, current, said>>
       \/ task = "lastSend" /\ End
    /\ UNCHANGED <<running, shutdown, outgoing, supVars, forward, ctl, ctlOpen, open, run,
                   asked, budgetVars>>

\* Bug: try_send, dropping the event when the channel is full.
SendLossy ==
    /\ task \in {"send", "lastSend"}
    /\ events' = IF Len(events) = EventCapacity THEN events
                 ELSE Append(events, [type |-> outgoing, run |-> run])
    /\ \/ task = "send" /\ task' = "loop" /\ UNCHANGED <<log, pending, current, said>>
       \/ task = "lastSend" /\ End
    /\ UNCHANGED <<running, shutdown, outgoing, supVars, forward, ctl, ctlOpen, open, run,
                   asked, budgetVars>>

\* The send completes when the channel has room; it fails, and ends the task,
\* once the receiver is gone.
Send ==
    /\ task \in {"send", "lastSend"}
    /\ \/ /\ sup # "gone"
          /\ Len(events) < EventCapacity
          /\ events' = Append(events, [type |-> outgoing, run |-> run])
          /\ \/ /\ task = "send"
                /\ task' = "loop"
                /\ UNCHANGED <<log, pending, current, said>>
             \/ task = "lastSend" /\ End
       \/ sup = "gone" /\ End /\ UNCHANGED events
    /\ UNCHANGED <<running, shutdown, outgoing, supVars, forward, ctl, ctlOpen, open, run,
                   asked, budgetVars>>

\* `log stream` dies or its pipe breaks.
StreamEnds ==
    /\ task = "loop"
    /\ log = <<>>
    /\ failures < MaxFailures
    /\ failures' = failures + 1
    /\ outgoing' = "HealthDegraded"
    /\ task' = "lastSend"
    /\ UNCHANGED <<running, shutdown, log, pending, current, said, supVars, channelVars,
                   open, run, asked, lines, asks>>

Shutdown ==
    /\ task = "loop"
    /\ shutdown
    /\ End
    /\ UNCHANGED <<running, shutdown, outgoing, supVars, channelVars, open, run, asked,
                   budgetVars>>

-----------------------------------------------------------------------------
(* run_detector_supervisor.                                                *)

\* Bug: a closed channel reads as "no message yet".
AwaitEnableIgnoresClose ==
    /\ sup = "idle"
    /\ ctl # <<>>
    /\ ctl' = Tail(ctl)
    /\ sup' = IF Head(ctl) THEN "starting" ELSE "idle"
    /\ UNCHANGED <<running, taskVars, held, events, forward, ctlOpen, open, run, asked,
                   budgetVars>>

AwaitEnable ==
    /\ sup = "idle"
    /\ \/ /\ ctl # <<>>
          /\ ctl' = Tail(ctl)
          /\ sup' = IF Head(ctl) THEN "starting" ELSE "idle"
       \/ /\ ctl = <<>>
          /\ ~ctlOpen
          /\ sup' = "gone"
          /\ UNCHANGED ctl
    /\ UNCHANGED <<running, taskVars, held, events, forward, ctlOpen, open, run, asked,
                   budgetVars>>

\* detector.start: refused while `running` is taken.
Start ==
    /\ sup = "starting"
    /\ \/ /\ running
          /\ sup' = "idle"
          /\ UNCHANGED <<running, task, shutdown, events, run>>
       \/ /\ ~running
          /\ running' = TRUE
          /\ task' = "spawn"
          /\ shutdown' = FALSE
          /\ events' = <<>>
          /\ run' = run + 1
          /\ sup' = "forwarding"
    /\ UNCHANGED <<log, pending, current, outgoing, said, held, forward, ctl, ctlOpen,
                   open, asked, budgetVars>>

TakeEvent ==
    /\ sup = "forwarding"
    /\ events # <<>>
    /\ held' = <<Head(events)>>
    /\ events' = Tail(events)
    /\ sup' = "sending"
    /\ UNCHANGED <<running, taskVars, forward, ctl, ctlOpen, open, run, asked, budgetVars>>

\* det_tx.send: while the bridge's channel is full the supervisor does nothing else.
Forward ==
    /\ sup = "sending"
    /\ Len(forward) < ForwardCapacity
    /\ forward' = forward \o held
    /\ held' = <<>>
    /\ sup' = "forwarding"
    /\ UNCHANGED <<running, taskVars, events, ctl, ctlOpen, open, run, asked, budgetVars>>

\* The channel is drained and its sender dropped.  The detector is not stopped.
StreamEnded ==
    /\ sup = "forwarding"
    /\ events = <<>>
    /\ task = "none"
    /\ sup' = "idle"
    /\ UNCHANGED <<running, taskVars, held, channelVars, open, run, asked, budgetVars>>

\* Bug: the task is awaited without being told to stop.
StopDetectorUnsignalled(next) ==
    /\ running' = FALSE
    /\ sup' = next
    /\ UNCHANGED shutdown

\* detector.stop takes `running`, sends the shutdown and awaits the task.
StopDetector(next) ==
    /\ running' = FALSE
    /\ shutdown' = TRUE
    /\ sup' = next

Control ==
    /\ sup = "forwarding"
    /\ \/ /\ ctl # <<>>
          /\ ctl' = Tail(ctl)
          /\ \/ Head(ctl) /\ UNCHANGED <<running, shutdown, sup>>
             \/ ~Head(ctl) /\ StopDetector("stopping")
       \/ /\ ctl = <<>>
          /\ ~ctlOpen
          /\ StopDetector("closing")
          /\ UNCHANGED ctl
    /\ UNCHANGED <<task, log, pending, current, outgoing, said, held, events, forward,
                   ctlOpen, open, run, asked, budgetVars>>

\* The task has ended; the receiver and what it still held are dropped.
Stopped ==
    /\ sup \in {"stopping", "closing"}
    /\ task = "none"
    /\ events' = <<>>
    /\ sup' = IF sup = "stopping" THEN "idle" ELSE "gone"
    /\ UNCHANGED <<running, taskVars, held, forward, ctl, ctlOpen, open, run, asked,
                   budgetVars>>

-----------------------------------------------------------------------------
\* The bridge takes the next event (module MeetingPipeline says what it does).
BridgeTakes ==
    /\ forward # <<>>
    /\ forward' = Tail(forward)
    /\ open' = CASE Head(forward).type = "Started" -> Head(forward).run
                 [] Head(forward).type = "Ended"   -> 0
                 [] OTHER                          -> open
    /\ UNCHANGED <<running, taskVars, supVars, events, ctl, ctlOpen, run, asked, budgetVars>>

DetectorStep == Spawn \/ ReadLine \/ Flush \/ Send \/ Shutdown

SupervisorStep ==
    \/ AwaitEnable \/ Start \/ TakeEvent \/ Forward \/ StreamEnded \/ Control \/ Stopped

Next ==
    \/ DetectorStep
    \/ SupervisorStep
    \/ BridgeTakes
    \/ \E apps \in SUBSET Apps : MicChanges(apps)
    \/ \E enabled \in BOOLEAN : Ask(enabled)
    \/ StreamEnds
    \/ DropHandles

\* Each task is polled while it can move; the bridge comes back for more (its
\* calls return: CallsReturn of module Recorder).
Fairness ==
    /\ WF_detectionVars(DetectorStep)
    /\ WF_detectionVars(SupervisorStep)
    /\ WF_detectionVars(BridgeTakes)

Spec == Init /\ [][Next]_detectionVars /\ Fairness
-----------------------------------------------------------------------------
\* An Ended that reaches the bridge answers the Started of the same run of the
\* detector, with no other Started in between: nothing on the way loses,
\* duplicates or reorders a transition.
EndedAnswersStarted ==
    [][BridgeTakes /\ Head(forward).type = "Ended" => open = Head(forward).run]_detectionVars

Quiet ==
    /\ task = "loop"
    /\ sup = "forwarding"
    /\ log = <<>> /\ pending = <<>> /\ events = <<>> /\ forward = <<>>

\* Once everything in flight has arrived, the bridge believes in a meeting of
\* this run exactly when the last line named a meeting app, however lines,
\* debounce windows, full channels and restarts fell together.
BridgeKnowsLastLine == Quiet => (open = run <=> said # {})

\* stop waits for a task that waits for room in a channel whose only reader is
\* the one that waits.
Wedged ==
    /\ sup \in {"stopping", "closing"}
    /\ task \in {"send", "lastSend"}
    /\ Len(events) = EventCapacity

\* Liveness: after the setting is switched off the detector task ends, unless
\* it is switched on again, or the stop found the detector wedged.
DisableTakesEffect == ~asked ~> (task = "none" \/ asked \/ Wedged)

\* Liveness: dropping the handles winds the supervisor down, under the same proviso.
HandlesDroppedEnds == ~ctlOpen ~> (sup = "gone" /\ task = "none") \/ Wedged

\* run_detector_supervisor "is what makes the 'Enable meeting detection' toggle
\* live", so an enable it takes is refused only when a detector is already
\* running.  After the log stream ended by itself, every enable is refused.
RefusedStartIsRunning ==
    [][sup = "starting" /\ sup' = "idle" => task # "none"]_detectionVars
=============================================================================
