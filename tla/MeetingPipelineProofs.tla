------------------------ MODULE MeetingPipelineProofs ------------------------
(***************************************************************************)
(* The pipeline implements the recorder's specification, so what is proved *)
(* of the recorder alone holds of it inside the pipeline.                  *)
(***************************************************************************)
EXTENDS MeetingPipeline, RecorderRowProofs

USE RecorderAssumption DEF RecorderAssumption, Tasks

\* A stop asked of the bridge is BridgeStop or leaves the recorder alone.
LEMMA StopRecordingStep ==
    ASSUME NEW m, StopRecording(m)
    PROVE  [Next]_recorderVars
BY DEF StopRecording, Next, Environment

\* What the shell does to the recorder is what its environment may do.
LEMMA ShellStepsRecorder ==
    ShellStep => [Next]_recorderVars
<1> SUFFICES ASSUME ShellStep PROVE [Next]_recorderVars
    OBVIOUS
<1> USE DEF Next, Environment
<1>1. ASSUME NEW m \in Meetings, BridgeStarted(m) PROVE [Next]_recorderVars
    BY <1>1 DEF BridgeStarted
<1>2. ASSUME NEW m \in Meetings, CountdownArmed(m) PROVE [Next]_recorderVars
    BY <1>2 DEF CountdownArmed
<1>3. ASSUME NEW m \in Meetings, CountdownCancelled(m) PROVE [Next]_recorderVars
    BY <1>3 DEF CountdownCancelled
<1>4. ASSUME NEW m \in Meetings, ManualInsert(m) PROVE [Next]_recorderVars
    BY <1>4 DEF ManualInsert
<1>5. ASSUME NEW m \in Meetings, ManualArmed(m) PROVE [Next]_recorderVars
    BY <1>5 DEF ManualArmed
<1>6. CASE BridgeEnded
    BY <1>6, StopRecordingStep DEF BridgeEnded
<1>7. CASE StopCountdownResolved \/ Toggle \/ GraceElapsed \/ ManualInsertFails \/ Quit
    BY <1>7 DEF StopCountdownResolved, Toggle, GraceElapsed, ManualInsertFails, Quit
<1>8. CASE PipelineCrash \/ Exit \/ ExitAtCeiling
    BY <1>8 DEF PipelineCrash, Exit, ExitAtCeiling
<1>9. CASE PipelineRestart
    BY <1>9 DEF PipelineRestart
<1> QED
    BY <1>1, <1>2, <1>3, <1>4, <1>5, <1>6, <1>7, <1>8, <1>9 DEF ShellStep

\* So is what the bridge does.
LEMMA BridgeStepsRecorder ==
    BridgeStep => [Next]_recorderVars
<1> SUFFICES ASSUME BridgeStep PROVE [Next]_recorderVars
    OBVIOUS
<1>1. CASE StopStep("bridge")
    BY <1>1 DEF Next
<1>2. CASE ReportStopped \/ BridgeArmed \/ BridgeCancelled
    BY <1>2 DEF ReportStopped, BridgeArmed, BridgeCancelled
<1>3. CASE BridgeResolution
    BY <1>3, StopRecordingStep DEF BridgeResolution
<1>4. CASE BridgeCap
    BY <1>4, StopRecordingStep DEF BridgeCap
<1> QED
    BY <1>1, <1>2, <1>3, <1>4 DEF BridgeStep

\* So every step of the pipeline is a step of the recorder or leaves it alone.
LEMMA StepsOfRecorder == [PipelineNext]_pipelineVars => [Next]_recorderVars
<1>1. RunTask => [Next]_recorderVars
    BY DEF RunTask, Next
<1>2. UNCHANGED pipelineVars => UNCHANGED recorderVars
    BY DEF pipelineVars
<1> QED
    BY <1>1, <1>2, ShellStepsRecorder, BridgeStepsRecorder DEF PipelineNext

\* The bridge, the countdowns and the toggle are a legal environment of the
\* recorder: every step of the pipeline is a step of Recorder or leaves the
\* recorder's state alone.
THEOREM PipelineImplementsRecorder == PipelineSpec => RecorderContract
<1>1. PipelineInit => Init
    BY DEF PipelineInit
<1> QED
    BY <1>1, StepsOfRecorder, PTL DEF PipelineSpec, RecorderContract

\* Inside the pipeline, too, no capture runs without an owner and every stop
\* takes down its own.
THEOREM PipelineOwnership == PipelineSpec => [](NoOrphanCapture /\ StopTakesOwnSession)
<1>1. Ownership => NoOrphanCapture /\ StopTakesOwnSession
    BY DEF Ownership, TeardownHasSession, UnclaimedHasSession, ActiveHasSession,
           StopTakesOwnSession
<1> QED
    BY <1>1, PipelineImplementsRecorder, OwnershipAlways, PTL DEF RecorderContract
-----------------------------------------------------------------------------
(* The bridge's ring and the stages of a meeting.                          *)

\* Armed(m) is in the bridge's ring and the bridge has not taken it yet.
BridgeQueued(m) == \E i \in 1..Len(bridgeInbox) : bridgeInbox[i] = Armed(m)

BridgeRing ==
    /\ Len(bridgeInbox) <= BusCapacity
    /\ \A m \in Meetings : \A i, j \in 1..Len(bridgeInbox) :
          bridgeInbox[i] = Armed(m) /\ bridgeInbox[j] = Armed(m) => i = j

\* A meeting is offered or about to be announced by hand, then announced, then
\* shown, then being stopped, then handed over, one at a time; its Armed event
\* is published once, when it is announced.
OneStage(m) ==
    /\ arms[m] <= 1
    /\ status[m] = "absent" => startPopup # m /\ m \notin manualRows
    /\ m \in manualRows => startPopup # m
    /\ arms[m] > 0 => startPopup # m /\ m \notin manualRows
    /\ arms[m] = 0 =>
          ~BridgeQueued(m) /\ recording # m /\ reporting # m /\ reported[m] = 0
    /\ BridgeQueued(m) => recording # m /\ reporting # m /\ reported[m] = 0
    /\ recording = m => reporting # m /\ reported[m] = 0
    /\ reporting = m => reported[m] = 0
    /\ reported[m] <= 1

Staged == \A m \in Meetings : OneStage(m)

\* What publishing to the bridge leaves in its ring.
LEMMA PublishKeepsBridgeRing ==
    ASSUME bridgeInbox \in Seq(Events), BridgeRing, NEW e \in Events, PublishToBridge(e),
           \A m \in Meetings : e = Armed(m) => ~BridgeQueued(m)
    PROVE  /\ bridgeInbox' \in Seq(Events)
           /\ BridgeRing'
           /\ \A m \in Meetings : BridgeQueued(m)' => BridgeQueued(m) \/ e = Armed(m)
<1>1. bridgeInbox' = Deliver(bridgeInbox, e) /\ Len(bridgeInbox) \in Nat
    BY LenProperties DEF PublishToBridge
<1>2. bridgeInbox' \in Seq(Events)
    BY <1>1, DeliverType
<1>3. PICK k \in {0, 1} :
         /\ Len(bridgeInbox') \in 1..BusCapacity
         /\ bridgeInbox'[Len(bridgeInbox')] = e
         /\ Len(bridgeInbox') = Len(bridgeInbox) + 1 - k
         /\ \A i \in 1..(Len(bridgeInbox') - 1) :
               i + k \in 1..Len(bridgeInbox) /\ bridgeInbox'[i] = bridgeInbox[i + k]
    BY <1>1, DeliverElements DEF BridgeRing
<1>4. \A i \in 1..Len(bridgeInbox') :
         i = Len(bridgeInbox') \/ i \in 1..(Len(bridgeInbox') - 1)
    BY <1>3
<1>5. ASSUME NEW m \in Meetings, BridgeQueued(m)' PROVE BridgeQueued(m) \/ e = Armed(m)
    BY <1>3, <1>4, <1>5 DEF BridgeQueued
<1>6. ASSUME NEW m \in Meetings,
             NEW i \in 1..Len(bridgeInbox'), NEW j \in 1..Len(bridgeInbox'),
             bridgeInbox'[i] = Armed(m), bridgeInbox'[j] = Armed(m)
      PROVE  i = j
    <2>1. CASE e = Armed(m)
        <3>1. ~BridgeQueued(m)
            BY <2>1
        <3> QED
            BY <1>3, <1>4, <1>6, <3>1 DEF BridgeQueued
    <2>2. CASE e # Armed(m)
        <3>1. i \in 1..(Len(bridgeInbox') - 1) /\ j \in 1..(Len(bridgeInbox') - 1)
            BY <2>2, <1>3, <1>4, <1>6
        <3>2. /\ i + k \in 1..Len(bridgeInbox) /\ bridgeInbox[i + k] = Armed(m)
              /\ j + k \in 1..Len(bridgeInbox) /\ bridgeInbox[j + k] = Armed(m)
            BY <1>3, <1>6, <3>1
        <3>3. i + k = j + k
            BY <3>2 DEF BridgeRing
        <3> QED
            BY <1>3, <3>1, <3>3
    <2> QED
        BY <2>1, <2>2
<1> QED
    BY <1>2, <1>3, <1>5, <1>6 DEF BridgeRing

\* What receiving the oldest event leaves: an Armed received is gone for good.
LEMMA ReceiveKeepsBridgeRing ==
    ASSUME bridgeInbox \in Seq(Events), BridgeRing, bridgeInbox # <<>>,
           bridgeInbox' = Tail(bridgeInbox)
    PROVE  /\ bridgeInbox' \in Seq(Events)
           /\ Head(bridgeInbox) \in Events
           /\ BridgeRing'
           /\ \A m \in Meetings : BridgeQueued(m)' => BridgeQueued(m)
           /\ \A m \in Meetings :
                 Head(bridgeInbox) = Armed(m) => BridgeQueued(m) /\ ~BridgeQueued(m)'
<1>1. /\ Len(bridgeInbox) \in Nat \ {0}
      /\ Head(bridgeInbox) = bridgeInbox[1]
      /\ Len(bridgeInbox') = Len(bridgeInbox) - 1
      /\ \A i \in 1..Len(bridgeInbox') :
            i + 1 \in 1..Len(bridgeInbox) /\ bridgeInbox'[i] = bridgeInbox[i + 1]
    BY TailElements
<1>2. bridgeInbox' \in Seq(Events) /\ Head(bridgeInbox) \in Events
    BY HeadTailType
<1>3. \A m \in Meetings : BridgeQueued(m)' => BridgeQueued(m)
    BY <1>1 DEF BridgeQueued
<1>4. ASSUME NEW m \in Meetings,
             NEW i \in 1..Len(bridgeInbox'), NEW j \in 1..Len(bridgeInbox'),
             bridgeInbox'[i] = Armed(m), bridgeInbox'[j] = Armed(m)
      PROVE  i = j
    <2>1. i + 1 = j + 1
        BY <1>1, <1>4 DEF BridgeRing
    <2> QED
        BY <2>1, <1>1
<1>5. ASSUME NEW m \in Meetings, Head(bridgeInbox) = Armed(m)
      PROVE  BridgeQueued(m) /\ ~BridgeQueued(m)'
    <2>1. BridgeQueued(m)
        BY <1>1, <1>5 DEF BridgeQueued
    <2>2. ASSUME BridgeQueued(m)' PROVE FALSE
        <3>1. PICK i \in 1..Len(bridgeInbox') : bridgeInbox'[i] = Armed(m)
            BY <2>2 DEF BridgeQueued
        <3>2. i + 1 = 1
            BY <1>1, <1>5, <3>1 DEF BridgeRing
        <3> QED
            BY <3>2, <1>1
    <2> QED
        BY <2>1, <2>2
<1> QED
    BY <1>1, <1>2, <1>3, <1>4, <1>5 DEF BridgeRing

\* No step of the recorder removes a row.
LEMMA RowsStay ==
    ASSUME TypeOK, Bookkeeping, [Next]_recorderVars, NEW m \in Meetings,
           status'[m] = "absent"
    PROVE  status[m] = "absent"
<1>1. status \in [Meetings -> Statuses]
    BY DEF TypeOK
<1> USE DEF rowVars
<1>2. CASE UNCHANGED status
    BY <1>2
<1>3. CASE \E k \in Meetings : OpenRow(k)
    BY <1>1, <1>3 DEF OpenRow, InsertMeeting
<1>4. CASE StampBusy \/ StampFailed \/ StampUnwound
    <2>1. \E s \in Outcomes : FinishMeeting(who["run"], s)
        BY <1>4 DEF StampBusy, StampFailed, StampUnwound, Outcomes
    <2> QED
        BY <1>1, <2>1 DEF FinishMeeting, Outcomes
<1>5. ASSUME NEW t \in Tasks, StampStopped(t) PROVE status[m] = "absent"
    <2>1. outcome[t] \in Outcomes
        BY DEF TypeOK
    <2> QED
        BY <1>1, <1>5, <2>1 DEF StampStopped, FinishMeeting, Outcomes
<1>6. CASE Restart
    BY <1>1, <1>6 DEF Restart
<1> QED
    BY <1>2, <1>3, <1>4, <1>5, <1>6
    DEF Next, RunStep, ArmStep, StopStep, Environment, recorderVars, PublishArmed,
        PublishCancelled, ReceiveArmed, ReceiveCancelled, BridgeStop, Prepare,
        TryStart, Retry, Abandoned, GiveUp, Claim, SetRecordingPaths, Unwind,
        Teardown, Finalize, Crash

\* What a stop asked of the bridge changes: at most the meeting shown becomes
\* the meeting being reported.
LEMMA StopRecordingLeaves ==
    ASSUME NEW m, StopRecording(m)
    PROVE  /\ UNCHANGED <<status, arms>>
           /\ UNCHANGED armingSince \/ armingSince' = FALSE
           /\ \/ UNCHANGED <<recording, capDue, reporting>>
              \/ /\ recording = m
                 /\ recording' = NoMeeting
                 /\ capDue' = FALSE
                 /\ reporting' = m
BY DEF StopRecording, BridgeStop, rowVars, budgetVars, recorderVars

\* Every step takes a meeting from one stage to the next: whatever publishes
\* its Armed event, the bridge takes it up, stops it and reports it once.
LEMMA StageStep ==
    ASSUME TypeOK, Bookkeeping, PipelineTypeOK, BridgeRing, Staged,
           [PipelineNext]_pipelineVars, [Next]_recorderVars
    PROVE  BridgeRing' /\ Staged'
<1>a. /\ recording \in Meetings \cup {NoMeeting}
      /\ reporting \in Meetings \cup {NoMeeting}
      /\ startPopup \in Meetings \cup {NoMeeting}
      /\ bridgeInbox \in Seq(Events)
      /\ reported \in [Meetings -> Nat]
      /\ arms \in [Meetings -> Nat]
    <2>1. arms \in [Meetings -> 0..MaxArms]
        BY DEF TypeOK
    <2>2. arms \in [Meetings -> Nat]
        BY <2>1
    <2> QED
        BY <2>2 DEF PipelineTypeOK
<1>b. ASSUME UNCHANGED bridgeInbox
      PROVE  BridgeRing' /\ \A m \in Meetings : BridgeQueued(m)' <=> BridgeQueued(m)
    BY <1>b DEF BridgeRing, BridgeQueued
<1>c. \A m \in Meetings : status'[m] = "absent" => status[m] = "absent"
    BY RowsStay
<1>d. \A m \in Meetings : m # NoMeeting
    OBVIOUS
<1>e. \A m \in Meetings : OneStage(m)
    BY DEF Staged
<1> USE DEF Staged, OneStage, bridgeVars, shellVars
<1>1. CASE RunTask
    <2>1. UNCHANGED arms
        BY <1>1 DEF RunTask, RunStep, ArmStep, StopStep, budgetVars, ReceiveArmed,
           ReceiveCancelled, StampBusy, Prepare, TryStart, Retry, Abandoned, GiveUp,
           StampFailed, Claim, SetRecordingPaths, Unwind, StampUnwound, Teardown,
           Finalize, StampStopped
    <2> QED
        BY <1>b, <1>c, <1>e, <1>1, <2>1 DEF RunTask
<1>2. CASE StopStep("bridge") /\ UNCHANGED <<bridgeVars, shellVars>>
    <2>1. UNCHANGED arms
        BY <1>2 DEF StopStep, budgetVars, Teardown, Finalize, StampStopped
    <2> QED
        BY <1>b, <1>c, <1>e, <1>2, <2>1
<1>3. CASE ReportStopped
    <2>1. \A m \in Meetings : reported'[m] = IF m = reporting THEN reported[m] + 1 ELSE reported[m]
        BY <1>a, <1>3 DEF ReportStopped
    <2> QED
        BY <1>a, <1>b, <1>d, <1>e, <1>3, <2>1 DEF ReportStopped, recorderVars
<1>4. CASE BridgeArmed
    <2>1. /\ BridgeRing'
          /\ Head(bridgeInbox) \in Events
          /\ \A m \in Meetings : BridgeQueued(m)' => BridgeQueued(m)
          /\ \A m \in Meetings :
                Head(bridgeInbox) = Armed(m) => BridgeQueued(m) /\ ~BridgeQueued(m)'
        BY <1>a, <1>4, ReceiveKeepsBridgeRing DEF BridgeArmed
    <2>2. PICK h \in Meetings : Head(bridgeInbox) = Armed(h)
        BY <1>4, <2>1 DEF BridgeArmed, Events, Armed
    <2>3. BridgeQueued(h) /\ ~BridgeQueued(h)'
        BY <2>1, <2>2
    <2>4. recording' \in {recording, h}
        BY <1>4, <2>2 DEF BridgeArmed, Armed
    <2>5. /\ reporting = NoMeeting
          /\ UNCHANGED <<arms, status, reporting, reported, startPopup, manualRows>>
        BY <1>4 DEF BridgeArmed, BridgeIdle, recorderVars
    <2> QED
        BY <1>a, <1>d, <1>e, <2>1, <2>2, <2>3, <2>4, <2>5
<1>5. CASE BridgeCancelled
    <2>1. /\ BridgeRing'
          /\ \A m \in Meetings : BridgeQueued(m)' => BridgeQueued(m)
        BY <1>a, <1>5, ReceiveKeepsBridgeRing DEF BridgeCancelled
    <2>2. recording' \in {recording, NoMeeting} /\ UNCHANGED <<arms, status>>
        BY <1>5 DEF BridgeCancelled, recorderVars
    <2> QED
        BY <1>a, <1>d, <1>e, <1>5, <2>1, <2>2 DEF BridgeCancelled
<1>6. CASE BridgeResolution \/ BridgeCap \/ BridgeEnded
    <2>1. /\ reporting = NoMeeting
          /\ UNCHANGED <<bridgeInbox, reported, startPopup, manualRows>>
          /\ \/ UNCHANGED <<status, arms, recording, reporting>>
             \/ \E m : StopRecording(m)
        BY <1>6 DEF BridgeResolution, BridgeCap, BridgeEnded, BridgeIdle, recorderVars
    <2>2. /\ UNCHANGED <<status, arms>>
          /\ \/ UNCHANGED <<recording, reporting>>
             \/ recording' = NoMeeting /\ reporting' = recording
        BY <2>1, StopRecordingLeaves
    <2> QED
        BY <1>a, <1>b, <1>d, <1>e, <2>1, <2>2
<1>7. ASSUME NEW k \in Meetings, BridgeStarted(k) PROVE BridgeRing' /\ Staged'
    <2>1. arms[k] = 0 /\ k \notin manualRows /\ status'[k] # "absent"
        BY <1>a, <1>e, <1>7 DEF BridgeStarted, OpenRow, InsertMeeting, Bookkeeping, FreshHasRow,
           TypeOK
    <2>2. UNCHANGED arms /\ startPopup' \in {startPopup, k}
        BY <1>7 DEF BridgeStarted, OpenRow, budgetVars
    <2> QED
        BY <1>b, <1>c, <1>e, <1>7, <2>1, <2>2 DEF BridgeStarted
<1>8. ASSUME NEW k \in Meetings, ManualInsert(k) PROVE BridgeRing' /\ Staged'
    <2>1. arms[k] = 0 /\ startPopup # k /\ status'[k] # "absent"
        BY <1>a, <1>e, <1>8 DEF ManualInsert, OpenRow, InsertMeeting, Bookkeeping, FreshHasRow,
           TypeOK
    <2>2. UNCHANGED arms
        BY <1>8 DEF ManualInsert, OpenRow, budgetVars
    <2> QED
        BY <1>b, <1>c, <1>e, <1>8, <2>1, <2>2 DEF ManualInsert
<1>9. ASSUME NEW k \in Meetings, CountdownArmed(k) \/ ManualArmed(k)
      PROVE  BridgeRing' /\ Staged'
    <2>1. /\ PublishArmed(k)
          /\ PublishToBridge(Armed(k))
          /\ startPopup = k \/ k \in manualRows
          /\ startPopup = k => startPopup' # k
          /\ manualRows' \subseteq manualRows /\ startPopup' \in {startPopup, NoMeeting}
          /\ startPopup' # k /\ k \notin manualRows'
          /\ UNCHANGED <<recording, reporting, reported>>
        BY <1>d, <1>e, <1>9 DEF CountdownArmed, ManualArmed, Armed
    <2>2. arms[k] = 0
        BY <1>a, <1>e, <2>1
    <2>3. Armed(k) \in Events /\ ~BridgeQueued(k)
        BY <1>e, <2>2 DEF Events, Armed
    <2>4. \A m \in Meetings : Armed(k) = Armed(m) => m = k
        BY DEF Armed
    <2>5. BridgeRing' /\ \A m \in Meetings : BridgeQueued(m)' => BridgeQueued(m) \/ m = k
        BY <1>a, <2>1, <2>3, <2>4, PublishKeepsBridgeRing
    <2>6. \A m \in Meetings : arms'[m] = IF m = k THEN 1 ELSE arms[m]
        BY <1>a, <2>1, <2>2 DEF PublishArmed
    <2>7. UNCHANGED status
        BY <2>1 DEF PublishArmed, rowVars
    <2> QED
        BY <1>a, <1>d, <1>e, <2>1, <2>2, <2>5, <2>6, <2>7
<1>10. ASSUME NEW k \in Meetings, CountdownCancelled(k) PROVE BridgeRing' /\ Staged'
    <2> DEFINE e == [type |-> "Cancelled", meeting |-> k]
    <2>1. e \in Events /\ \A m \in Meetings : e # Armed(m)
        BY DEF Events, Armed
    <2>2. BridgeRing' /\ \A m \in Meetings : BridgeQueued(m)' => BridgeQueued(m)
        BY <1>a, <1>10, <2>1, PublishKeepsBridgeRing DEF CountdownCancelled
    <2>3. UNCHANGED <<arms, status>>
        BY <1>10 DEF CountdownCancelled, PublishCancelled, rowVars
    <2> QED
        BY <1>d, <1>e, <1>10, <2>2, <2>3 DEF CountdownCancelled
<1>11. CASE StopCountdownResolved \/ Toggle \/ GraceElapsed \/ ManualInsertFails \/ Quit
    <2>1. UNCHANGED <<arms, status, bridgeInbox, recording, reporting, reported, startPopup,
                      manualRows>>
        BY <1>11 DEF StopCountdownResolved, Toggle, GraceElapsed, ManualInsertFails, Quit,
           recorderVars
    <2> QED
        BY <1>b, <1>e, <2>1
<1>12. CASE PipelineCrash \/ Exit \/ ExitAtCeiling
    <2>1. /\ bridgeInbox' = <<>>
          /\ recording' = NoMeeting
          /\ reporting' = NoMeeting
          /\ startPopup' = NoMeeting
          /\ manualRows' = {}
          /\ UNCHANGED <<reported, arms, status>>
        BY <1>12 DEF PipelineCrash, Exit, ExitAtCeiling, Gone, Crash, rowVars
    <2>2. BridgeRing' /\ \A m \in Meetings : ~BridgeQueued(m)'
        BY <2>1, EmptySeq DEF BridgeRing, BridgeQueued
    <2> QED
        BY <1>d, <1>e, <2>1, <2>2
<1>13. CASE PipelineRestart
    <2>1. UNCHANGED arms
        BY <1>13 DEF PipelineRestart, Restart, budgetVars
    <2> QED
        BY <1>b, <1>c, <1>e, <1>13, <2>1 DEF PipelineRestart
<1>14. CASE UNCHANGED pipelineVars
    BY <1>b, <1>e, <1>14 DEF pipelineVars, recorderVars
<1> QED
    BY <1>1, <1>2, <1>3, <1>4, <1>5, <1>6, <1>7, <1>8, <1>9, <1>10, <1>11, <1>12, <1>13,
       <1>14
    DEF PipelineNext, BridgeStep, ShellStep

\* PipelineTypeOK and CapIffRecording in three parts, for the steps that change
\* one of them.
Ids == Meetings \cup {NoMeeting}

BridgeTypes ==
    /\ recording \in Ids /\ reporting \in Ids
    /\ capDue = IF recording = NoMeeting THEN FALSE ELSE TRUE
    /\ bridgeInbox \in Seq(Events)
    /\ reported \in [Meetings -> Nat]

QueueTypes ==
    /\ stopQueue \in Seq(Resolutions)
    /\ Len(stopQueue) <= StopCapacity

ShellTypes ==
    /\ startPopup \in Ids /\ stopPopup \in Ids
    /\ armingSince \in BOOLEAN
    /\ manualRows \subseteq Meetings
    /\ manualStarts \in Nat /\ ends \in Nat /\ toggles \in Nat
    /\ quitting \in {"no", "waiting", "exited", "gaveUp"}

\* Every step leaves the bridge's and the shell's variables in their sets, and
\* the cap set exactly while a recording is shown.
LEMMA PipelineTypeStep ==
    ASSUME PipelineTypeOK, CapIffRecording, TypeOK',
           [PipelineNext]_pipelineVars
    PROVE  PipelineTypeOK' /\ CapIffRecording'
<1>a. TypeOK /\ BridgeTypes /\ QueueTypes /\ ShellTypes
    BY DEF PipelineTypeOK, CapIffRecording, BridgeTypes, QueueTypes, ShellTypes, Ids
<1>b. SUFFICES BridgeTypes' /\ QueueTypes' /\ ShellTypes'
    BY DEF PipelineTypeOK, CapIffRecording, BridgeTypes, QueueTypes, ShellTypes, Ids
<1> USE DEF BridgeTypes, QueueTypes, ShellTypes, Ids
<1>c. ASSUME NEW m \in Meetings, NEW k \in BOOLEAN,
             SendResolution([meeting |-> m, keep |-> k])
      PROVE  QueueTypes'
    <2>1. [meeting |-> m, keep |-> k] \in Resolutions
        BY DEF Resolutions
    <2> QED
        BY <1>a, <1>c, <2>1, AppendProperties, LenProperties, PipelineAssumption
        DEF SendResolution, PipelineAssumption
<1>d. ASSUME UNCHANGED stopQueue PROVE QueueTypes'
    BY <1>a, <1>d
<1>e. ASSUME NEW m \in Meetings, StopRecording(m)
      PROVE  /\ recording' \in Ids /\ reporting' \in Ids /\ armingSince' \in BOOLEAN
             /\ capDue' = IF recording' = NoMeeting THEN FALSE ELSE TRUE
    <2>1. armingSince' \in BOOLEAN
        BY <1>a, <1>e, StopRecordingLeaves
    <2>2. CASE UNCHANGED <<recording, capDue, reporting>>
        BY <1>a, <2>1, <2>2
    <2>3. CASE recording' = NoMeeting /\ capDue' = FALSE /\ reporting' = m
        BY <2>1, <2>3
    <2> QED
        BY <1>e, <2>2, <2>3, StopRecordingLeaves
<1> USE DEF bridgeVars, shellVars
<1>1. CASE RunTask \/ (StopStep("bridge") /\ UNCHANGED <<bridgeVars, shellVars>>)
    BY <1>a, <1>d, <1>1 DEF RunTask
<1>2. CASE ReportStopped
    BY <1>a, <1>d, <1>2 DEF ReportStopped
<1>3. CASE BridgeArmed
    <2>1. bridgeInbox' \in Seq(Events) /\ Head(bridgeInbox).meeting \in Meetings
        BY <1>a, <1>3, HeadTailType DEF BridgeArmed, Events
    <2> QED
        BY <1>a, <1>d, <1>3, <2>1 DEF BridgeArmed
<1>4. CASE BridgeCancelled
    <2>1. bridgeInbox' \in Seq(Events)
        BY <1>a, <1>4, HeadTailType DEF BridgeCancelled
    <2> QED
        BY <1>a, <1>d, <1>4, <2>1 DEF BridgeCancelled
<1>5. CASE BridgeResolution
    <2>1. /\ Head(stopQueue).meeting \in Meetings
          /\ QueueTypes'
        <3>1. stopQueue # <<>> /\ stopQueue' = Tail(stopQueue)
            BY <1>5 DEF BridgeResolution
        <3>2. /\ Head(stopQueue) \in Resolutions
              /\ Tail(stopQueue) \in Seq(Resolutions)
              /\ Len(Tail(stopQueue)) = Len(stopQueue) - 1
            BY <1>a, <3>1, HeadTailProperties
        <3>3. Len(stopQueue) \in Nat
            BY <1>a, LenProperties
        <3> QED
            BY <1>a, <3>1, <3>2, <3>3, PipelineAssumption DEF Resolutions, PipelineAssumption
    <2>2. \/ UNCHANGED <<recording, capDue, reporting, armingSince>>
          \/ StopRecording(Head(stopQueue).meeting)
        BY <1>5 DEF BridgeResolution
    <2>3. /\ recording' \in Ids /\ reporting' \in Ids /\ armingSince' \in BOOLEAN
          /\ capDue' = IF recording' = NoMeeting THEN FALSE ELSE TRUE
        <3>1. CASE UNCHANGED <<recording, capDue, reporting, armingSince>>
            BY <1>a, <3>1
        <3>2. CASE StopRecording(Head(stopQueue).meeting)
            BY <1>a, <1>e, <2>1, <3>2
        <3> QED
            BY <2>2, <3>1, <3>2
    <2> QED
        BY <1>a, <1>5, <2>1, <2>3 DEF BridgeResolution
<1>6. CASE BridgeCap \/ BridgeEnded
    <2>1. \/ UNCHANGED <<recording, capDue, reporting, armingSince>>
          \/ recording # NoMeeting /\ StopRecording(recording)
          \/ /\ recording = NoMeeting
             /\ capDue' = FALSE
             /\ UNCHANGED <<recording, reporting, armingSince>>
        BY <1>6 DEF BridgeCap, BridgeEnded
    <2>2. /\ recording' \in Ids /\ reporting' \in Ids /\ armingSince' \in BOOLEAN
          /\ capDue' = IF recording' = NoMeeting THEN FALSE ELSE TRUE
        <3>1. CASE UNCHANGED <<recording, capDue, reporting, armingSince>>
            BY <1>a, <3>1
        <3>2. CASE recording # NoMeeting /\ StopRecording(recording)
            BY <1>a, <1>e, <3>2
        <3>3. CASE /\ recording = NoMeeting
                   /\ capDue' = FALSE
                   /\ UNCHANGED <<recording, reporting, armingSince>>
            BY <1>a, <3>3
        <3> QED
            BY <2>1, <3>1, <3>2, <3>3
    <2> QED
        BY <1>a, <1>d, <1>6, <2>2 DEF BridgeCap, BridgeEnded
<1>7. ASSUME NEW m \in Meetings, BridgeStarted(m) \/ ManualInsert(m)
      PROVE  BridgeTypes' /\ QueueTypes' /\ ShellTypes'
    <2>1. CASE BridgeStarted(m)
        BY <1>a, <1>d, <2>1 DEF BridgeStarted
    <2>2. CASE ManualInsert(m)
        BY <1>a, <1>d, <2>2 DEF ManualInsert
    <2> QED
        BY <1>7, <2>1, <2>2
<1>8. ASSUME NEW m \in Meetings, CountdownArmed(m) \/ CountdownCancelled(m) \/ ManualArmed(m)
      PROVE  BridgeTypes' /\ QueueTypes' /\ ShellTypes'
    <2>1. \E e \in Events : PublishToBridge(e)
        BY <1>8 DEF CountdownArmed, CountdownCancelled, ManualArmed, Events
    <2>2. bridgeInbox' \in Seq(Events)
        BY <1>a, <2>1, DeliverType DEF PublishToBridge
    <2> QED
        BY <1>a, <1>d, <1>8, <2>2 DEF CountdownArmed, CountdownCancelled, ManualArmed
<1>9. CASE StopCountdownResolved
    <2>1. stopPopup \in Meetings
        BY <1>a, <1>9 DEF StopCountdownResolved
    <2>2. QueueTypes'
        BY <1>c, <1>9, <2>1 DEF StopCountdownResolved
    <2> QED
        BY <1>a, <1>9, <2>2 DEF StopCountdownResolved
<1>10. CASE Toggle \/ Quit
    <2>1. QueueTypes'
        <3>1. \/ UNCHANGED stopQueue
              \/ /\ recording \in Meetings
                 /\ SendResolution([meeting |-> recording, keep |-> FALSE])
            BY <1>a, <1>10 DEF Toggle, Quit
        <3> QED
            BY <1>c, <1>d, <3>1
    <2>2. BridgeTypes' /\ ShellTypes'
        <3>1. CASE Toggle
            <4>1. toggles' \in Nat /\ manualStarts' \in Nat
                BY <1>a, <3>1 DEF Toggle
            <4>2. armingSince' \in BOOLEAN
                BY <1>a, <3>1 DEF Toggle
            <4> QED
                BY <1>a, <3>1, <4>1, <4>2 DEF Toggle
        <3>2. CASE Quit
            BY <1>a, <3>2 DEF Quit
        <3> QED
            BY <1>10, <3>1, <3>2
    <2> QED
        BY <2>1, <2>2
<1>11. CASE GraceElapsed \/ ManualInsertFails
    <2>1. CASE GraceElapsed
        BY <1>a, <1>d, <2>1 DEF GraceElapsed
    <2>2. CASE ManualInsertFails
        <3>1. manualStarts' \in Nat
            BY <1>a, <2>2 DEF ManualInsertFails
        <3> QED
            BY <1>a, <1>d, <2>2, <3>1 DEF ManualInsertFails
    <2> QED
        BY <1>11, <2>1, <2>2
<1>12. CASE PipelineCrash \/ Exit \/ ExitAtCeiling
    <2>1. Gone /\ quitting' \in {"no", "exited", "gaveUp"}
        BY <1>12 DEF PipelineCrash, Exit, ExitAtCeiling
    <2>2. bridgeInbox' \in Seq(Events) /\ QueueTypes'
        BY <2>1, EmptySeq, PipelineAssumption DEF Gone, PipelineAssumption
    <2> QED
        BY <1>a, <2>1, <2>2 DEF Gone
<1>13. CASE PipelineRestart
    BY <1>a, <1>d, <1>13 DEF PipelineRestart
<1>14. CASE UNCHANGED pipelineVars
    BY <1>a, <1>d, <1>14 DEF pipelineVars
<1> HIDE DEF BridgeTypes, QueueTypes, ShellTypes, Ids
<1> QED
    BY <1>1, <1>2, <1>3, <1>4, <1>5, <1>6, <1>7, <1>8, <1>9, <1>10, <1>11, <1>12, <1>13,
       <1>14
    DEF PipelineNext, BridgeStep, ShellStep

-----------------------------------------------------------------------------
(* What follows for every behaviour of the pipeline.                       *)

\* The inductive invariant: the recorder's, and the stages of each meeting.
PipelineInv ==
    /\ RowInv
    /\ PipelineTypeOK
    /\ CapIffRecording
    /\ BridgeRing
    /\ Staged

\* It holds at launch and every step keeps it, so it always holds.
LEMMA PipelineAlways == PipelineInit /\ [][PipelineNext]_pipelineVars => []PipelineInv
<1>1. PipelineInit => PipelineInv
    <2> SUFFICES ASSUME PipelineInit PROVE PipelineInv
        OBVIOUS
    <2>1. Init
        BY DEF PipelineInit
    <2>2. RowInv
        BY <2>1, TypeInit, OwnershipInit, BookkeepingInit, LivesInit, FindableInit,
           StrandedInit
        DEF RowInv
    <2>3. BridgeRing /\ \A m \in Meetings : ~BridgeQueued(m)
        BY EmptySeq DEF PipelineInit, BridgeRing, BridgeQueued
    <2>4. PipelineTypeOK
        <3>1. bridgeInbox \in Seq(Events) /\ stopQueue \in Seq(Resolutions) /\ Len(stopQueue) = 0
            BY EmptySeq DEF PipelineInit
        <3>2. Len(stopQueue) <= StopCapacity
            BY <3>1, PipelineAssumption DEF PipelineAssumption
        <3>3. reported \in [Meetings -> Nat]
            BY DEF PipelineInit
        <3>4. TypeOK
            BY <2>2 DEF RowInv
        <3>5. {capDue, armingSince} \subseteq BOOLEAN
            BY DEF PipelineInit
        <3>6. /\ {recording, reporting, startPopup, stopPopup} \subseteq Meetings \cup {NoMeeting}
              /\ manualRows \subseteq Meetings
              /\ {manualStarts, ends, toggles} \subseteq Nat
              /\ quitting \in {"no", "waiting", "exited", "gaveUp"}
            BY DEF PipelineInit
        <3> QED
            BY <3>1, <3>2, <3>3, <3>4, <3>5, <3>6 DEF PipelineTypeOK
    <2>5. Staged
        BY <2>3 DEF PipelineInit, Init, Staged, OneStage
    <2> QED
        BY <2>2, <2>3, <2>4, <2>5 DEF PipelineInv, PipelineInit, CapIffRecording
<1>2. PipelineInv /\ [PipelineNext]_pipelineVars => PipelineInv'
    <2> SUFFICES ASSUME PipelineInv, [PipelineNext]_pipelineVars PROVE PipelineInv'
        OBVIOUS
    <2>1. [Next]_recorderVars
        BY StepsOfRecorder
    <2>2. RowInv'
        BY <2>1, TypeStep, OwnershipStep, BookkeepingStep, LivesStep, FindableStep,
           StrandedStep
        DEF PipelineInv, RowInv
    <2>3. BridgeRing' /\ Staged'
        BY <2>1, StageStep DEF PipelineInv, RowInv
    <2>4. PipelineTypeOK' /\ CapIffRecording'
        BY <2>2, PipelineTypeStep DEF PipelineInv, RowInv
    <2> QED
        BY <2>2, <2>3, <2>4 DEF PipelineInv
<1> QED
    BY <1>1, <1>2, PTL

\* Every variable of the pipeline keeps its type, and the stop-resolution
\* channel its capacity.
THEOREM PipelineTypeCorrect == PipelineSpec => []PipelineTypeOK
<1>1. PipelineInv => PipelineTypeOK
    BY DEF PipelineInv
<1> QED
    BY <1>1, PipelineAlways, PTL DEF PipelineSpec

\* The cap's deadline stands exactly while the bridge shows a recording,
\* whichever of the ways in and out of that state was taken.
THEOREM CapFollowsRecording == PipelineSpec => []CapIffRecording
<1>1. PipelineInv => CapIffRecording
    BY DEF PipelineInv
<1> QED
    BY <1>1, PipelineAlways, PTL DEF PipelineSpec

\* A meeting is handed to transcription at most once, and once handed over it
\* is never offered, announced, shown or stopped again.
THEOREM HandedOnce == PipelineSpec => []HandedOverOnce
<1>1. PipelineInv => HandedOverOnce
    <2> SUFFICES ASSUME PipelineInv, NEW m \in Meetings
                 PROVE  reported[m] <= 1 /\ (reported[m] = 1 => ~Announced(m))
        BY DEF HandedOverOnce
    <2>1. OneStage(m) /\ bridgeInbox \in Seq(Events) /\ arms[m] \in Nat
        BY DEF PipelineInv, Staged, PipelineTypeOK, TypeOK
    <2>2. DOMAIN bridgeInbox = 1..Len(bridgeInbox)
        BY <2>1, LenProperties
    <2>3. BridgeQueued(m) <=> Armed(m) \in {bridgeInbox[i] : i \in DOMAIN bridgeInbox}
        BY <2>2 DEF BridgeQueued
    <2> QED
        BY <2>1, <2>3 DEF OneStage, Announced, Armed
<1> QED
    BY <1>1, PipelineAlways, PTL DEF PipelineSpec

\* Inside the pipeline no meeting is armed twice, so the recorder implements
\* the lifecycle without any bound on the events it is sent.
THEOREM PipelineImplementsLifecycle == PipelineSpec => LifecycleSpec
<1>1. PipelineInit => Lifecycle!Init
    BY DEF PipelineInit, Init, Lifecycle!Init
<1>2. PipelineInv /\ [PipelineNext]_pipelineVars
        => [Lifecycle!Next]_(Lifecycle!lifecycleVars)
    <2> SUFFICES ASSUME PipelineInv, [PipelineNext]_pipelineVars PROVE LifecycleStep
        BY DEF LifecycleStep
    <2>1. [Next]_recorderVars
        BY StepsOfRecorder
    <2>2. RowInv /\ \A m \in Meetings : arms[m] <= 1
        BY DEF PipelineInv, Staged, OneStage
    <2> QED
        BY <2>1, <2>2, LifecycleNext
<1> QED
    BY <1>1, <1>2, PipelineAlways, PTL DEF PipelineSpec, LifecycleSpec, Lifecycle!Spec
=============================================================================
