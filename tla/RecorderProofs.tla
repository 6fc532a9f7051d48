--------------------------- MODULE RecorderProofs ---------------------------
(***************************************************************************)
(* Proofs about Recorder, for any set of meetings, any retry budget, any   *)
(* ring size and any number of events, storage faults and crashes.         *)
(***************************************************************************)
EXTENDS Recorder, SequenceTheorems, TLAPS

\* The retry loop only sleeps while an attempt is left.
RetriesLeft == pc["run"] = "backoff" => attempt < StartAttempts

USE RecorderAssumption DEF RecorderAssumption, Tasks

-----------------------------------------------------------------------------
(* Type correctness.                                                       *)

\* The ring of a bus subscription holds events, before and after it overflows.
LEMMA DeliverType ==
    ASSUME NEW q \in Seq(Events), NEW e \in Events
    PROVE  Deliver(q, e) \in Seq(Events)
<1>1. CASE Len(q) < BusCapacity
    BY <1>1, AppendProperties DEF Deliver
<1>2. CASE ~(Len(q) < BusCapacity)
    <2>1. Len(q) \in Nat /\ BusCapacity \in Nat \ {0}
        BY LenProperties
    <2>2. q # <<>>
        BY <1>2, <2>1, EmptySeq
    <2>3. Tail(q) \in Seq(Events)
        BY <2>2, HeadTailProperties
    <2> QED
        BY <1>2, <2>3, AppendProperties DEF Deliver
<1> QED
    BY <1>1, <1>2

\* ... and so does what receiving one leaves.
LEMMA HeadTailType ==
    ASSUME NEW q \in Seq(Events), q # <<>>
    PROVE  Head(q) \in Events /\ Tail(q) \in Seq(Events)
BY HeadTailProperties

\* What the storage helpers and the program counter leave behind.
LEMMA StorageFaultType ==
    ASSUME TypeOK, StorageFault \/ UNCHANGED faults
    PROVE  faults' \in 0..MaxFaults
BY DEF TypeOK, StorageFault

\* finish_meeting stamps one of the three terminal statuses, or fails.
LEMMA FinishMeetingType ==
    ASSUME TypeOK, NEW m, NEW s \in Outcomes, FinishMeeting(m, s)
    PROVE  status' \in [Meetings -> Statuses] /\ faults' \in 0..MaxFaults
<1>1. faults' \in 0..MaxFaults
    BY StorageFaultType DEF FinishMeeting
<1>2. status' \in [Meetings -> Statuses]
    <2>1. CASE status' = [status EXCEPT ![m] = s]
        BY <2>1 DEF TypeOK, Statuses
    <2>2. CASE UNCHANGED status
        BY <2>2 DEF TypeOK
    <2> QED
        BY <2>1, <2>2 DEF FinishMeeting
<1> QED
    BY <1>1, <1>2

\* clear_failed_attempt leaves the folder in one of the modelled states.
LEMMA ClearFailedAttemptType ==
    ASSUME TypeOK, NEW m, ClearFailedAttempt(m)
    PROVE  files' \in [Meetings -> FileStates] /\ faults' \in 0..MaxFaults
<1>1. faults' \in 0..MaxFaults
    BY StorageFaultType DEF ClearFailedAttempt
<1>2. files' \in [Meetings -> FileStates]
    <2>1. \E f \in {"none", "partial"} : files' = [files EXCEPT ![m] = f]
        BY Zenon DEF ClearFailedAttempt
    <2> QED
        BY <2>1 DEF TypeOK, FileStates
<1> QED
    BY <1>1, <1>2

\* A task moves to another program point and the other task does not.
LEMMA GotoType ==
    ASSUME TypeOK, NEW t \in Tasks, NEW p \in Points, Goto(t, p)
    PROVE  /\ pc' \in [Tasks -> Points]
           /\ pc'[t] = p
           /\ \A u \in Tasks : u # t => pc'[u] = pc[u]
BY DEF TypeOK, Goto

\* A stop takes the claim and moves its own task only, to no retry.
LEMMA StopBeginType ==
    ASSUME TypeOK, NEW t \in Tasks, NEW o \in Outcomes, StopBegin(t, o)
    PROVE  /\ active' \in Meetings \cup {NoMeeting}
           /\ arming' \in Meetings \cup {NoMeeting}
           /\ pc' \in [Tasks -> Points]
           /\ who' \in [Tasks -> Meetings \cup {NoMeeting}]
           /\ outcome' \in [Tasks -> Outcomes]
           /\ pc'["run"] = "backoff" => pc["run"] = "backoff"
<1>1. CASE active = NoMeeting
    BY <1>1 DEF StopBegin, TypeOK
<1>2. CASE active # NoMeeting
    <2>1. Goto(t, "teardown") /\ "teardown" \in Points
        BY <1>2 DEF StopBegin, Points, StopPoints
    <2>2. pc' \in [Tasks -> Points] /\ (pc'["run"] = "backoff" => pc["run"] = "backoff")
        BY <2>1, GotoType
    <2>3. who' \in [Tasks -> Meetings \cup {NoMeeting}]
        BY <1>2 DEF StopBegin, TypeOK
    <2>4. outcome' \in [Tasks -> Outcomes]
        BY <1>2 DEF StopBegin, TypeOK
    <2> QED
        BY <1>2, <2>2, <2>3, <2>4 DEF StopBegin
<1> QED
    BY <1>1, <1>2

\* A call returns: the task is idle and its meeting forgotten.
LEMMA ReturnType ==
    ASSUME TypeOK, NEW t \in Tasks, Return(t)
    PROVE  /\ pc' \in [Tasks -> Points]
           /\ pc'[t] = "idle"
           /\ \A u \in Tasks : u # t => pc'[u] = pc[u]
           /\ who' \in [Tasks -> Meetings \cup {NoMeeting}]
           /\ \A u \in Tasks : u # t => who'[u] = who[u]
BY DEF TypeOK, Return, Goto, Points

\* Any number of steps of either task, their callers and the operating system
\* leaves every variable in the set it ranges over.
LEMMA TypeStep ==
    TypeOK /\ RetriesLeft /\ [Next]_recorderVars => TypeOK' /\ RetriesLeft'
<1> SUFFICES ASSUME TypeOK, RetriesLeft, [Next]_recorderVars
             PROVE  TypeOK' /\ RetriesLeft'
    OBVIOUS
<1> USE DEF TypeOK, RetriesLeft, claimVars, taskVars, busVars, rowVars, budgetVars
<1>1. ASSUME NEW m \in Meetings, OpenRow(m) PROVE TypeOK' /\ RetriesLeft'
    BY <1>1 DEF OpenRow, InsertMeeting, Statuses
<1>2. ASSUME NEW m \in Meetings, PublishArmed(m) PROVE TypeOK' /\ RetriesLeft'
    <2> DEFINE e == [type |-> "Armed", meeting |-> m]
    <2>1. e \in Events
        BY DEF Events
    <2>2. inbox' \in Seq(Events)
        BY <1>2, <2>1, DeliverType DEF PublishArmed, Publish
    <2>3. missed' \in SUBSET Meetings
        <3>1. CASE Len(inbox) = BusCapacity /\ Head(inbox).type = "Armed"
            <4>1. inbox # <<>>
                BY <3>1, EmptySeq
            <4>2. Head(inbox).meeting \in Meetings
                BY <4>1, HeadTailType DEF Events
            <4> QED
                BY <1>2, <3>1, <4>2 DEF PublishArmed, Publish
        <3> QED
            BY <1>2, <3>1 DEF PublishArmed, Publish
    <2>4. arms' \in [Meetings -> 0..MaxArms]
        BY SMTT(30), <1>2 DEF PublishArmed
    <2> QED
        BY <1>2, <2>2, <2>3, <2>4 DEF PublishArmed
<1>3. ASSUME NEW m \in Meetings, PublishCancelled(m) PROVE TypeOK' /\ RetriesLeft'
    <2> DEFINE e == [type |-> "Cancelled", meeting |-> m]
    <2>1. e \in Events
        BY DEF Events
    <2>2. inbox' \in Seq(Events)
        BY <1>3, <2>1, DeliverType DEF PublishCancelled, Publish
    <2>3. missed' \in SUBSET Meetings
        <3>1. CASE Len(inbox) = BusCapacity /\ Head(inbox).type = "Armed"
            <4>1. inbox # <<>>
                BY <3>1, EmptySeq
            <4>2. Head(inbox).meeting \in Meetings
                BY <4>1, HeadTailType DEF Events
            <4> QED
                BY <1>3, <3>1, <4>2 DEF PublishCancelled, Publish
        <3> QED
            BY <1>3, <3>1 DEF PublishCancelled, Publish
    <2>4. cancels' \in [Meetings -> 0..MaxCancels]
        BY SMTT(30), <1>3 DEF PublishCancelled
    <2> QED
        BY <1>3, <2>2, <2>3, <2>4 DEF PublishCancelled
<1>4. CASE ReceiveArmed
    <2>1. Head(inbox).meeting \in Meetings /\ inbox' \in Seq(Events)
        BY <1>4, HeadTailType DEF ReceiveArmed, Events
    <2>2. Goto("run", "busy") \/ Goto("run", "prepare") \/ UNCHANGED pc
        BY <1>4 DEF ReceiveArmed
    <2>3. pc' \in [Tasks -> Points] /\ (pc'["run"] = "backoff" => pc["run"] = "backoff")
        BY <2>2, GotoType DEF Points, ArmPoints
    <2>4. who' \in [Tasks -> Meetings \cup {NoMeeting}]
        BY <1>4, <2>1 DEF ReceiveArmed
    <2>5. arming' \in Meetings \cup {NoMeeting}
        BY <1>4, <2>1 DEF ReceiveArmed
    <2> QED
        BY <1>4, <2>1, <2>3, <2>4, <2>5 DEF ReceiveArmed
<1>5. CASE ReceiveCancelled
    <2>1. inbox' \in Seq(Events)
        BY <1>5, HeadTailType DEF ReceiveCancelled
    <2>2. StopBegin("run", "cancelled") /\ "run" \in Tasks /\ "cancelled" \in Outcomes
        BY <1>5 DEF ReceiveCancelled, Outcomes
    <2> QED
        BY <1>5, <2>1, <2>2, StopBeginType DEF ReceiveCancelled
<1>6. CASE BridgeStop
    <2>1. StopBegin("bridge", "completed") /\ "bridge" \in Tasks /\ "completed" \in Outcomes
        BY <1>6 DEF BridgeStop, Outcomes
    <2> QED
        BY <1>6, <2>1, StopBeginType DEF BridgeStop
<1>7. CASE StampBusy
    <2>1. status' \in [Meetings -> Statuses] /\ faults' \in 0..MaxFaults
        BY <1>7, FinishMeetingType DEF StampBusy, Outcomes
    <2> QED
        BY <1>7, <2>1, ReturnType DEF StampBusy
<1>8. CASE Prepare
    <2>1. Goto("run", "start") \/ Goto("run", "failStamp")
        BY <1>8 DEF Prepare
    <2>2. pc' \in [Tasks -> Points] /\ pc'["run"] # "backoff"
        BY <2>1, GotoType DEF Points, ArmPoints
    <2>3. arming' \in Meetings \cup {NoMeeting}
        BY <1>8 DEF Prepare
    <2> QED
        BY <1>8, <2>2, <2>3 DEF Prepare
<1>9. CASE TryStart
    <2>1. files' \in [Meetings -> FileStates]
        BY <1>9 DEF TryStart, CapturerStarts, CapturerRefuses, FileStates
    <2>2. pc' \in [Tasks -> Points] /\ RetriesLeft'
        BY <1>9 DEF TryStart, CapturerStarts, CapturerRefuses, Goto, Points,
                    ArmPoints
    <2>3. session' \in Meetings \cup {NoMeeting}
        BY <1>9 DEF TryStart, CapturerStarts, CapturerRefuses
    <2> QED
        BY <1>9, <2>1, <2>2, <2>3 DEF TryStart, CapturerStarts, CapturerRefuses
<1>10. CASE Retry
    <2>1. files' \in [Meetings -> FileStates] /\ faults' \in 0..MaxFaults
        BY <1>10, ClearFailedAttemptType DEF Retry
    <2>2. attempt' \in 1..StartAttempts
        <3>1. attempt' = attempt + 1 /\ pc["run"] = "backoff"
            BY <1>10 DEF Retry
        <3>2. attempt \in 1..StartAttempts /\ attempt < StartAttempts
            BY <3>1
        <3> HIDE DEF TypeOK, RetriesLeft
        <3> QED
            BY <3>1, <3>2
    <2>3. pc' \in [Tasks -> Points] /\ pc'["run"] = "start"
        BY <1>10 DEF Retry, Goto, Points, ArmPoints
    <2> QED
        BY <1>10, <2>1, <2>2, <2>3 DEF Retry
<1>11. CASE Abandoned
    <2>1. pc' \in [Tasks -> Points] /\ pc'["run"] # "backoff"
        BY <1>11, GotoType DEF Abandoned, Points, ArmPoints
    <2> QED
        BY <1>11, <2>1 DEF Abandoned
<1>12. CASE GiveUp
    <2>1. files' \in [Meetings -> FileStates] /\ faults' \in 0..MaxFaults
        BY <1>12, ClearFailedAttemptType DEF GiveUp
    <2>2. pc' \in [Tasks -> Points] /\ pc'["run"] = "failStamp"
        BY <1>12 DEF GiveUp, Goto, Points, ArmPoints
    <2> QED
        BY <1>12, <2>1, <2>2 DEF GiveUp
<1>13. CASE StampFailed
    <2>1. status' \in [Meetings -> Statuses] /\ faults' \in 0..MaxFaults
        BY <1>13, FinishMeetingType DEF StampFailed, Outcomes
    <2> QED
        BY <1>13, <2>1, ReturnType DEF StampFailed
<1>14. CASE Claim
    <2>1. Goto("run", "paths") \/ Goto("run", "unwind")
        BY <1>14 DEF Claim
    <2>2. pc' \in [Tasks -> Points] /\ pc'["run"] # "backoff"
        BY <2>1, GotoType DEF Points, ArmPoints
    <2>3. active' \in Meetings \cup {NoMeeting} /\ arming' \in Meetings \cup {NoMeeting}
        BY <1>14 DEF Claim
    <2>4. attempt' \in 1..StartAttempts
        BY <1>14 DEF Claim
    <2> QED
        BY <1>14, <2>2, <2>3, <2>4 DEF Claim
<1>15. CASE SetRecordingPaths
    <2>1. faults' \in 0..MaxFaults
        BY <1>15, StorageFaultType DEF SetRecordingPaths
    <2>2. paths' \in [Meetings -> BOOLEAN]
        <3>1. CASE paths' = [paths EXCEPT ![who["run"]] = TRUE]
            BY <3>1
        <3>2. CASE UNCHANGED paths
            BY <3>2
        <3> QED
            BY <1>15, <3>1, <3>2 DEF SetRecordingPaths
    <2> QED
        BY <1>15, <2>1, <2>2, ReturnType DEF SetRecordingPaths
<1>16. CASE Unwind
    <2>1. files' \in [Meetings -> FileStates] /\ faults' \in 0..MaxFaults
        BY <1>16, ClearFailedAttemptType DEF Unwind
    <2>2. pc' \in [Tasks -> Points] /\ pc'["run"] = "unwindStamp"
        BY <1>16 DEF Unwind, Goto, Points, ArmPoints
    <2> QED
        BY <1>16, <2>1, <2>2 DEF Unwind
<1>17. CASE StampUnwound
    <2>1. status' \in [Meetings -> Statuses] /\ faults' \in 0..MaxFaults
        BY <1>17, FinishMeetingType DEF StampUnwound, Outcomes
    <2> QED
        BY <1>17, <2>1, ReturnType DEF StampUnwound
<1>18. ASSUME NEW t \in Tasks, Teardown(t) PROVE TypeOK' /\ RetriesLeft'
    <2>1. Goto(t, "finalize") \/ Goto(t, "stamp")
        BY <1>18 DEF Teardown
    <2>2. pc' \in [Tasks -> Points] /\ (pc'["run"] = "backoff" => pc["run"] = "backoff")
        BY <2>1, GotoType DEF Points, StopPoints
    <2>3. outcome' \in [Tasks -> Outcomes]
        BY <1>18 DEF Teardown, Outcomes
    <2> QED
        BY <1>18, <2>2, <2>3 DEF Teardown
<1>19. ASSUME NEW t \in Tasks, Finalize(t) PROVE TypeOK' /\ RetriesLeft'
    <2>1. files' \in [Meetings -> FileStates]
        BY <1>19 DEF Finalize, FileStates
    <2>2. outcome' \in [Tasks -> Outcomes]
        BY <1>19 DEF Finalize, Outcomes
    <2>3. pc' \in [Tasks -> Points] /\ RetriesLeft'
        BY <1>19 DEF Finalize, Goto, Points, StopPoints
    <2> QED
        BY <1>19, <2>1, <2>2, <2>3 DEF Finalize
<1>20. ASSUME NEW t \in Tasks, StampStopped(t) PROVE TypeOK' /\ RetriesLeft'
    <2>1. status' \in [Meetings -> Statuses] /\ faults' \in 0..MaxFaults
        BY <1>20, FinishMeetingType DEF StampStopped
    <2>2. outcome' \in [Tasks -> Outcomes]
        BY <1>20 DEF StampStopped, Outcomes
    <2>3. RetriesLeft'
        BY <1>20, ReturnType DEF StampStopped
    <2> QED
        BY <1>20, <2>1, <2>2, <2>3, ReturnType DEF StampStopped
<1>21. CASE Crash
    <2>1. files' \in [Meetings -> FileStates]
        BY <1>21 DEF Crash, FileStates
    <2>2. pc' \in [Tasks -> Points] /\ outcome' \in [Tasks -> Outcomes] /\ RetriesLeft'
        BY <1>21 DEF Crash, Points, Outcomes
    <2>3. crashes' \in 0..MaxCrashes
        BY <1>21 DEF Crash
    <2>4. inbox' \in Seq(Events)
        BY <1>21, EmptySeq DEF Crash
    <2>5. who' \in [Tasks -> Meetings \cup {NoMeeting}]
        BY <1>21 DEF Crash
    <2>6. attempt' \in 1..StartAttempts
        BY <1>21 DEF Crash
    <2>7. /\ active' \in Meetings \cup {NoMeeting}
          /\ arming' \in Meetings \cup {NoMeeting}
          /\ session' \in Meetings \cup {NoMeeting}
          /\ missed' \in SUBSET Meetings
          /\ fresh' \in SUBSET Meetings
          /\ up' \in BOOLEAN
        BY <1>21 DEF Crash
    <2> QED
        BY <1>21, <2>1, <2>2, <2>3, <2>4, <2>5, <2>6, <2>7 DEF Crash
<1>22. CASE Restart
    <2>1. faults' \in 0..MaxFaults
        BY <1>22, StorageFaultType DEF Restart
    <2>2. status' \in [Meetings -> Statuses]
        <3>1. CASE UNCHANGED status
            BY <3>1
        <3>2. CASE status' = [m \in Meetings |->
                                IF status[m] = "recording" THEN "failed" ELSE status[m]]
            <4>1. \A m \in Meetings : status[m] \in Statuses
                OBVIOUS
            <4> QED
                BY <3>2, <4>1 DEF Statuses, Outcomes
        <3> QED
            BY <1>22, <3>1, <3>2 DEF Restart
    <2> QED
        BY <1>22, <2>1, <2>2 DEF Restart
<1>23. CASE UNCHANGED recorderVars
    BY <1>23 DEF recorderVars
<1> HIDE DEF TypeOK, RetriesLeft, claimVars, taskVars, busVars, rowVars, budgetVars
<1> QED
    BY <1>1, <1>2, <1>3, <1>4, <1>5, <1>6, <1>7, <1>8, <1>9, <1>10, <1>11,
       <1>12, <1>13, <1>14, <1>15, <1>16, <1>17, <1>18, <1>19, <1>20, <1>21,
       <1>22, <1>23
    DEF Next, RunStep, ArmStep, StopStep, Environment

\* The initial state is well typed.
LEMMA TypeInit == Init => TypeOK /\ RetriesLeft
<1> SUFFICES ASSUME Init PROVE TypeOK /\ RetriesLeft
    OBVIOUS
<1>1. inbox \in Seq(Events)
    BY EmptySeq DEF Init
<1> QED
    BY <1>1 DEF Init, TypeOK, RetriesLeft, Points, Outcomes, Statuses, FileStates

\* Every variable of the recorder keeps its type.
THEOREM TypeCorrect == Spec => []TypeOK
<1>1. Init => TypeOK /\ RetriesLeft
    BY TypeInit
<1>2. TypeOK /\ RetriesLeft /\ [Next]_recorderVars => (TypeOK /\ RetriesLeft)'
    BY TypeStep
<1> QED
    BY <1>1, <1>2, PTL DEF Spec

-----------------------------------------------------------------------------
(* Who owns the capturer's session.                                        *)

Starting == {"prepare", "start", "backoff", "giveup", "claim"}

\* The claim in progress is the run task's own, and only between taking it
\* (ReceiveArmed) and leaving the retry loop.
ArmingIsRun == arming # NoMeeting => pc["run"] \in Starting /\ who["run"] = arming

\* Every call in progress knows its meeting.
CallsHaveMeeting == \A t \in Tasks : pc[t] # "idle" => who[t] # NoMeeting

\* No claim is made while one stands: an arm under way excludes a claimed capture.
StartExcludesActive == pc["run"] \in Starting \cup {"unwind"} => active = NoMeeting

\* The claim and the session agree, and nobody is taking the session down.
ActiveHasSession ==
    active # NoMeeting => session = active /\ \A t \in Tasks : pc[t] # "teardown"

\* A capture not yet claimed, or refused its claim, still has its session, and
\* the other task is not at capturer.stop.
UnclaimedHasSession ==
    pc["run"] \in {"claim", "unwind"} =>
        session = who["run"] /\ pc["bridge"] # "teardown"

\* At most one stop is about to take the session down, and it is its own.
TeardownHasSession ==
    /\ \A t \in Tasks : pc[t] = "teardown" => session = who[t]
    /\ ~(pc["run"] = "teardown" /\ pc["bridge"] = "teardown")

Ownership ==
    /\ ArmingIsRun
    /\ CallsHaveMeeting
    /\ StartExcludesActive
    /\ ActiveHasSession
    /\ UnclaimedHasSession
    /\ TeardownHasSession
    /\ NoOrphanCapture

\* Nothing is claimed or captured at launch.
LEMMA OwnershipInit == Init => Ownership
BY DEF Init, Ownership, ArmingIsRun, CallsHaveMeeting, StartExcludesActive,
       ActiveHasSession, UnclaimedHasSession, TeardownHasSession, NoOrphanCapture,
       Starting

\* Every step of either task, of their callers, a crash and a restart keep the
\* agreement of claim, session and program points.
LEMMA OwnershipStep ==
    TypeOK /\ Ownership /\ [Next]_recorderVars => Ownership'
<1> SUFFICES ASSUME TypeOK, Ownership, [Next]_recorderVars
             PROVE  Ownership'
    OBVIOUS
<1> USE DEF Ownership, ArmingIsRun, CallsHaveMeeting, StartExcludesActive,
            ActiveHasSession, UnclaimedHasSession, TeardownHasSession,
            NoOrphanCapture, Starting, claimVars, taskVars
<1>1. ASSUME NEW m \in Meetings, OpenRow(m) PROVE Ownership'
    BY <1>1 DEF OpenRow, InsertMeeting
<1>2. ASSUME NEW m \in Meetings, PublishArmed(m) PROVE Ownership'
    BY <1>2 DEF PublishArmed
<1>3. ASSUME NEW m \in Meetings, PublishCancelled(m) PROVE Ownership'
    BY <1>3 DEF PublishCancelled
<1>4. CASE ReceiveArmed
    <2>1. Head(inbox).meeting \in Meetings
        BY <1>4, HeadTailType DEF ReceiveArmed, TypeOK, Events
    <2>2. CASE UNCHANGED <<arming, pc, who>>
        BY <1>4, <2>2 DEF ReceiveArmed, TypeOK
    <2>3. CASE pc' # pc
        <3> DEFINE h == Head(inbox).meeting
        <3>1. /\ pc["run"] = "idle"
              /\ UNCHANGED <<active, session>>
              /\ who' = [who EXCEPT !["run"] = h]
            BY <1>4, <2>3 DEF ReceiveArmed
        <3>2. \/ pc' = [pc EXCEPT !["run"] = "busy"] /\ UNCHANGED arming
              \/ /\ pc' = [pc EXCEPT !["run"] = "prepare"]
                 /\ arming' = h
                 /\ active = NoMeeting
            BY <1>4, <2>3 DEF ReceiveArmed, Busy, Goto
        <3> QED
            BY <2>1, <3>1, <3>2 DEF TypeOK
    <2>4. UNCHANGED <<arming, pc, who>> \/ pc' # pc
        BY <1>4 DEF ReceiveArmed, Goto, TypeOK
    <2> QED
        BY <2>2, <2>3, <2>4
<1>5. CASE ReceiveCancelled
    BY <1>5 DEF ReceiveCancelled, StopBegin, Goto, TypeOK
<1>6. CASE BridgeStop
    BY <1>6 DEF BridgeStop, StopBegin, Goto, TypeOK
<1>7. CASE StampBusy
    BY <1>7 DEF StampBusy, Return, Goto, TypeOK
<1>8. CASE Prepare
    BY <1>8 DEF Prepare, Goto, TypeOK
<1>9. CASE TryStart
    BY <1>9 DEF TryStart, CapturerStarts, CapturerRefuses, Goto, TypeOK
<1>10. CASE Retry
    BY <1>10 DEF Retry, Goto, TypeOK
<1>11. CASE Abandoned
    BY <1>11 DEF Abandoned, Goto, TypeOK
<1>12. CASE GiveUp
    BY <1>12 DEF GiveUp, Goto, TypeOK
<1>13. CASE StampFailed
    BY <1>13 DEF StampFailed, Return, Goto, TypeOK
<1>14. CASE Claim
    BY <1>14 DEF Claim, Goto, TypeOK
<1>15. CASE SetRecordingPaths
    BY <1>15 DEF SetRecordingPaths, Return, Goto, TypeOK
<1>16. CASE Unwind
    BY <1>16 DEF Unwind, Goto, TypeOK
<1>17. CASE StampUnwound
    BY <1>17 DEF StampUnwound, Return, Goto, TypeOK
<1>18. ASSUME NEW t \in Tasks, Teardown(t) PROVE Ownership'
    BY <1>18 DEF Teardown, Goto, TypeOK
<1>19. ASSUME NEW t \in Tasks, Finalize(t) PROVE Ownership'
    BY <1>19 DEF Finalize, Goto, TypeOK
<1>20. ASSUME NEW t \in Tasks, StampStopped(t) PROVE Ownership'
    BY <1>20 DEF StampStopped, Return, Goto, TypeOK
<1>21. CASE Crash
    BY <1>21 DEF Crash
<1>22. CASE Restart
    BY <1>22 DEF Restart
<1>23. CASE UNCHANGED recorderVars
    BY <1>23 DEF recorderVars
<1> HIDE DEF Ownership, ArmingIsRun, CallsHaveMeeting, StartExcludesActive,
             ActiveHasSession, UnclaimedHasSession, TeardownHasSession,
             NoOrphanCapture, Starting, claimVars, taskVars
<1> QED
    BY <1>1, <1>2, <1>3, <1>4, <1>5, <1>6, <1>7, <1>8, <1>9, <1>10, <1>11, <1>12,
       <1>13, <1>14, <1>15, <1>16, <1>17, <1>18, <1>19, <1>20, <1>21, <1>22, <1>23
    DEF Next, RunStep, ArmStep, StopStep, Environment

\* What holds of the recorder's steps alone, without fairness: the form in which
\* the pipeline uses it.
LEMMA OwnershipAlways ==
    Init /\ [][Next]_recorderVars => [](TypeOK /\ Ownership)
<1>1. Init => TypeOK /\ RetriesLeft /\ Ownership
    BY TypeInit, OwnershipInit
<1>2. TypeOK /\ RetriesLeft /\ Ownership /\ [Next]_recorderVars
        => (TypeOK /\ RetriesLeft /\ Ownership)'
    BY TypeStep, OwnershipStep
<1> QED
    BY <1>1, <1>2, PTL

\* A live capture always has an owner in the program that will end it: the
\* claim, the arm that is about to claim or undo it, or a stop under way.
THEOREM NoOrphan == Spec => []NoOrphanCapture
<1>1. Ownership => NoOrphanCapture
    BY DEF Ownership
<1> QED
    BY <1>1, OwnershipAlways, PTL DEF Spec

\* capturer.stop names no meeting, and still each of its callers takes down the
\* capture it means to, whatever the other task did since it decided to.
THEOREM StopTakesOwn == Spec => []StopTakesOwnSession
<1>1. Ownership => StopTakesOwnSession
    BY DEF Ownership, TeardownHasSession, UnclaimedHasSession, ActiveHasSession,
           StopTakesOwnSession
<1> QED
    BY <1>1, OwnershipAlways, PTL DEF Spec
=============================================================================
