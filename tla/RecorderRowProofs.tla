------------------------- MODULE RecorderRowProofs -------------------------
(***************************************************************************)
(* Proofs about the rows and files Recorder leaves behind: what a row says *)
(* against what was captured, what a later launch can find, and that the   *)
(* recorder implements MeetingLifecycle.                                   *)
(***************************************************************************)
EXTENDS RecorderProofs

USE RecorderAssumption DEF RecorderAssumption, Tasks

Armed(m) == [type |-> "Armed", meeting |-> m]

\* Armed(m) is in the ring and the run task has not taken it yet.
Queued(m) == \E i \in 1..Len(inbox) : inbox[i] = Armed(m)

Stopping(t, m) == pc[t] \in StopPoints /\ who[t] = m

-----------------------------------------------------------------------------
(* The ring.                                                               *)

\* What publishing an event leaves in the ring: at most the oldest event goes,
\* only from a full ring, and the new one comes last.
LEMMA DeliverElements ==
    ASSUME NEW q \in Seq(Events), NEW e \in Events, Len(q) <= BusCapacity
    PROVE  LET r == Deliver(q, e) IN
           /\ Len(r) \in 1..BusCapacity
           /\ r[Len(r)] = e
           /\ \E k \in {0, 1} :
                 /\ Len(r) = Len(q) + 1 - k
                 /\ k = 1 => Len(q) = BusCapacity
                 /\ \A i \in 1..(Len(r) - 1) : i + k \in 1..Len(q) /\ r[i] = q[i + k]
<1> DEFINE r == Deliver(q, e)
<1>1. Len(q) \in Nat /\ BusCapacity \in Nat \ {0}
    BY LenProperties
<1>2. CASE Len(q) < BusCapacity
    <2>1. r = Append(q, e)
        BY <1>2 DEF Deliver
    <2>2. /\ Len(r) = Len(q) + 1 - 0
          /\ \A i \in 1..(Len(r) - 1) : i + 0 \in 1..Len(q) /\ r[i] = q[i + 0]
          /\ r[Len(r)] = e
        BY <2>1, <1>1, AppendProperties
    <2> QED
        BY <1>1, <1>2, <2>2
<1>3. CASE Len(q) = BusCapacity
    <2>1. r = Append(Tail(q), e)
        BY <1>1, <1>3 DEF Deliver
    <2>2. q # <<>>
        BY <1>1, <1>3, EmptySeq
    <2>3. /\ Tail(q) \in Seq(Events)
          /\ Len(Tail(q)) = Len(q) - 1
          /\ \A i \in 1..Len(Tail(q)) : Tail(q)[i] = q[i + 1]
        BY <2>2, HeadTailProperties
    <2>4. /\ Len(r) = Len(q) + 1 - 1
          /\ \A i \in 1..(Len(r) - 1) : i + 1 \in 1..Len(q) /\ r[i] = q[i + 1]
          /\ r[Len(r)] = e
        BY <1>1, <2>1, <2>3, AppendProperties
    <2> QED
        BY <1>1, <1>3, <2>4
<1> QED
    BY <1>1, <1>2, <1>3

\* What receiving the oldest event leaves.
LEMMA TailElements ==
    ASSUME NEW q \in Seq(Events), q # <<>>
    PROVE  /\ Len(q) \in Nat \ {0}
           /\ Head(q) = q[1]
           /\ Len(Tail(q)) = Len(q) - 1
           /\ \A i \in 1..Len(Tail(q)) : i + 1 \in 1..Len(q) /\ Tail(q)[i] = q[i + 1]
BY HeadTailProperties, EmptySeq, LenProperties

-----------------------------------------------------------------------------
(* Events, calls and rows belong together.                                 *)

RingBounded == Len(inbox) <= BusCapacity

\* Events, calls in progress and the claimed capture are about rows this process
\* inserted, and such rows exist.
EventsAreFresh == \A i \in 1..Len(inbox) : inbox[i].meeting \in fresh
CallsAreFresh == \A t \in Tasks : pc[t] # "idle" => who[t] \in fresh
ActiveIsFresh == active # NoMeeting => active \in fresh
FreshHasRow == \A m \in Meetings : m \in fresh \/ arms[m] > 0 => status[m] # "absent"

\* The bridge calls nothing but stop.
BridgeOnlyStops == pc["bridge"] \in {"idle"} \cup StopPoints

\* Between a crash and the next launch nothing is left but rows and files, and
\* no file is still being written.
DownIsQuiet ==
    ~up =>
        /\ active = NoMeeting
        /\ session = NoMeeting
        /\ \A t \in Tasks : pc[t] = "idle"
        /\ inbox = <<>>
        /\ fresh = {}
        /\ crashes > 0
        /\ \A m \in Meetings : files[m] # "open"

\* An Armed event published once is in the ring at most once.
QueuedWasArmed == \A m \in Meetings : Queued(m) => arms[m] > 0
QueuedOnce ==
    \A m \in Meetings : arms[m] <= 1 =>
        \A i, j \in 1..Len(inbox) : inbox[i] = Armed(m) /\ inbox[j] = Armed(m) => i = j

Bookkeeping ==
    /\ RingBounded
    /\ EventsAreFresh
    /\ CallsAreFresh
    /\ ActiveIsFresh
    /\ FreshHasRow
    /\ BridgeOnlyStops
    /\ DownIsQuiet
    /\ QueuedWasArmed
    /\ QueuedOnce

\* At launch there are no events, calls or rows.
LEMMA BookkeepingInit == Init => Bookkeeping
<1> SUFFICES ASSUME Init PROVE Bookkeeping
    OBVIOUS
<1>1. Len(inbox) = 0
    BY EmptySeq DEF Init
<1> QED
    BY <1>1 DEF Init, Bookkeeping, RingBounded, EventsAreFresh, CallsAreFresh,
       ActiveIsFresh, FreshHasRow, BridgeOnlyStops, DownIsQuiet, QueuedWasArmed,
       QueuedOnce, Queued

\* Publishing keeps the ring's part of it.
LEMMA PublishKeepsRing ==
    ASSUME TypeOK, Bookkeeping, NEW m \in fresh,
           NEW e \in {Armed(m), [type |-> "Cancelled", meeting |-> m]},
           Publish(e),
           UNCHANGED fresh,
           e = Armed(m) => arms' = [arms EXCEPT ![m] = @ + 1],
           e # Armed(m) => UNCHANGED arms
    PROVE  /\ RingBounded'
           /\ EventsAreFresh'
           /\ QueuedWasArmed'
           /\ QueuedOnce'
           /\ \A k \in Meetings : Queued(k)' => Queued(k) \/ e = Armed(k)
           /\ \A k \in Meetings : Queued(k) \/ e = Armed(k) => Queued(k)' \/ k \in missed'
<1> USE DEF Armed
<1>1. m \in Meetings /\ e \in Events /\ inbox \in Seq(Events) /\ inbox' = Deliver(inbox, e)
    BY DEF TypeOK, Events, Publish
<1>2. Len(inbox) \in Nat /\ Len(inbox) <= BusCapacity
    BY <1>1, LenProperties DEF Bookkeeping, RingBounded
<1>3. PICK k \in {0, 1} :
         /\ Len(inbox') \in 1..BusCapacity
         /\ inbox'[Len(inbox')] = e
         /\ Len(inbox') = Len(inbox) + 1 - k
         /\ k = 1 => Len(inbox) = BusCapacity
         /\ \A i \in 1..(Len(inbox') - 1) : i + k \in 1..Len(inbox) /\ inbox'[i] = inbox[i + k]
    BY <1>1, <1>2, DeliverElements
<1>4. \A i \in 1..Len(inbox') : i = Len(inbox') \/ i \in 1..(Len(inbox') - 1)
    BY <1>2, <1>3
<1>5. \A p \in Meetings :
          arms[p] \in Nat /\ arms'[p] = IF e = Armed(p) THEN arms[p] + 1 ELSE arms[p]
    <2>1. arms \in [Meetings -> Nat]
        BY DEF TypeOK
    <2>2. ASSUME NEW p \in Meetings, e = Armed(m) PROVE e = Armed(p) <=> p = m
        BY <2>2
    <2>3. CASE e = Armed(m)
        BY <1>1, <2>1, <2>2, <2>3
    <2>4. CASE e # Armed(m)
        <3>1. arms' = arms /\ e.type # "Armed"
            BY <2>4
        <3> QED
            BY <2>1, <3>1
    <2> QED
        BY <2>3, <2>4
<1>6. RingBounded'
    BY <1>3 DEF RingBounded
<1>7. e.meeting = m
    OBVIOUS
<1>8. EventsAreFresh'
    BY <1>3, <1>4, <1>7 DEF EventsAreFresh, Bookkeeping
<1>9. ASSUME NEW p \in Meetings, Queued(p)' PROVE Queued(p) \/ e = Armed(p)
    BY <1>3, <1>4, <1>9 DEF Queued
<1>10. QueuedWasArmed'
    <2> SUFFICES ASSUME NEW p \in Meetings, Queued(p)' PROVE arms'[p] > 0
        BY DEF QueuedWasArmed
    <2>1. CASE Queued(p)
        BY <2>1, <1>5 DEF Bookkeeping, QueuedWasArmed
    <2>2. CASE e = Armed(p)
        BY <2>2, <1>5
    <2> QED
        BY <1>9, <2>1, <2>2
<1>11. QueuedOnce'
    <2> SUFFICES ASSUME NEW p \in Meetings, arms'[p] <= 1,
                        NEW i \in 1..Len(inbox'), NEW j \in 1..Len(inbox'),
                        inbox'[i] = Armed(p), inbox'[j] = Armed(p)
                 PROVE  i = j
        BY DEF QueuedOnce
    <2>1. CASE e = Armed(p)
        <3>1. arms[p] = 0
            BY <2>1, <1>5
        <3>2. ~Queued(p)
            BY <3>1 DEF Bookkeeping, QueuedWasArmed
        <3> QED
            BY <3>2, <1>3, <1>4 DEF Queued
    <2>2. CASE e # Armed(p)
        <3>1. arms[p] <= 1
            BY <2>2, <1>5
        <3>2. i \in 1..(Len(inbox') - 1) /\ j \in 1..(Len(inbox') - 1)
            BY <2>2, <1>3, <1>4
        <3>3. /\ i + k \in 1..Len(inbox) /\ inbox[i + k] = Armed(p)
              /\ j + k \in 1..Len(inbox) /\ inbox[j + k] = Armed(p)
            BY <3>2, <1>3
        <3>4. i + k = j + k
            BY <3>1, <3>3 DEF Bookkeeping, QueuedOnce
        <3> QED
            BY <3>4, <3>2, <1>3
    <2> QED
        BY <2>1, <2>2
<1>12. ASSUME NEW p \in Meetings, Queued(p) PROVE Queued(p)' \/ p \in missed'
    <2>1. PICK i \in 1..Len(inbox) : inbox[i] = Armed(p)
        BY <1>12 DEF Queued
    <2>2. CASE i > k
        <3>1. i - k \in 1..(Len(inbox') - 1) /\ (i - k) + k = i
            BY <1>2, <1>3, <2>2
        <3>2. inbox'[i - k] = Armed(p) /\ i - k \in 1..Len(inbox')
            BY <1>2, <1>3, <2>1, <3>1
        <3> QED
            BY <3>2 DEF Queued
    <2>3. CASE ~(i > k)
        <3>1. i = 1 /\ Len(inbox) = BusCapacity
            BY <1>2, <1>3, <2>3
        <3>2. inbox # <<>>
            BY <1>1, <3>1, EmptySeq
        <3>3. Head(inbox) = Armed(p)
            BY <1>1, <2>1, <3>1, <3>2, TailElements
        <3> QED
            BY <3>1, <3>3 DEF Publish
    <2> QED
        BY <2>2, <2>3
<1>13. ASSUME NEW p \in Meetings, e = Armed(p) PROVE Queued(p)'
    BY <1>2, <1>3, <1>13 DEF Queued
<1> QED
    BY <1>6, <1>8, <1>9, <1>10, <1>11, <1>12, <1>13

\* So does receiving, and an Armed published once is gone for good then.
LEMMA ReceiveKeepsRing ==
    ASSUME TypeOK, Bookkeeping, inbox # <<>>, inbox' = Tail(inbox), UNCHANGED <<fresh, arms>>
    PROVE  /\ Head(inbox) \in Events
           /\ Head(inbox).meeting \in fresh
           /\ RingBounded'
           /\ EventsAreFresh'
           /\ QueuedWasArmed'
           /\ QueuedOnce'
           /\ \A k \in Meetings : Queued(k)' => Queued(k)
           /\ \A k \in Meetings :
                 Head(inbox) = Armed(k) => Queued(k) /\ (arms[k] <= 1 => ~Queued(k)')
           /\ \A k \in Meetings : Queued(k) /\ Head(inbox) # Armed(k) => Queued(k)'
<1>1. /\ Len(inbox) \in Nat \ {0}
      /\ Head(inbox) = inbox[1]
      /\ Len(inbox') = Len(inbox) - 1
      /\ \A i \in 1..Len(inbox') : i + 1 \in 1..Len(inbox) /\ inbox'[i] = inbox[i + 1]
    BY TailElements DEF TypeOK
<1>2. Head(inbox) \in Events
    BY HeadTailType DEF TypeOK
<1>3. Head(inbox).meeting \in fresh
    BY <1>1 DEF Bookkeeping, EventsAreFresh
<1>4. RingBounded' /\ EventsAreFresh'
    BY <1>1 DEF RingBounded, EventsAreFresh, Bookkeeping
<1>5. \A k \in Meetings : Queued(k)' => Queued(k)
    BY <1>1 DEF Queued
<1>6. QueuedWasArmed'
    BY <1>5 DEF Bookkeeping, QueuedWasArmed
<1>7. QueuedOnce'
    <2> SUFFICES ASSUME NEW p \in Meetings, arms[p] <= 1,
                        NEW i \in 1..Len(inbox'), NEW j \in 1..Len(inbox'),
                        inbox'[i] = Armed(p), inbox'[j] = Armed(p)
                 PROVE  i = j
        BY DEF QueuedOnce
    <2>1. i + 1 = j + 1
        BY <1>1 DEF Bookkeeping, QueuedOnce
    <2> QED
        BY <2>1, <1>1
<1>8. ASSUME NEW k \in Meetings, Head(inbox) = Armed(k)
      PROVE  Queued(k) /\ (arms[k] <= 1 => ~Queued(k)')
    <2>1. Queued(k)
        BY <1>1, <1>8 DEF Queued
    <2>2. ASSUME arms[k] <= 1, Queued(k)' PROVE FALSE
        <3>1. PICK i \in 1..Len(inbox') : inbox'[i] = Armed(k)
            BY <2>2 DEF Queued
        <3>2. i + 1 = 1
            BY <1>1, <1>8, <2>2, <3>1 DEF Bookkeeping, QueuedOnce
        <3> QED
            BY <3>2, <1>1
    <2> QED
        BY <2>1, <2>2
<1>9. ASSUME NEW k \in Meetings, Queued(k), Head(inbox) # Armed(k) PROVE Queued(k)'
    <2>1. PICK i \in 1..Len(inbox) : inbox[i] = Armed(k)
        BY <1>9 DEF Queued
    <2>2. i # 1 /\ i - 1 \in 1..Len(inbox') /\ (i - 1) + 1 = i
        BY <1>1, <1>9, <2>1
    <2>3. inbox'[i - 1] = Armed(k)
        BY <1>1, <2>1, <2>2
    <2> QED
        BY <2>2, <2>3 DEF Queued
<1> QED
    BY <1>2, <1>3, <1>4, <1>5, <1>6, <1>7, <1>8, <1>9

\* What every other step leaves of it.
LEMMA RingUnchanged ==
    ASSUME Bookkeeping, UNCHANGED <<inbox, fresh, arms>>
    PROVE  RingBounded' /\ EventsAreFresh' /\ QueuedWasArmed' /\ QueuedOnce'
BY DEF Bookkeeping, RingBounded, EventsAreFresh, QueuedWasArmed, QueuedOnce, Queued

\* finish_meeting leaves no row "absent".
LEMMA FinishMeetingRow ==
    ASSUME TypeOK, NEW m \in Meetings, NEW s \in Outcomes, FinishMeeting(m, s)
    PROVE  /\ \A k \in Meetings : k # m => status'[k] = status[k]
           /\ status'[m] \in {s, status[m]}
           /\ faults = 0 /\ faults' = 0 => status'[m] = s
           /\ faults' >= faults
           /\ s # "absent"
<1>1. s # "absent"
    BY DEF Outcomes
<1>2. CASE StorageFault /\ UNCHANGED status
    BY <1>1, <1>2 DEF TypeOK, StorageFault
<1>3. CASE status' = [status EXCEPT ![m] = s] /\ UNCHANGED faults
    BY <1>1, <1>3 DEF TypeOK
<1> QED
    BY <1>2, <1>3 DEF FinishMeeting

\* Every step keeps them together: events are published about rows already
\* inserted, calls are made about events received, a crash forgets them all.
LEMMA BookkeepingStep ==
    TypeOK /\ Bookkeeping /\ [Next]_recorderVars => Bookkeeping'
<1> SUFFICES ASSUME TypeOK, Bookkeeping, [Next]_recorderVars
             PROVE  Bookkeeping'
    OBVIOUS
<1> DEFINE Ring == RingBounded /\ EventsAreFresh /\ QueuedWasArmed /\ QueuedOnce
<1> DEFINE Rest == /\ CallsAreFresh
                   /\ ActiveIsFresh
                   /\ FreshHasRow
                   /\ BridgeOnlyStops
                   /\ DownIsQuiet
<1>a. Rest /\ Ring
    BY DEF Bookkeeping
<1>b. SUFFICES Rest' /\ Ring'
    BY DEF Bookkeeping
<1>c. ASSUME UNCHANGED <<inbox, fresh, arms>> PROVE Ring'
    BY <1>c, RingUnchanged
<1> USE DEF CallsAreFresh, ActiveIsFresh, FreshHasRow, BridgeOnlyStops, DownIsQuiet,
            claimVars, taskVars, busVars, rowVars, budgetVars
<1> HIDE DEF Ring
<1>1. ASSUME NEW m \in Meetings, OpenRow(m) PROVE Rest' /\ Ring'
    <2>1. Rest'
        BY <1>a, <1>1 DEF OpenRow, InsertMeeting, TypeOK
    <2>2. Ring'
        BY <1>1 DEF OpenRow, InsertMeeting, Bookkeeping, RingBounded, EventsAreFresh,
            QueuedWasArmed, QueuedOnce, Queued, Ring
    <2> QED
        BY <2>1, <2>2
<1>2. ASSUME NEW m \in Meetings, PublishArmed(m) PROVE Rest' /\ Ring'
    <2>1. Rest'
        BY <1>a, <1>2 DEF PublishArmed, TypeOK
    <2>2. Ring'
        BY <1>2, PublishKeepsRing DEF PublishArmed, Armed, Ring
    <2> QED
        BY <2>1, <2>2
<1>3. ASSUME NEW m \in Meetings, PublishCancelled(m) PROVE Rest' /\ Ring'
    <2>1. Rest'
        BY <1>a, <1>3 DEF PublishCancelled, TypeOK
    <2>2. Ring'
        BY <1>3, PublishKeepsRing DEF PublishCancelled, Armed, Ring
    <2> QED
        BY <2>1, <2>2
<1>4. CASE ReceiveArmed
    <2>1. Head(inbox).meeting \in fresh /\ Ring'
        BY <1>4, ReceiveKeepsRing DEF ReceiveArmed, Ring
    <2>2. Rest'
        BY <1>a, <1>4, <2>1 DEF ReceiveArmed, Goto, TypeOK
    <2> QED
        BY <2>1, <2>2
<1>5. CASE ReceiveCancelled
    <2>1. Ring'
        BY <1>5, ReceiveKeepsRing DEF ReceiveCancelled, Ring
    <2>2. Rest'
        BY <1>a, <1>5 DEF ReceiveCancelled, StopBegin, Goto, TypeOK
    <2> QED
        BY <2>1, <2>2
<1>6. CASE BridgeStop
    BY <1>a, <1>c, <1>6 DEF BridgeStop, StopBegin, Goto, TypeOK, StopPoints
<1>7. CASE StampBusy
    BY <1>a, <1>c, <1>7, FinishMeetingRow DEF StampBusy, Return, Goto, TypeOK, Outcomes
<1>8. CASE Prepare
    BY <1>a, <1>c, <1>8 DEF Prepare, Goto, TypeOK
<1>9. CASE TryStart
    BY <1>a, <1>c, <1>9 DEF TryStart, CapturerStarts, CapturerRefuses, Goto, TypeOK
<1>10. CASE Retry
    BY <1>a, <1>c, <1>10 DEF Retry, Goto, TypeOK
<1>11. CASE Abandoned
    BY <1>a, <1>c, <1>11 DEF Abandoned, Goto, TypeOK
<1>12. CASE GiveUp
    BY <1>a, <1>c, <1>12 DEF GiveUp, Goto, TypeOK
<1>13. CASE StampFailed
    BY <1>a, <1>c, <1>13, FinishMeetingRow DEF StampFailed, Return, Goto, TypeOK, Outcomes
<1>14. CASE Claim
    BY <1>a, <1>c, <1>14 DEF Claim, Goto, TypeOK
<1>15. CASE SetRecordingPaths
    BY <1>a, <1>c, <1>15 DEF SetRecordingPaths, Return, Goto, TypeOK
<1>16. CASE Unwind
    BY <1>a, <1>c, <1>16 DEF Unwind, Goto, TypeOK
<1>17. CASE StampUnwound
    BY <1>a, <1>c, <1>17, FinishMeetingRow DEF StampUnwound, Return, Goto, TypeOK, Outcomes
<1>18. ASSUME NEW t \in Tasks, Teardown(t) PROVE Rest' /\ Ring'
    BY <1>a, <1>c, <1>18 DEF Teardown, Goto, TypeOK, StopPoints
<1>19. ASSUME NEW t \in Tasks, Finalize(t) PROVE Rest' /\ Ring'
    BY <1>a, <1>c, <1>19 DEF Finalize, Goto, TypeOK, StopPoints
<1>20. ASSUME NEW t \in Tasks, StampStopped(t) PROVE Rest' /\ Ring'
    BY <1>a, <1>c, <1>20, FinishMeetingRow DEF StampStopped, Return, Goto, TypeOK
<1>21. CASE Crash
    <2>1. Rest'
        BY <1>a, <1>21 DEF Crash, TypeOK
    <2>2. Len(inbox') = 0
        BY <1>21, EmptySeq DEF Crash
    <2>3. Ring'
        BY <2>2 DEF Ring, RingBounded, EventsAreFresh, QueuedWasArmed, QueuedOnce, Queued
    <2> QED
        BY <2>1, <2>3
<1>22. CASE Restart
    BY <1>a, <1>c, <1>22 DEF Restart, TypeOK
<1>23. CASE UNCHANGED recorderVars
    BY <1>a, <1>c, <1>23 DEF recorderVars
<1> HIDE DEF Rest
<1> QED
    BY <1>1, <1>2, <1>3, <1>4, <1>5, <1>6, <1>7, <1>8, <1>9, <1>10, <1>11, <1>12,
       <1>13, <1>14, <1>15, <1>16, <1>17, <1>18, <1>19, <1>20, <1>21, <1>22, <1>23
    DEF Next, RunStep, ArmStep, StopStep, Environment

\* Counters of published events only grow.
LEMMA ArmsGrow ==
    ASSUME TypeOK, [Next]_recorderVars, NEW m \in Meetings
    PROVE  arms'[m] \in Nat /\ arms'[m] >= arms[m]
<1> USE DEF budgetVars, TypeOK
<1>1. CASE \E k \in Meetings : PublishArmed(k)
    BY SMTT(30), <1>1 DEF PublishArmed
<1>2. CASE UNCHANGED arms
    BY <1>2
<1>3. (\E k \in Meetings : PublishArmed(k)) \/ UNCHANGED arms
    BY Zenon
    DEF Next, RunStep, ArmStep, StopStep, Environment, recorderVars, OpenRow,
        PublishCancelled, ReceiveArmed, ReceiveCancelled, BridgeStop, StampBusy, Prepare,
        TryStart, Retry, Abandoned, GiveUp, StampFailed, Claim, SetRecordingPaths, Unwind,
        StampUnwound, Teardown, Finalize, StampStopped, Crash, Restart
<1> QED
    BY <1>1, <1>2, <1>3

\* So do those of faults and crashes.
LEMMA FaultsGrow ==
    ASSUME TypeOK, [Next]_recorderVars
    PROVE  /\ faults' \in Nat /\ faults' >= faults
           /\ crashes' \in Nat /\ crashes' >= crashes
<1> USE DEF budgetVars, TypeOK
<1>1. CASE Crash
    BY <1>1 DEF Crash
<1>2. CASE UNCHANGED crashes /\ (UNCHANGED faults \/ StorageFault)
    BY <1>2 DEF StorageFault
<1> QED
    BY <1>1, <1>2
    DEF Next, RunStep, ArmStep, StopStep, Environment, recorderVars, OpenRow, PublishArmed,
        PublishCancelled, ReceiveArmed, ReceiveCancelled, BridgeStop, StampBusy, Prepare,
        TryStart, Retry, Abandoned, GiveUp, StampFailed, Claim, SetRecordingPaths, Unwind,
        StampUnwound, Teardown, Finalize, StampStopped, Restart, FinishMeeting,
        ClearFailedAttempt

-----------------------------------------------------------------------------
(* A meeting armed once is waiting, being started, claimed, being stopped  *)
(* or done, one at a time, and its row and files say which.                *)

\* Its Armed event is still to be published, or to be received.
Waiting(m) == arms[m] = 0 \/ Queued(m)

\* arm is working on it and has not made its claim.
Working(m) == pc["run"] \in ArmPoints \ {"paths"} /\ who["run"] = m

WaitingIsUntouched(m) ==
    Waiting(m) =>
        /\ active # m
        /\ \A t \in Tasks : pc[t] # "idle" => who[t] # m
        /\ files[m] = "none"
        /\ m \in fresh => status[m] = "recording"

WorkingIsAlone(m) ==
    Working(m) =>
        /\ active # m
        /\ ~Stopping("bridge", m)
        /\ status[m] = "recording"
        /\ pc["run"] \notin {"claim", "unwind"} => files[m] \in {"none", "partial"}

ActiveIsAlone(m) ==
    active = m => status[m] = "recording" /\ \A t \in Tasks : ~Stopping(t, m)

StopIsAlone(m) ==
    /\ ~(Stopping("run", m) /\ Stopping("bridge", m))
    /\ \A t \in Tasks : Stopping(t, m) =>
          /\ status[m] = "recording"
          /\ pc[t] = "finalize" => files[m] = "open" /\ session # m
          /\ pc[t] = "stamp" => files[m] \in {"partial", "final"}
          /\ pc[t] = "stamp" /\ outcome[t] = "completed" => files[m] = "final"

FilesFollow(m) ==
    /\ session = m => files[m] = "open"
    /\ status[m] = "completed" => files[m] = "final"

OneLife(m) ==
    /\ WaitingIsUntouched(m)
    /\ WorkingIsAlone(m)
    /\ ActiveIsAlone(m)
    /\ StopIsAlone(m)
    /\ FilesFollow(m)

EachLivesOnce == \A m \in Meetings : arms[m] <= 1 => OneLife(m)

\* At launch every meeting is waiting.
LEMMA LivesInit == Init => EachLivesOnce
BY DEF Init, EachLivesOnce, OneLife, WaitingIsUntouched, WorkingIsAlone, ActiveIsAlone,
       StopIsAlone, FilesFollow, Working, Stopping, ArmPoints, StopPoints

\* Every step takes a meeting armed at most once from one stage of its life to
\* the next, and no step takes it back.
LEMMA LivesStep ==
    TypeOK /\ Ownership /\ Bookkeeping /\ EachLivesOnce /\ [Next]_recorderVars
        => EachLivesOnce'
<1> SUFFICES ASSUME TypeOK, Ownership, Bookkeeping, EachLivesOnce, [Next]_recorderVars,
                    NEW m \in Meetings, arms'[m] <= 1
             PROVE  OneLife(m)'
    BY DEF EachLivesOnce
<1>a. arms[m] <= 1 /\ OneLife(m)
    BY SMTT(30), ArmsGrow DEF EachLivesOnce, TypeOK
<1>b. m # NoMeeting /\ arms[m] \in Nat
    BY DEF TypeOK
<1>c. ASSUME UNCHANGED <<inbox, arms>> PROVE Waiting(m)' <=> Waiting(m)
    BY <1>c DEF Waiting, Queued
<1>d. \A t \in Tasks : pc[t] # "idle" => who[t] \in Meetings
    BY DEF TypeOK, Bookkeeping, CallsAreFresh
<1> USE DEF OneLife, WaitingIsUntouched, WorkingIsAlone, ActiveIsAlone, StopIsAlone,
            FilesFollow, Working, Stopping, ArmPoints, StopPoints,
            claimVars, taskVars, busVars, rowVars, budgetVars
<1>1. ASSUME NEW k \in Meetings, OpenRow(k) PROVE OneLife(m)'
    <2>1. CASE k # m
        BY <1>a, <1>c, <1>1, <2>1 DEF OpenRow, InsertMeeting, TypeOK
    <2>2. CASE k = m
        <3>1. m \notin fresh /\ arms[m] = 0
            BY <1>1, <1>b, <2>2 DEF OpenRow, InsertMeeting, Bookkeeping, FreshHasRow
        <3>2. Waiting(m)
            BY <3>1 DEF Waiting
        <3> QED
            BY <1>a, <1>c, <1>1, <1>b, <2>2, <3>1, <3>2 DEF OpenRow, InsertMeeting, TypeOK,
               Bookkeeping, CallsAreFresh, ActiveIsFresh
    <2> QED
        BY <2>1, <2>2
<1>2. ASSUME NEW k \in Meetings, PublishArmed(k) PROVE OneLife(m)'
    <2>1. Queued(m)' => Queued(m) \/ k = m
        BY <1>2, PublishKeepsRing DEF PublishArmed, Armed
    <2>2. Waiting(m)' => Waiting(m)
        BY <1>2, <1>b, <2>1 DEF PublishArmed, TypeOK, Waiting
    <2> HIDE DEF Waiting
    <2> QED
        BY <1>a, <1>2, <2>2 DEF PublishArmed
<1>3. ASSUME NEW k \in Meetings, PublishCancelled(k) PROVE OneLife(m)'
    <2>1. Queued(m)' => Queued(m)
        BY <1>3, PublishKeepsRing DEF PublishCancelled, Armed
    <2>2. Waiting(m)' => Waiting(m)
        BY <1>3, <2>1 DEF PublishCancelled, Waiting
    <2> QED
        BY <1>a, <1>3, <2>2 DEF PublishCancelled
<1>4. CASE ReceiveArmed
    <2> DEFINE h == Head(inbox).meeting
    <2>1. /\ h \in fresh
          /\ h \in Meetings
          /\ Head(inbox) = Armed(h)
          /\ Queued(m)' => Queued(m)
          /\ h = m => Queued(m) /\ ~Queued(m)'
        BY <1>4, <1>a, ReceiveKeepsRing DEF ReceiveArmed, Armed, Events, TypeOK
    <2>2. h = m => Waiting(m) /\ ~Waiting(m)'
        BY <1>4, <2>1 DEF ReceiveArmed, Waiting, Bookkeeping, QueuedWasArmed
    <2>3. Waiting(m)' => Waiting(m)
        BY <1>4, <2>1 DEF ReceiveArmed, Waiting
    <2>4. CASE h = m
        <3>1. Waiting(m) /\ ~Waiting(m)'
            BY <2>2, <2>4
        <3>2. /\ active # m /\ files[m] = "none" /\ status[m] = "recording"
              /\ \A t \in Tasks : pc[t] # "idle" => who[t] # m
              /\ pc["run"] = "idle"
              /\ UNCHANGED <<active, session, outcome, status, files>>
            BY <1>a, <1>4, <2>1, <2>4, <3>1 DEF ReceiveArmed, rowVars
        <3>3. CASE UNCHANGED <<arming, pc, who>>
            BY <1>a, <3>1, <3>2, <3>3
        <3>4. CASE /\ who' = [who EXCEPT !["run"] = m]
                   /\ pc' = [pc EXCEPT !["run"] = "busy"]
            BY <1>a, <3>1, <3>2, <3>4 DEF TypeOK
        <3>5. CASE /\ who' = [who EXCEPT !["run"] = m]
                   /\ pc' = [pc EXCEPT !["run"] = "prepare"]
            BY <1>a, <3>1, <3>2, <3>5 DEF TypeOK
        <3> QED
            BY <1>4, <2>4, <3>3, <3>4, <3>5 DEF ReceiveArmed, Goto
    <2>5. CASE h # m
        BY SMTT(30), <1>a, <1>4, <2>3, <2>5 DEF ReceiveArmed, Goto, TypeOK
    <2> QED
        BY <2>4, <2>5
<1>5. CASE ReceiveCancelled
    <2>1. Waiting(m)' => Waiting(m)
        BY <1>5, ReceiveKeepsRing DEF ReceiveCancelled, Waiting
    <2> QED
        BY SMTT(30), <1>a, <1>b, <1>5, <2>1 DEF ReceiveCancelled, StopBegin, Goto, TypeOK
<1>6. CASE BridgeStop
    BY <1>a, <1>b, <1>c, <1>6 DEF BridgeStop, StopBegin, Goto, TypeOK
<1>7. CASE StampBusy
    <2>1. /\ m # who["run"] => status'[m] = status[m]
          /\ status'[m] = "completed" => status[m] = "completed"
        BY <1>7, <1>d, FinishMeetingRow DEF StampBusy, Outcomes
    <2> QED
        BY <1>a, <1>b, <1>c, <1>7, <2>1 DEF StampBusy, Return, Goto, TypeOK
<1>8. CASE Prepare
    BY SMTT(30), <1>a, <1>b, <1>c, <1>8 DEF Prepare, Goto, TypeOK
<1>9. CASE TryStart
    BY <1>a, <1>b, <1>c, <1>9 DEF TryStart, CapturerStarts, CapturerRefuses, Goto, TypeOK
<1>10. CASE Retry
    BY <1>a, <1>b, <1>c, <1>10 DEF Retry, ClearFailedAttempt, Goto, TypeOK
<1>11. CASE Abandoned
    BY <1>a, <1>b, <1>c, <1>11 DEF Abandoned, Goto, TypeOK
<1>12. CASE GiveUp
    BY <1>a, <1>b, <1>c, <1>12 DEF GiveUp, ClearFailedAttempt, Goto, TypeOK
<1>13. CASE StampFailed
    <2>1. /\ m # who["run"] => status'[m] = status[m]
          /\ status'[m] = "completed" => status[m] = "completed"
        BY <1>13, <1>d, FinishMeetingRow DEF StampFailed, Outcomes
    <2>2. /\ pc["run"] = "failStamp"
          /\ pc' = [pc EXCEPT !["run"] = "idle"]
          /\ who' = [who EXCEPT !["run"] = NoMeeting]
          /\ UNCHANGED <<claimVars, session, outcome, attempt, busVars, paths,
                         files, up, fresh, budgetVars>>
        BY <1>13 DEF StampFailed, Return, Goto
    <2> QED
        BY <1>a, <1>b, <1>c, <2>1, <2>2 DEF TypeOK
<1>14. CASE Claim
    BY SMTT(30), <1>a, <1>b, <1>c, <1>14 DEF Claim, Goto, TypeOK
<1>15. CASE SetRecordingPaths
    BY <1>a, <1>b, <1>c, <1>15 DEF SetRecordingPaths, Return, Goto, TypeOK
<1>16. CASE Unwind
    BY <1>a, <1>b, <1>c, <1>16 DEF Unwind, ClearFailedAttempt, Goto, TypeOK
<1>17. CASE StampUnwound
    <2>1. /\ m # who["run"] => status'[m] = status[m]
          /\ status'[m] = "completed" => status[m] = "completed"
        BY <1>17, <1>d, FinishMeetingRow DEF StampUnwound, Outcomes
    <2> QED
        BY <1>a, <1>b, <1>c, <1>17, <2>1 DEF StampUnwound, Return, Goto, TypeOK
<1>18. ASSUME NEW t \in Tasks, Teardown(t) PROVE OneLife(m)'
    BY SMTT(30), <1>a, <1>b, <1>c, <1>18 DEF Teardown, Goto, TypeOK, Ownership, TeardownHasSession,
       CallsHaveMeeting
<1>19. ASSUME NEW t \in Tasks, Finalize(t) PROVE OneLife(m)'
    BY <1>a, <1>b, <1>c, <1>19 DEF Finalize, Goto, TypeOK
<1>20. ASSUME NEW t \in Tasks, StampStopped(t) PROVE OneLife(m)'
    <2>1. /\ m # who[t] => status'[m] = status[m]
          /\ status'[m] \in {outcome[t], status[m]}
        BY <1>20, <1>d, FinishMeetingRow DEF StampStopped, TypeOK
    <2> QED
        BY <1>a, <1>b, <1>c, <1>20, <2>1 DEF StampStopped, Return, Goto, TypeOK
<1>21. CASE Crash
    <2>1. Waiting(m)' => Waiting(m)
        BY <1>21, EmptySeq DEF Crash, Waiting, Queued
    <2> QED
        BY <1>a, <1>b, <1>21, <2>1 DEF Crash, TypeOK
<1>22. CASE Restart
    BY <1>a, <1>b, <1>c, <1>22 DEF Restart, TypeOK, Bookkeeping, DownIsQuiet
<1>23. CASE UNCHANGED recorderVars
    BY <1>a, <1>c, <1>23 DEF recorderVars
<1> HIDE DEF OneLife
<1> QED
    BY <1>1, <1>2, <1>3, <1>4, <1>5, <1>6, <1>7, <1>8, <1>9, <1>10, <1>11, <1>12,
       <1>13, <1>14, <1>15, <1>16, <1>17, <1>18, <1>19, <1>20, <1>21, <1>22, <1>23
    DEF Next, RunStep, ArmStep, StopStep, Environment

-----------------------------------------------------------------------------
(* While no UPDATE or unlink failed and the process did not die, what is   *)
(* on disk can be reached from its row, however often a meeting is armed.  *)

AtPaths(m) == pc["run"] = "paths" /\ who["run"] = m

\* Points of arm at which it answers for what it has put on disk.
AtFiles(m) ==
    /\ pc["run"] \in {"start", "backoff", "giveup", "claim", "unwind", "paths"}
    /\ who["run"] = m

CapturedIsFindable(m) ==
    active = m \/ (\E t \in Tasks : Stopping(t, m)) \/ status[m] = "completed" =>
        paths[m] \/ AtPaths(m)

FilesAreFindable(m) == files[m] # "none" => paths[m] \/ AtFiles(m)

Findable ==
    faults = 0 /\ crashes = 0 =>
        \A m \in Meetings : CapturedIsFindable(m) /\ FilesAreFindable(m)

\* At launch there are no files.
LEMMA FindableInit == Init => Findable
BY DEF Init, Findable, CapturedIsFindable, FilesAreFindable, Stopping, StopPoints

\* Every step that leaves files behind leaves their path in the row, or a call
\* that will write it there or remove them.
LEMMA FindableStep ==
    TypeOK /\ Ownership /\ Bookkeeping /\ Findable /\ [Next]_recorderVars => Findable'
<1> SUFFICES ASSUME TypeOK, Ownership, Bookkeeping, Findable, [Next]_recorderVars,
                    faults' = 0, crashes' = 0, NEW m \in Meetings
             PROVE  CapturedIsFindable(m)' /\ FilesAreFindable(m)'
    BY DEF Findable
<1>a. faults = 0 /\ crashes = 0 /\ CapturedIsFindable(m) /\ FilesAreFindable(m)
    BY FaultsGrow DEF Findable, TypeOK
<1>b. m # NoMeeting
    OBVIOUS
<1>c. \A t \in Tasks : pc[t] # "idle" => who[t] \in Meetings
    BY DEF TypeOK, Bookkeeping, CallsAreFresh
<1>d. ~StorageFault
    BY <1>a DEF StorageFault
<1>e. up
    BY <1>a DEF Bookkeeping, DownIsQuiet, TypeOK
<1> USE DEF CapturedIsFindable, FilesAreFindable, AtPaths, AtFiles, Stopping, StopPoints,
            claimVars, taskVars, busVars, rowVars, budgetVars
<1>1. ASSUME NEW k \in Meetings, OpenRow(k) PROVE CapturedIsFindable(m)' /\ FilesAreFindable(m)'
    BY <1>a, <1>1 DEF OpenRow, InsertMeeting, TypeOK
<1>2. ASSUME NEW k \in Meetings, PublishArmed(k) PROVE CapturedIsFindable(m)' /\ FilesAreFindable(m)'
    BY <1>a, <1>2 DEF PublishArmed
<1>3. ASSUME NEW k \in Meetings, PublishCancelled(k) PROVE CapturedIsFindable(m)' /\ FilesAreFindable(m)'
    BY <1>a, <1>3 DEF PublishCancelled
<1>4. CASE ReceiveArmed
    BY SMTT(30), <1>a, <1>4 DEF ReceiveArmed, Goto, TypeOK
<1>5. CASE ReceiveCancelled
    BY <1>a, <1>b, <1>5 DEF ReceiveCancelled, StopBegin, Goto, TypeOK
<1>6. CASE BridgeStop
    BY <1>a, <1>b, <1>6 DEF BridgeStop, StopBegin, Goto, TypeOK
<1>7. CASE StampBusy
    BY <1>a, <1>c, <1>d, <1>7 DEF StampBusy, FinishMeeting, Return, Goto, TypeOK
<1>8. CASE Prepare
    BY <1>a, <1>8 DEF Prepare, Goto, TypeOK
<1>9. CASE TryStart
    BY <1>a, <1>9 DEF TryStart, CapturerStarts, CapturerRefuses, Goto, TypeOK
<1>10. CASE Retry
    BY <1>a, <1>d, <1>10 DEF Retry, ClearFailedAttempt, Goto, TypeOK
<1>11. CASE Abandoned
    BY <1>a, <1>11 DEF Abandoned, Goto, TypeOK
<1>12. CASE GiveUp
    BY <1>a, <1>d, <1>12 DEF GiveUp, ClearFailedAttempt, Goto, TypeOK
<1>13. CASE StampFailed
    BY <1>a, <1>c, <1>d, <1>13 DEF StampFailed, FinishMeeting, Return, Goto, TypeOK
<1>14. CASE Claim
    BY <1>a, <1>b, <1>14 DEF Claim, Goto, TypeOK
<1>15. CASE SetRecordingPaths
    BY <1>a, <1>d, <1>15 DEF SetRecordingPaths, Return, Goto, TypeOK
<1>16. CASE Unwind
    BY <1>a, <1>d, <1>16 DEF Unwind, ClearFailedAttempt, Goto, TypeOK
<1>17. CASE StampUnwound
    BY <1>a, <1>c, <1>d, <1>17 DEF StampUnwound, FinishMeeting, Return, Goto, TypeOK
<1>18. ASSUME NEW t \in Tasks, Teardown(t) PROVE CapturedIsFindable(m)' /\ FilesAreFindable(m)'
    BY <1>a, <1>18 DEF Teardown, Goto, TypeOK
<1>19. ASSUME NEW t \in Tasks, Finalize(t) PROVE CapturedIsFindable(m)' /\ FilesAreFindable(m)'
    BY <1>a, <1>19 DEF Finalize, Goto, TypeOK
<1>20. ASSUME NEW t \in Tasks, StampStopped(t) PROVE CapturedIsFindable(m)' /\ FilesAreFindable(m)'
    BY <1>a, <1>c, <1>d, <1>20 DEF StampStopped, FinishMeeting, Return, Goto, TypeOK
<1>21. CASE Crash
    BY <1>a, <1>21 DEF Crash
<1>22. CASE Restart
    BY <1>e, <1>22 DEF Restart
<1>23. CASE UNCHANGED recorderVars
    BY <1>a, <1>23 DEF recorderVars
<1> HIDE DEF CapturedIsFindable, FilesAreFindable
<1> QED
    BY <1>1, <1>2, <1>3, <1>4, <1>5, <1>6, <1>7, <1>8, <1>9, <1>10, <1>11, <1>12,
       <1>13, <1>14, <1>15, <1>16, <1>17, <1>18, <1>19, <1>20, <1>21, <1>22, <1>23
    DEF Next, RunStep, ArmStep, StopStep, Environment

-----------------------------------------------------------------------------
(* A row whose Armed event was consumed is not left saying "recording".    *)

\* A call that is about to record the paths of its capture has it claimed, or
\* being stopped, or stopped and stamped already.
PathsAreOfACapture(m) ==
    faults = 0 /\ AtPaths(m) =>
        active = m \/ Stopping("bridge", m) \/ status[m] # "recording"

\* NoStrandedRow, of one meeting and in terms of Queued.
RowIsNotStranded(m) ==
    m \in fresh /\ arms[m] > 0 /\ faults = 0 /\ m \notin missed /\ ~Queued(m) =>
        status[m] # "recording" \/ active = m \/ Handled(m)

NothingStranded == \A m \in Meetings : PathsAreOfACapture(m) /\ RowIsNotStranded(m)

\* At launch no row says "recording".
LEMMA StrandedInit == Init => NothingStranded
BY DEF Init, NothingStranded, PathsAreOfACapture, RowIsNotStranded, AtPaths

\* Every step that lets go of a meeting has stamped its row, or hands it over
\* to one that will.
LEMMA StrandedStep ==
    TypeOK /\ Ownership /\ Bookkeeping /\ NothingStranded /\ [Next]_recorderVars
        => NothingStranded'
<1> SUFFICES ASSUME TypeOK, Ownership, Bookkeeping, NothingStranded, [Next]_recorderVars,
                    faults' = 0, NEW m \in Meetings
             PROVE  PathsAreOfACapture(m)' /\ RowIsNotStranded(m)'
    BY DEF NothingStranded, PathsAreOfACapture, RowIsNotStranded
<1>a. faults = 0 /\ PathsAreOfACapture(m) /\ RowIsNotStranded(m)
    BY FaultsGrow DEF NothingStranded, TypeOK
<1>b. m # NoMeeting
    OBVIOUS
<1>c. \A t \in Tasks : pc[t] # "idle" => who[t] \in Meetings
    BY DEF TypeOK, Bookkeeping, CallsAreFresh
<1>d. ~StorageFault
    BY <1>a DEF StorageFault
<1>e. ASSUME UNCHANGED inbox PROVE Queued(m)' <=> Queued(m)
    BY <1>e DEF Queued
<1> USE DEF PathsAreOfACapture, RowIsNotStranded, AtPaths, Stopping, StopPoints, Handled,
            claimVars, taskVars, busVars, rowVars, budgetVars
<1>1. ASSUME NEW k \in Meetings, OpenRow(k) PROVE PathsAreOfACapture(m)' /\ RowIsNotStranded(m)'
    <2>1. k \notin fresh /\ arms[k] = 0
        BY <1>1 DEF OpenRow, InsertMeeting, Bookkeeping, FreshHasRow, TypeOK
    <2>2. active # k /\ \A t \in Tasks : pc[t] # "idle" => who[t] # k
        BY <2>1 DEF Bookkeeping, CallsAreFresh, ActiveIsFresh
    <2> QED
        BY <1>a, <1>e, <1>1, <2>1, <2>2 DEF OpenRow, InsertMeeting, TypeOK
<1>2. ASSUME NEW k \in Meetings, PublishArmed(k) PROVE PathsAreOfACapture(m)' /\ RowIsNotStranded(m)'
    <2>1. Queued(m) \/ k = m => Queued(m)' \/ m \in missed'
        BY <1>2, PublishKeepsRing DEF PublishArmed, Armed
    <2>2. missed \subseteq missed'
        BY <1>2 DEF PublishArmed, Publish
    <2> QED
        BY <1>a, <1>2, <2>1, <2>2 DEF PublishArmed, TypeOK
<1>3. ASSUME NEW k \in Meetings, PublishCancelled(k) PROVE PathsAreOfACapture(m)' /\ RowIsNotStranded(m)'
    <2>1. Queued(m) => Queued(m)' \/ m \in missed'
        BY <1>3, PublishKeepsRing DEF PublishCancelled, Armed
    <2>2. missed \subseteq missed'
        BY <1>3 DEF PublishCancelled, Publish
    <2> QED
        BY <1>a, <1>3, <2>1, <2>2 DEF PublishCancelled
<1>4. CASE ReceiveArmed
    <2> DEFINE h == Head(inbox).meeting
    <2>1. Head(inbox) = Armed(h) /\ h \in Meetings
        BY <1>4, ReceiveKeepsRing DEF ReceiveArmed, Armed, Events, TypeOK
    <2>2. h # m => Head(inbox) # Armed(m)
        BY <2>1 DEF Armed
    <2>3. h # m => (Queued(m) => Queued(m)')
        BY <1>4, <2>2, ReceiveKeepsRing DEF ReceiveArmed
    <2>4. arming = NoMeeting
        BY <1>4 DEF ReceiveArmed, Ownership, ArmingIsRun, Starting
    <2>5. PathsAreOfACapture(m)'
        BY <1>a, <1>4 DEF ReceiveArmed, Goto, TypeOK
    <2>6. CASE h # m
        BY <1>a, <1>4, <2>3, <2>5, <2>6 DEF ReceiveArmed, Goto, TypeOK
    <2>7. CASE h = m
        BY <1>a, <1>b, <1>4, <2>4, <2>5, <2>7 DEF ReceiveArmed, AlreadyHandling, Goto, TypeOK
    <2> QED
        BY <2>6, <2>7
<1>5. CASE ReceiveCancelled
    <2>1. Head(inbox) # Armed(m)
        BY <1>5 DEF ReceiveCancelled, Armed
    <2>2. Queued(m) => Queued(m)'
        BY <1>5, <2>1, ReceiveKeepsRing DEF ReceiveCancelled
    <2> QED
        BY <1>a, <1>b, <1>5, <2>2 DEF ReceiveCancelled, StopBegin, Goto, TypeOK
<1>6. CASE BridgeStop
    BY <1>a, <1>b, <1>e, <1>6 DEF BridgeStop, StopBegin, Goto, TypeOK
<1>7. CASE StampBusy
    BY <1>a, <1>c, <1>d, <1>e, <1>7 DEF StampBusy, FinishMeeting, Return, Goto, TypeOK
<1>8. CASE Prepare
    BY <1>a, <1>e, <1>8 DEF Prepare, Goto, TypeOK
<1>9. CASE TryStart
    BY <1>a, <1>e, <1>9 DEF TryStart, Goto, TypeOK
<1>10. CASE Retry
    BY <1>a, <1>d, <1>e, <1>10 DEF Retry, ClearFailedAttempt, Goto, TypeOK
<1>11. CASE Abandoned
    BY <1>a, <1>e, <1>11 DEF Abandoned, Goto, TypeOK
<1>12. CASE GiveUp
    BY <1>a, <1>d, <1>e, <1>12 DEF GiveUp, ClearFailedAttempt, Goto, TypeOK
<1>13. CASE StampFailed
    BY <1>a, <1>c, <1>d, <1>e, <1>13 DEF StampFailed, FinishMeeting, Return, Goto, TypeOK
<1>14. CASE Claim
    BY <1>a, <1>b, <1>e, <1>14 DEF Claim, Goto, TypeOK, Ownership, StartExcludesActive,
       Starting
<1>15. CASE SetRecordingPaths
    BY <1>a, <1>d, <1>e, <1>15 DEF SetRecordingPaths, Return, Goto, TypeOK
<1>16. CASE Unwind
    BY <1>a, <1>d, <1>e, <1>16 DEF Unwind, ClearFailedAttempt, Goto, TypeOK
<1>17. CASE StampUnwound
    BY <1>a, <1>c, <1>d, <1>e, <1>17 DEF StampUnwound, FinishMeeting, Return, Goto, TypeOK
<1>18. ASSUME NEW t \in Tasks, Teardown(t) PROVE PathsAreOfACapture(m)' /\ RowIsNotStranded(m)'
    BY <1>a, <1>e, <1>18 DEF Teardown, Goto, TypeOK
<1>19. ASSUME NEW t \in Tasks, Finalize(t) PROVE PathsAreOfACapture(m)' /\ RowIsNotStranded(m)'
    BY <1>a, <1>e, <1>19 DEF Finalize, Goto, TypeOK
<1>20. ASSUME NEW t \in Tasks, StampStopped(t) PROVE PathsAreOfACapture(m)' /\ RowIsNotStranded(m)'
    BY <1>a, <1>c, <1>d, <1>e, <1>20 DEF StampStopped, FinishMeeting, Return, Goto, TypeOK,
       Outcomes
<1>21. CASE Crash
    BY <1>a, <1>21 DEF Crash
<1>22. CASE Restart
    BY <1>a, <1>d, <1>e, <1>22 DEF Restart, Bookkeeping, DownIsQuiet
<1>23. CASE UNCHANGED recorderVars
    BY <1>a, <1>e, <1>23 DEF recorderVars
<1> HIDE DEF PathsAreOfACapture, RowIsNotStranded
<1> QED
    BY <1>1, <1>2, <1>3, <1>4, <1>5, <1>6, <1>7, <1>8, <1>9, <1>10, <1>11, <1>12,
       <1>13, <1>14, <1>15, <1>16, <1>17, <1>18, <1>19, <1>20, <1>21, <1>22, <1>23
    DEF Next, RunStep, ArmStep, StopStep, Environment

-----------------------------------------------------------------------------
(* What follows for every behaviour of the recorder.                       *)

\* The inductive invariant: what the recorder's rows, files, claim, calls and
\* ring have to do with each other.
RowInv ==
    /\ TypeOK
    /\ RetriesLeft
    /\ Ownership
    /\ Bookkeeping
    /\ EachLivesOnce
    /\ Findable
    /\ NothingStranded

\* It holds at launch and every step keeps it, so it always holds.
LEMMA RowsAlways == Init /\ [][Next]_recorderVars => []RowInv
<1>1. Init => RowInv
    BY TypeInit, OwnershipInit, BookkeepingInit, LivesInit, FindableInit, StrandedInit
    DEF RowInv
<1>2. RowInv /\ [Next]_recorderVars => RowInv'
    BY TypeStep, OwnershipStep, BookkeepingStep, LivesStep, FindableStep, StrandedStep
    DEF RowInv
<1> QED
    BY <1>1, <1>2, PTL

\* The meeting being captured has somebody who will end its capture, so it is
\* neither refused, failed, unwound nor waiting to be stamped.
LEMMA CapturedIsUnsettled ==
    ASSUME RowInv, NEW m \in Meetings, arms[m] <= 1, session = m
    PROVE  /\ status[m] = "recording"
           /\ \A t \in Tasks : who[t] = m => pc[t] # "stamp"
           /\ who["run"] = m => pc["run"] \notin {"busy", "failStamp", "unwindStamp"}
<1>1. m # NoMeeting /\ OneLife(m)
    BY DEF RowInv, EachLivesOnce
<1>2. \/ active = m
      \/ pc["run"] \in {"claim", "unwind"} /\ who["run"] = m
      \/ \E t \in Tasks : pc[t] = "teardown" /\ who[t] = m
    BY <1>1 DEF RowInv, Ownership, NoOrphanCapture
<1> USE <1>1 DEF OneLife, WorkingIsAlone, ActiveIsAlone, StopIsAlone, Working, Stopping,
                 ArmPoints, StopPoints
<1>3. CASE active = m
    BY <1>3
<1>4. CASE pc["run"] \in {"claim", "unwind"} /\ who["run"] = m
    BY <1>4
<1>5. CASE \E t \in Tasks : pc[t] = "teardown" /\ who[t] = m
    BY <1>5
<1> QED
    BY <1>2, <1>3, <1>4, <1>5

\* A meeting armed once and stamped is neither captured nor claimed any more,
\* and "completed" stands only beside a finalized recording: six places stamp
\* the row, on two tasks, and none of them runs ahead of the capture.
THEOREM SettledOver == Spec => []SettledIsOver
<1>1. RowInv => SettledIsOver
    <2> SUFFICES ASSUME RowInv, NEW m \in Meetings, arms[m] <= 1, status[m] \in Outcomes
                 PROVE  /\ session # m
                        /\ active # m
                        /\ status[m] = "completed" => files[m] = "final"
        BY DEF SettledIsOver
    <2>1. status[m] # "recording" /\ OneLife(m)
        BY DEF Outcomes, RowInv, EachLivesOnce
    <2> QED
        BY <2>1, CapturedIsUnsettled DEF OneLife, ActiveIsAlone, FilesFollow
<1> QED
    BY <1>1, RowsAlways, PTL DEF Spec

\* While nothing failed, a completed meeting can be found through its row's
\* path, or arm is about to write it there, however stop overtook arm.
THEOREM CompletedFindable == Spec => []CompletedIsFindable
<1>1. RowInv => CompletedIsFindable
    BY DEF RowInv, Findable, CapturedIsFindable, AtPaths, CompletedIsFindable
<1> QED
    BY <1>1, RowsAlways, PTL DEF Spec

\* While nothing failed, files on disk that no call works on any more are
\* reachable from their row: clear_failed_attempt runs wherever it is needed.
THEOREM FilesReferenced == Spec => []NoUnreferencedFiles
<1>1. RowInv => NoUnreferencedFiles
    BY DEF RowInv, Findable, FilesAreFindable, AtFiles, NoUnreferencedFiles, Handled
<1> QED
    BY <1>1, RowsAlways, PTL DEF Spec

\* While every UPDATE succeeds, a row whose Armed event was consumed is not left
\* saying "recording" with nobody to stamp it.
THEOREM RowsNotStranded == Spec => []NoStrandedRow
<1>1. RowInv => NoStrandedRow
    <2> SUFFICES ASSUME RowInv, NEW m \in fresh,
                        arms[m] > 0, faults = 0, m \notin missed,
                        Armed(m) \notin {inbox[i] : i \in DOMAIN inbox}
                 PROVE  status[m] # "recording" \/ active = m \/ Handled(m)
        BY DEF NoStrandedRow, Armed
    <2>1. m \in Meetings /\ DOMAIN inbox = 1..Len(inbox)
        BY LenProperties DEF RowInv, TypeOK
    <2>2. ~Queued(m)
        BY <2>1 DEF Queued
    <2> QED
        BY <2>1, <2>2 DEF RowInv, NothingStranded, RowIsNotStranded
<1> QED
    BY <1>1, RowsAlways, PTL DEF Spec

\* The rows a step stamps.
LEMMA StatusStep ==
    ASSUME RowInv, [Next]_recorderVars, NEW m \in Meetings, arms[m] <= 1,
           status[m] \in Outcomes
    PROVE  status'[m] = status[m]
<1>1. OneLife(m) /\ status[m] # "recording" /\ status[m] # "absent"
    BY DEF RowInv, EachLivesOnce, Outcomes
<1>2. \A t \in Tasks : pc[t] # "idle" => who[t] \in Meetings
    BY DEF RowInv, TypeOK, Bookkeeping, CallsAreFresh
<1>3. status \in [Meetings -> Statuses] /\ outcome \in [Tasks -> Outcomes]
    BY DEF RowInv, TypeOK
<1> USE DEF rowVars, OneLife, WorkingIsAlone, StopIsAlone, Working, Stopping, ArmPoints,
            StopPoints
<1>4. CASE UNCHANGED status
    BY <1>4
<1>5. CASE \E k \in Meetings : OpenRow(k)
    BY <1>1, <1>3, <1>5 DEF OpenRow, InsertMeeting
<1>6. CASE StampBusy \/ StampFailed \/ StampUnwound
    <2>1. /\ pc["run"] \in {"busy", "failStamp", "unwindStamp"}
          /\ \E s \in Outcomes : FinishMeeting(who["run"], s)
        BY <1>6 DEF StampBusy, StampFailed, StampUnwound, Outcomes
    <2>2. who["run"] # m
        BY <1>1, <2>1
    <2> QED
        BY <1>3, <2>1, <2>2 DEF FinishMeeting
<1>7. ASSUME NEW t \in Tasks, StampStopped(t) PROVE status'[m] = status[m]
    <2>1. who[t] # m
        BY <1>1, <1>7 DEF StampStopped
    <2> QED
        BY <1>3, <1>7, <2>1 DEF StampStopped, FinishMeeting
<1>8. CASE Restart
    BY <1>1, <1>3, <1>8 DEF Restart
<1> QED
    BY <1>4, <1>5, <1>6, <1>7, <1>8
    DEF Next, RunStep, ArmStep, StopStep, Environment, recorderVars, PublishArmed,
        PublishCancelled, ReceiveArmed, ReceiveCancelled, BridgeStop, Prepare,
        TryStart, Retry, Abandoned, GiveUp, Claim, SetRecordingPaths, Unwind,
        Teardown, Finalize, Crash

\* A terminal status is final for a meeting armed at most once, although
\* finish_meeting does not look at the row it overwrites.
THEOREM TerminalFinal == Spec => TerminalIsFinal
<1> DEFINE Kept ==
        \A m \in Meetings :
          arms'[m] <= 1 /\ status[m] \in Outcomes => status'[m] = status[m]
<1>1. RowInv /\ [Next]_recorderVars => [Kept]_recorderVars
    <2> SUFFICES ASSUME RowInv, [Next]_recorderVars PROVE Kept
        OBVIOUS
    <2>1. TypeOK
        BY DEF RowInv
    <2>2. \A m \in Meetings : arms[m] \in Nat /\ arms'[m] \in Nat /\ arms'[m] >= arms[m]
        BY <2>1, ArmsGrow DEF TypeOK
    <2>3. \A m \in Meetings : arms'[m] <= 1 => arms[m] <= 1
        BY <2>2
    <2> QED
        BY <2>3, StatusStep
<1> QED
    BY <1>1, RowsAlways, PTL DEF Spec, TerminalIsFinal

-----------------------------------------------------------------------------
(* The recorder implements MeetingLifecycle.                               *)

Taken == {m \in Meetings : files[m] = "open" /\ session # m}
Whole == {m \in Meetings : files[m] = "final"}

\* A step of the lifecycle, or none that it can see.
LifecycleStep == [Lifecycle!Next]_(Lifecycle!lifecycleVars)

\* Where the lifecycle sees nothing.
LEMMA Unseen ==
    ASSUME UNCHANGED <<status, session, Taken, Whole>>
    PROVE  LifecycleStep
BY DEF LifecycleStep, Lifecycle!lifecycleVars, Taken, Whole

\* Stamping a row settles it, or fails and is not seen.
LEMMA StampSettles ==
    ASSUME RowInv, NEW m \in Meetings, NEW s \in Outcomes,
           FinishMeeting(m, s),
           status[m] = "recording",
           session # m,
           files[m] # "open",
           s = "completed" => files[m] = "final",
           UNCHANGED <<session, files>>
    PROVE  LifecycleStep
<1>1. UNCHANGED <<session, Taken, Whole>>
    BY DEF Taken, Whole
<1>2. CASE UNCHANGED status
    BY <1>1, <1>2, Unseen
<1>3. CASE status' = [status EXCEPT ![m] = s]
    <2>1. Lifecycle!Settle(m, s)
        BY <1>1, <1>3 DEF Lifecycle!Settle, Taken, Whole
    <2> QED
        BY <2>1 DEF LifecycleStep, Lifecycle!Next, Outcomes
<1> QED
    BY <1>2, <1>3 DEF FinishMeeting

\* clear_failed_attempt on a folder that holds no recording is not seen.
LEMMA DebrisUnseen ==
    ASSUME RowInv, NEW m \in Meetings, ClearFailedAttempt(m),
           files[m] \in {"none", "partial"},
           UNCHANGED <<status, session>>
    PROVE  LifecycleStep
<1>1. files'[m] \in {"none", "partial"} /\ \A k \in Meetings : k # m => files'[k] = files[k]
    BY DEF ClearFailedAttempt, RowInv, TypeOK
<1>2. UNCHANGED <<Taken, Whole>>
    BY <1>1 DEF Taken, Whole
<1> QED
    BY <1>2, Unseen

\* Every step of a recorder whose callers arm each meeting at most once is a
\* step of the lifecycle.
LEMMA LifecycleNext ==
    ASSUME RowInv, [Next]_recorderVars, \A m \in Meetings : arms[m] <= 1
    PROVE  LifecycleStep
<1>a. TypeOK /\ Ownership /\ Bookkeeping
    BY DEF RowInv
<1>b. \A m \in Meetings : arms[m] <= 1 /\ OneLife(m) /\ m # NoMeeting
    BY DEF RowInv, EachLivesOnce
<1>c. \A t \in Tasks : pc[t] # "idle" => who[t] \in Meetings
    BY <1>a DEF TypeOK, Bookkeeping, CallsAreFresh
<1>d. \A m \in Meetings : session = m =>
          /\ status[m] = "recording"
          /\ \A t \in Tasks : who[t] = m => pc[t] # "stamp"
          /\ who["run"] = m => pc["run"] \notin {"busy", "failStamp", "unwindStamp"}
    BY <1>b, CapturedIsUnsettled
<1> USE DEF claimVars, taskVars, busVars, rowVars, budgetVars
<1>1. ASSUME NEW m \in Meetings, OpenRow(m) PROVE LifecycleStep
    <2>1. UNCHANGED <<session, Taken, Whole>>
        BY <1>1 DEF OpenRow, InsertMeeting, Taken, Whole
    <2>2. Lifecycle!Open(m)
        BY <1>1, <2>1 DEF OpenRow, InsertMeeting, Lifecycle!Open, Taken, Whole
    <2> QED
        BY <2>2 DEF LifecycleStep, Lifecycle!Next
<1>2. CASE TryStart
    <2> DEFINE m == who["run"]
    <2>1. /\ m \in Meetings
          /\ Working(m)
          /\ pc["run"] = "start"
        BY <1>2, <1>c DEF TryStart, Working, ArmPoints
    <2>2. status[m] = "recording" /\ files[m] \in {"none", "partial"}
        BY <1>b, <2>1 DEF OneLife, WorkingIsAlone
    <2>3. CASE CapturerStarts(m)
        <3>1. session = NoMeeting /\ session' = m /\ files' = [files EXCEPT ![m] = "open"]
            BY <2>3 DEF CapturerStarts
        <3>2. UNCHANGED <<status, Taken, Whole>>
            BY <1>2, <1>a, <1>b, <2>1, <2>2, <3>1 DEF TryStart, Taken, Whole, TypeOK
        <3>3. Lifecycle!Begin(m)
            BY <2>1, <2>2, <3>1, <3>2 DEF Lifecycle!Begin, Taken, Whole
        <3> QED
            BY <2>1, <3>3 DEF LifecycleStep, Lifecycle!Next
    <2>4. CASE CapturerRefuses(m)
        <3>1. UNCHANGED <<status, session, Taken, Whole>>
            BY <1>2, <1>a, <2>1, <2>2, <2>4 DEF TryStart, CapturerRefuses, Taken, Whole, TypeOK
        <3> QED
            BY <3>1, Unseen
    <2> QED
        BY <1>2, <2>3, <2>4 DEF TryStart
<1>3. CASE Retry \/ GiveUp
    <2> DEFINE m == who["run"]
    <2>1. m \in Meetings /\ Working(m) /\ pc["run"] \in {"backoff", "giveup"}
        BY <1>3, <1>c DEF Retry, GiveUp, Working, ArmPoints
    <2>2. files[m] \in {"none", "partial"}
        BY <1>b, <2>1 DEF OneLife, WorkingIsAlone
    <2>3. ClearFailedAttempt(m) /\ UNCHANGED <<status, session>>
        BY <1>3 DEF Retry, GiveUp
    <2> QED
        BY <2>1, <2>2, <2>3, DebrisUnseen
<1>4. CASE Unwind
    <2> DEFINE m == who["run"]
    <2>1. m \in Meetings /\ session = m
        BY <1>4, <1>a, <1>c DEF Unwind, Ownership, UnclaimedHasSession
    <2>2. /\ session' = NoMeeting
          /\ UNCHANGED status
          /\ files'[m] # "open" /\ files'[m] # "final"
          /\ \A k \in Meetings : k # m => files'[k] = files[k]
        BY <1>4, <1>a, <2>1 DEF Unwind, ClearFailedAttempt, TypeOK
    <2>3. files[m] = "open"
        BY <1>b, <2>1 DEF OneLife, FilesFollow
    <2>4. UNCHANGED <<Taken, Whole>>
        BY <1>b, <2>1, <2>2, <2>3 DEF Taken, Whole
    <2>5. Lifecycle!End
        BY <1>b, <2>1, <2>2, <2>4 DEF Lifecycle!End, Taken, Whole
    <2> QED
        BY <2>5 DEF LifecycleStep, Lifecycle!Next
<1>5. ASSUME NEW t \in Tasks, Teardown(t) PROVE LifecycleStep
    <2> DEFINE m == who[t]
    <2>1. m \in Meetings /\ session = m
        BY <1>5, <1>a, <1>c DEF Teardown, Ownership, TeardownHasSession
    <2>2. session' = NoMeeting /\ UNCHANGED <<status, files>>
        BY <1>5, <1>b, <2>1 DEF Teardown
    <2>3. files[m] = "open"
        BY <1>b, <2>1 DEF OneLife, FilesFollow
    <2>4. Taken' = Taken \cup {session} /\ Whole' = Whole
        BY <1>b, <2>1, <2>2, <2>3 DEF Taken, Whole
    <2>5. Lifecycle!End
        BY <1>b, <2>1, <2>2, <2>4 DEF Lifecycle!End, Taken, Whole
    <2> QED
        BY <2>5 DEF LifecycleStep, Lifecycle!Next
<1>6. ASSUME NEW t \in Tasks, Finalize(t) PROVE LifecycleStep
    <2>0. PICK m \in Meetings : m = who[t]
        BY <1>6, <1>c DEF Finalize
    <2>1. files[m] = "open" /\ session # m
        BY <1>6, <1>b, <2>0 DEF Finalize, OneLife, StopIsAlone, Stopping, StopPoints
    <2>2. \E f \in {"final", "partial"} : files' = [files EXCEPT ![m] = f]
        BY <1>6, <2>0 DEF Finalize
    <2>3. UNCHANGED <<status, session>>
        BY <1>6 DEF Finalize
    <2>4. m \in Taken /\ Taken' = Taken \ {m} /\ Whole' \in {Whole, Whole \cup {m}}
        <3>1. PICK f \in {"final", "partial"} : files' = [files EXCEPT ![m] = f]
            BY <2>2
        <3>2. files'[m] = f /\ \A k \in Meetings : k # m => files'[k] = files[k]
            BY <1>a, <2>1, <3>1 DEF TypeOK
        <3>3. m \in Taken /\ Taken' = Taken \ {m}
            BY <2>1, <2>3, <3>2 DEF Taken
        <3>4. Whole' = IF f = "final" THEN Whole \cup {m} ELSE Whole
            BY <2>1, <3>2 DEF Whole
        <3> QED
            BY <3>3, <3>4
    <2>5. Lifecycle!Finalize(m)
        BY <2>1, <2>3, <2>4 DEF Lifecycle!Finalize, Taken, Whole
    <2> QED
        BY <2>5 DEF LifecycleStep, Lifecycle!Next
<1>7. CASE StampBusy \/ StampFailed \/ StampUnwound
    <2> DEFINE m == who["run"]
    <2>1. /\ m \in Meetings
          /\ Working(m)
          /\ pc["run"] \in {"busy", "failStamp", "unwindStamp"}
          /\ \E s \in Outcomes \ {"completed"} : FinishMeeting(m, s)
          /\ UNCHANGED <<session, files>>
        BY <1>7, <1>c DEF StampBusy, StampFailed, StampUnwound, Working, ArmPoints, Outcomes
    <2>2. status[m] = "recording" /\ files[m] # "open" /\ session # m
        BY <1>b, <1>d, <2>1 DEF OneLife, WorkingIsAlone
    <2> QED
        BY <2>1, <2>2, StampSettles
<1>8. ASSUME NEW t \in Tasks, StampStopped(t) PROVE LifecycleStep
    <2> DEFINE m == who[t]
    <2>1. /\ m \in Meetings
          /\ Stopping(t, m)
          /\ pc[t] = "stamp"
          /\ outcome[t] \in Outcomes
          /\ FinishMeeting(m, outcome[t])
          /\ UNCHANGED <<session, files>>
        BY <1>8, <1>a, <1>c DEF StampStopped, Stopping, StopPoints, TypeOK
    <2>2. /\ status[m] = "recording" /\ files[m] # "open" /\ session # m
          /\ outcome[t] = "completed" => files[m] = "final"
        BY <1>b, <1>d, <2>1 DEF OneLife, StopIsAlone
    <2> QED
        BY <2>1, <2>2, StampSettles
<1>9. CASE Crash
    <2>1. Taken' = {} /\ Whole' = Whole /\ session' = NoMeeting /\ UNCHANGED status
        BY <1>9, <1>a DEF Crash, Taken, Whole, TypeOK
    <2>2. Lifecycle!Die
        BY <2>1 DEF Lifecycle!Die, Taken, Whole
    <2> QED
        BY <2>2 DEF LifecycleStep, Lifecycle!Next
<1>10. CASE Restart
    <2>1. session = NoMeeting /\ Taken = {} /\ UNCHANGED <<session, Taken, Whole>>
        BY <1>10, <1>a DEF Restart, Bookkeeping, DownIsQuiet, Taken, Whole
    <2>2. CASE UNCHANGED status
        BY <2>1, <2>2, Unseen
    <2>3. CASE status' = [m \in Meetings |->
                            IF status[m] = "recording" THEN "failed" ELSE status[m]]
        <3>1. Lifecycle!Sweep
            BY <2>1, <2>3 DEF Lifecycle!Sweep, Taken, Whole
        <3> QED
            BY <3>1 DEF LifecycleStep, Lifecycle!Next
    <2> QED
        BY <1>10, <2>2, <2>3 DEF Restart
<1>11. CASE UNCHANGED <<status, session, files>>
    BY <1>11, Unseen DEF Taken, Whole
<1> QED
    BY <1>1, <1>2, <1>3, <1>4, <1>5, <1>6, <1>7, <1>8, <1>9, <1>10, <1>11
    DEF Next, RunStep, ArmStep, StopStep, Environment, recorderVars, PublishArmed,
        PublishCancelled, ReceiveArmed, ReceiveCancelled, BridgeStop, Prepare,
        Abandoned, Claim, SetRecordingPaths, StopBegin

\* A recorder whose callers arm each meeting at most once implements the
\* lifecycle: rows open once and settle once, one capture at a time and only
\* while its row is open, "completed" only of a whole recording.
THEOREM ImplementsLifecycle ==
    ASSUME MaxArms = 1
    PROVE  Spec => LifecycleSpec
<1>1. Init => Lifecycle!Init
    BY DEF Init, Lifecycle!Init
<1>2. RowInv /\ [Next]_recorderVars => [Lifecycle!Next]_(Lifecycle!lifecycleVars)
    <2> SUFFICES ASSUME RowInv, [Next]_recorderVars PROVE LifecycleStep
        BY DEF LifecycleStep
    <2>1. arms \in [Meetings -> 0..MaxArms]
        BY DEF RowInv, TypeOK
    <2>2. \A m \in Meetings : arms[m] <= 1
        BY <2>1
    <2> QED
        BY <2>2, LifecycleNext
<1> QED
    BY <1>1, <1>2, RowsAlways, PTL DEF Spec, LifecycleSpec, Lifecycle!Spec

=============================================================================
