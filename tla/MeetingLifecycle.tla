--------------------------- MODULE MeetingLifecycle --------------------------
(***************************************************************************)
(* What the meeting pipeline promises about a meetings row and the         *)
(* recording it stands for, without saying how: rows open once and settle  *)
(* once, one meeting is captured at a time and only while its row is open, *)
(* a row settles only when nothing is capturing or finalizing it, and      *)
(* "completed" is said only of a whole recording, which nothing touches    *)
(* again.  A process death loses what is in progress, and the next launch  *)
(* fails the rows it left open.                                            *)
(***************************************************************************)
CONSTANTS Meetings, NoMeeting

VARIABLES
    row,    \* status of each row
    live,   \* the meeting being captured
    taken,  \* meetings whose capture has ended and is being finalized
    whole   \* meetings whose recording is complete on disk

lifecycleVars == <<row, live, taken, whole>>

Init ==
    /\ row = [m \in Meetings |-> "absent"]
    /\ live = NoMeeting
    /\ taken = {}
    /\ whole = {}

\* A meeting is detected, or started by hand.
Open(m) ==
    /\ row[m] = "absent"
    /\ row' = [row EXCEPT ![m] = "recording"]
    /\ UNCHANGED <<live, taken, whole>>

Begin(m) ==
    /\ live = NoMeeting
    /\ row[m] = "recording"
    /\ m \notin taken \cup whole
    /\ live' = m
    /\ UNCHANGED <<row, taken, whole>>

\* The capture ends, to be finalized or to be thrown away.
End ==
    /\ live # NoMeeting
    /\ live' = NoMeeting
    /\ taken' \in {taken, taken \cup {live}}
    /\ UNCHANGED <<row, whole>>

\* Finalizing succeeds or fails.
Finalize(m) ==
    /\ m \in taken
    /\ taken' = taken \ {m}
    /\ whole' \in {whole, whole \cup {m}}
    /\ UNCHANGED <<row, live>>

Settle(m, outcome) ==
    /\ row[m] = "recording"
    /\ m # live
    /\ m \notin taken
    /\ outcome = "completed" => m \in whole
    /\ row' = [row EXCEPT ![m] = outcome]
    /\ UNCHANGED <<live, taken, whole>>

Die ==
    /\ live' = NoMeeting
    /\ taken' = {}
    /\ UNCHANGED <<row, whole>>

Sweep ==
    /\ live = NoMeeting
    /\ taken = {}
    /\ row' = [m \in Meetings |-> IF row[m] = "recording" THEN "failed" ELSE row[m]]
    /\ UNCHANGED <<live, taken, whole>>

Next ==
    \/ \E m \in Meetings :
          \/ Open(m) \/ Begin(m) \/ Finalize(m)
          \/ \E outcome \in {"completed", "cancelled", "failed"} : Settle(m, outcome)
    \/ End
    \/ Die
    \/ Sweep

Spec == Init /\ [][Next]_lifecycleVars
=============================================================================
