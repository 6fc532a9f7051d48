------------------------------ MODULE ActivityLog ------------------------------
(***************************************************************************)
(* What the capture engine promises about the rows of a session, without   *)
(* saying how: each session is a first-in, first-out log with one life.    *)
(* Messages are taken in one by one, and leave from the front only: to be  *)
(* inserted as rows, a whole batch or one alone, or to be lost because     *)
(* their own insert failed.  When the log ends it may drop what is left,   *)
(* never more than a channel can hold; afterwards nothing enters or leaves *)
(* it, and only then can its row be closed.                                *)
(***************************************************************************)
EXTENDS Naturals, Sequences

CONSTANTS Sessions, Capacity

VARIABLES
    row,        \* sessions row: "absent", "open" or "stopped"
    sink,       \* who inserts the rows: "none" yet, "open" or "gone"
    accepted,   \* messages taken in so far; they are numbered
    pending,    \* those not yet settled, oldest first
    log,        \* rows, in the order they were inserted
    lost        \* messages whose own insert failed

logVars == <<row, sink, accepted, pending, log, lost>>

Init ==
    /\ row = [s \in Sessions |-> "absent"]
    /\ sink = [s \in Sessions |-> "none"]
    /\ accepted = [s \in Sessions |-> 0]
    /\ pending = [s \in Sessions |-> <<>>]
    /\ log = [s \in Sessions |-> <<>>]
    /\ lost = [s \in Sessions |-> {}]

Open(s) ==
    /\ row[s] = "absent" /\ sink[s] = "none"
    /\ row' = [row EXCEPT ![s] = "open"]
    /\ sink' = [sink EXCEPT ![s] = "open"]
    /\ UNCHANGED <<accepted, pending, log, lost>>

Enter(s) ==
    /\ sink[s] = "open"
    /\ accepted' = [accepted EXCEPT ![s] = @ + 1]
    /\ pending' = [pending EXCEPT ![s] = Append(@, accepted[s] + 1)]
    /\ UNCHANGED <<row, sink, log, lost>>

\* The k oldest messages become rows, all at once.
Store(s, k) ==
    /\ sink[s] = "open"
    /\ k \in 1..Len(pending[s])
    /\ log' = [log EXCEPT ![s] = @ \o SubSeq(pending[s], 1, k)]
    /\ pending' = [pending EXCEPT ![s] = SubSeq(@, k + 1, Len(@))]
    /\ UNCHANGED <<row, sink, accepted, lost>>

Lose(s) ==
    /\ sink[s] = "open"
    /\ pending[s] # <<>>
    /\ lost' = [lost EXCEPT ![s] = @ \cup {Head(pending[s])}]
    /\ pending' = [pending EXCEPT ![s] = Tail(@)]
    /\ UNCHANGED <<row, sink, accepted, log>>

End(s) ==
    /\ sink[s] = "open"
    /\ Len(pending[s]) <= Capacity
    /\ sink' = [sink EXCEPT ![s] = "gone"]
    /\ pending' = [pending EXCEPT ![s] = <<>>]
    /\ UNCHANGED <<row, accepted, log, lost>>

Close(s) ==
    /\ row[s] = "open" /\ sink[s] = "gone"
    /\ row' = [row EXCEPT ![s] = "stopped"]
    /\ UNCHANGED <<sink, accepted, pending, log, lost>>

Next ==
    \E s \in Sessions :
       \/ Open(s) \/ Enter(s) \/ Lose(s) \/ End(s) \/ Close(s)
       \/ \E k \in 1..Len(pending[s]) : Store(s, k)

Spec == Init /\ [][Next]_logVars
=============================================================================
