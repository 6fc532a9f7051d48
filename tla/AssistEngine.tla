------------------------------- MODULE AssistEngine -------------------------------
(***************************************************************************)
(* The assist engine: one task that receives the turns of a meeting, the   *)
(* operator's questions and the meeting boundaries from one queue, buffers *)
(* the turns, and sends them to the model under a throttle.  The queue     *)
(* grows while a round-trip is in flight; nothing else of the engine does. *)
(*                                                                         *)
(* Time is one fact, whether last_analysis + backoff is still ahead.  The  *)
(* configuration is asked anew each time, so its answers are free.         *)
(***************************************************************************)
EXTENDS Integers, Sequences, SequencesExt

CONSTANTS
    MaxPending,         \* MAX_PENDING
    MaxBackoff,         \* doublings of the retry interval until its cap
    MaxTurns,           \* bound: turns pushed
    MaxQuestions,       \* bound: questions asked
    MaxResets           \* bound: meetings begun

ASSUME EngineAssumption ==
    /\ MaxPending \in Nat \ {0}
    /\ {MaxBackoff, MaxTurns, MaxQuestions, MaxResets} \subseteq Nat

VARIABLES
    cmds,           \* the command queue
    sent,           \* how many of each command were sent
    engineAt,       \* where the task is
    armed,          \* the sleep_until of run() is armed
    pending,        \* turns buffered, oldest first
    opened,         \* session.is_some()
    cooling,        \* last_analysis + backoff is in the future
    backoff,        \* how often it was doubled
    lastError,      \* a failure is on the panel and need not be shown again
    panel,          \* what the command in hand has put on the panel
    said,           \* history: turns the session has taken in
    received,       \* history: the turns received since the last reset
    overflowed      \* history: turns dropped from a full buffer

assistEngineVars ==
    <<cmds, sent, engineAt, armed, pending, opened, cooling, backoff, lastError, panel,
      said, received, overflowed>>

AssistTypeOK ==
    /\ cmds \in Seq([kind : {"turn", "ask", "reset", "shutdown"}, turn : 0..MaxTurns])
    /\ sent \in [turns : 0..MaxTurns, questions : 0..MaxQuestions, resets : 0..MaxResets]
    /\ engineAt \in {"top", "receiving", "maybe_analyze", "analyzing", "asking", "stopped"}
    /\ {armed, opened, cooling, lastError} \subseteq BOOLEAN
    /\ pending \in Seq(1..MaxTurns) /\ Len(pending) <= MaxPending
    /\ backoff \in 0..MaxBackoff
    /\ panel \in {"nothing", "update", "error"}
    /\ said \in Seq(1..MaxTurns) /\ received \subseteq 1..MaxTurns /\ overflowed \subseteq received

AssistInit ==
    /\ cmds = <<>> /\ sent = [turns |-> 0, questions |-> 0, resets |-> 0]
    /\ engineAt = "top" /\ armed = FALSE /\ pending = <<>> /\ opened = FALSE
    /\ cooling = FALSE /\ backoff = 0 /\ lastError = FALSE /\ panel = "nothing"
    /\ said = <<>> /\ received = {} /\ overflowed = {}

-----------------------------------------------------------------------------
(* The handle.  Commands after the shutdown are never read: it is the last.*)

Send(kind, turn) ==
    /\ \A i \in DOMAIN cmds : cmds[i].kind # "shutdown"
    /\ engineAt # "stopped"
    /\ cmds' = Append(cmds, [kind |-> kind, turn |-> turn])
    /\ UNCHANGED <<engineAt, armed, pending, opened, cooling, backoff, lastError, panel,
                   said, received, overflowed>>

PushTurnCmd ==
    /\ sent.turns < MaxTurns
    /\ Send("turn", sent.turns + 1)
    /\ sent' = [sent EXCEPT !.turns = @ + 1]

AskCmd ==
    /\ sent.questions < MaxQuestions
    /\ Send("ask", 0)
    /\ sent' = [sent EXCEPT !.questions = @ + 1]

ResetCmd ==
    /\ sent.resets < MaxResets
    /\ Send("reset", 0)
    /\ sent' = [sent EXCEPT !.resets = @ + 1]

ShutdownCmd ==
    /\ Send("shutdown", 0)
    /\ UNCHANGED sent

\* Time passes the deadline.
Elapse ==
    /\ cooling
    /\ cooling' = FALSE
    /\ UNCHANGED <<cmds, sent, engineAt, armed, pending, opened, backoff, lastError, panel,
                   said, received, overflowed>>

-----------------------------------------------------------------------------
(* The loop of run().                                                      *)

\* The timer is armed only for a deadline that is still ahead.
ArmDeadline ==
    /\ engineAt = "top"
    /\ armed' = (pending # <<>> /\ cooling)
    /\ engineAt' = "receiving"
    /\ UNCHANGED <<cmds, sent, pending, opened, cooling, backoff, lastError, panel,
                   said, received, overflowed>>

TimerFires ==
    /\ engineAt = "receiving" /\ armed /\ ~cooling
    /\ engineAt' = "maybe_analyze" /\ panel' = "nothing"
    /\ UNCHANGED <<cmds, sent, armed, pending, opened, cooling, backoff, lastError,
                   said, received, overflowed>>

Receive(kind) ==
    /\ engineAt = "receiving" /\ cmds # <<>> /\ Head(cmds).kind = kind
    /\ cmds' = Tail(cmds)
    /\ panel' = "nothing"
    /\ UNCHANGED <<sent, armed>>

ReceiveShutdown ==
    /\ Receive("shutdown")
    /\ engineAt' = "stopped"
    /\ UNCHANGED <<pending, opened, cooling, backoff, lastError, said, received, overflowed>>

ReceiveReset ==
    /\ Receive("reset")
    /\ opened' = FALSE /\ pending' = <<>> /\ cooling' = FALSE /\ backoff' = 0
    /\ lastError' = FALSE
    /\ engineAt' = "top"
    /\ said' = <<>> /\ received' = {} /\ overflowed' = {}

\* The outcome of a question is shown even if the same failure already was.
ReceiveAsk ==
    /\ Receive("ask")
    /\ lastError' = FALSE
    /\ engineAt' = "asking"
    /\ UNCHANGED <<pending, opened, cooling, backoff, said, received, overflowed>>

\* Bug: the buffer is not capped.
ReceiveTurnUncapped ==
    /\ Receive("turn")
    /\ received' = received \cup {Head(cmds).turn}
    /\ pending' = Append(pending, Head(cmds).turn)
    /\ engineAt' = "maybe_analyze"
    /\ UNCHANGED <<opened, cooling, backoff, lastError, said, overflowed>>

\* A full buffer loses its oldest turn.
ReceiveTurn ==
    /\ Receive("turn")
    /\ received' = received \cup {Head(cmds).turn}
    /\ IF Len(pending) = MaxPending
       THEN /\ pending' = Append(Tail(pending), Head(cmds).turn)
            /\ overflowed' = overflowed \cup {Head(pending)}
       ELSE /\ pending' = Append(pending, Head(cmds).turn)
            /\ UNCHANGED overflowed
    /\ engineAt' = "maybe_analyze"
    /\ UNCHANGED <<opened, cooling, backoff, lastError, said>>

-----------------------------------------------------------------------------
(* maybe_analyze, ask and the round-trip they share.                       *)

\* Nothing buffered, disabled, too few turns, or too early; the configuration is free to
\* say so at any time.
NoAnalysis ==
    /\ engineAt = "maybe_analyze"
    /\ engineAt' = "top"
    /\ UNCHANGED <<cmds, sent, armed, pending, opened, cooling, backoff, lastError, panel,
                   said, received, overflowed>>

StartAnalysis ==
    /\ engineAt = "maybe_analyze"
    /\ pending # <<>> /\ ~cooling
    /\ cooling' = TRUE
    /\ engineAt' = "analyzing"
    /\ UNCHANGED <<cmds, sent, armed, pending, opened, backoff, lastError, panel,
                   said, received, overflowed>>

\* converse: the session takes in the turns it was sent, and a Loading pair brackets
\* the call.  begin may have succeeded before send failed.
Delivered ==
    /\ opened' = TRUE
    /\ said' = said \o pending
    /\ lastError' = FALSE

Failed ==
    /\ opened' \in {opened, TRUE}
    /\ lastError' = TRUE
    /\ panel' = IF lastError THEN panel ELSE "error"
    /\ UNCHANGED said

AnalysisDelivered ==
    /\ engineAt = "analyzing"
    /\ Delivered
    /\ pending' = <<>> /\ backoff' = 0
    /\ panel' \in {"nothing", "update"}     \* [NO_RESP] stays silent
    /\ engineAt' = "top"
    /\ UNCHANGED <<cmds, sent, armed, cooling, received, overflowed>>

\* The turns stay; a longer backoff may put a deadline that was past ahead again.
AnalysisFailed ==
    /\ engineAt = "analyzing"
    /\ Failed
    /\ backoff' = IF backoff < MaxBackoff THEN backoff + 1 ELSE backoff
    /\ cooling' \in {cooling, TRUE}
    /\ engineAt' = "top"
    /\ UNCHANGED <<cmds, sent, armed, pending, received, overflowed>>

\* Bug: the turns that went in with a question are sent again by the next analysis.
AskDeliveredKept ==
    /\ engineAt = "asking"
    /\ Delivered
    /\ backoff' = 0 /\ cooling' = TRUE
    /\ panel' = "update"
    /\ engineAt' = "maybe_analyze"
    /\ UNCHANGED <<cmds, sent, armed, pending, received, overflowed>>

AskDelivered ==
    /\ engineAt = "asking"
    /\ Delivered
    /\ pending' = <<>> /\ backoff' = 0 /\ cooling' = TRUE
    /\ panel' = "update"                    \* NO_ANSWER at the least
    /\ engineAt' = "maybe_analyze"
    /\ UNCHANGED <<cmds, sent, armed, received, overflowed>>

\* Disabled, or a failure that no retry will make good: the question is gone.
AskFailed ==
    /\ engineAt = "asking"
    /\ \/ Failed
       \/ panel' = "error" /\ UNCHANGED <<opened, lastError, said>>
    /\ cooling' = TRUE
    /\ engineAt' = "maybe_analyze"
    /\ UNCHANGED <<cmds, sent, armed, pending, backoff, received, overflowed>>

-----------------------------------------------------------------------------

AssistNext ==
    \/ PushTurnCmd \/ AskCmd \/ ResetCmd \/ ShutdownCmd \/ Elapse
    \/ ArmDeadline \/ TimerFires
    \/ ReceiveShutdown \/ ReceiveReset \/ ReceiveAsk \/ ReceiveTurn
    \/ NoAnalysis \/ StartAnalysis \/ AnalysisDelivered \/ AnalysisFailed
    \/ AskDelivered \/ AskFailed

AssistSpec == AssistInit /\ [][AssistNext]_assistEngineVars
-----------------------------------------------------------------------------
\* Through throttling, failures, retries and questions, the conversation takes in the
\* meeting's turns once each and in the order in which they were pushed: what the model
\* was told, followed by what is buffered, is what was received since the last reset
\* less what overflowed.
TurnsToldOnceInOrder ==
    LET told == said \o pending IN
    /\ \A i, j \in DOMAIN told : i < j => told[i] < told[j]
    /\ ToSet(told) = received \ overflowed

\* A typed question never ends in silence, whatever failures were shown before it.
QuestionsAreAnswered ==
    [][engineAt = "asking" /\ engineAt' # "asking" => panel' # "nothing"]_assistEngineVars

\* What the engine promises its callers: nothing told twice, nothing asked in vain.
EngineKeepsItsWord == []TurnsToldOnceInOrder /\ QuestionsAreAnswered
=============================================================================
