---------------------------- MODULE AgentSession ----------------------------
(***************************************************************************)
(* A meeting's session with a local agent (crates/gilb-assist-acp): a      *)
(* prompt is sent, the agent's output streams through a bounded channel    *)
(* while the reply is awaited, and what was said becomes the answer.  The  *)
(* protocol itself - one reader that passes on the agent's output and its  *)
(* reply in order, and cuts off a turn it has given up on - is another     *)
(* crate's (acp_client) and modelled from how this one relies on it.       *)
(*                                                                         *)
(* A chunk of output is the turn it answers and whether it is text.        *)
(***************************************************************************)
EXTENDS Integers, Sequences, SequencesExt

CONSTANTS EventBuffer,    \* EVENT_BUFFER
          MaxAgentTurns,  \* bound: turns
          MaxOutput       \* bound: chunks the agent says in one turn

ASSUME EventsHaveRoom == EventBuffer \in Nat \ {0}
ASSUME AgentIsBounded == MaxAgentTurns \in Nat /\ MaxOutput \in Nat

VARIABLES
  agentAt,      \* "absent", "idle", "prompting"
  agentTurn,    \* the turn in hand, or the last one
  prompted,     \* pending_system_prompt.is_some()
  output,       \* the event channel
  outputs,      \* chunks of output in this turn
  reply,        \* of the prompt in flight: "none", "ok", "error", "timeout"
  answer,       \* what turn() has collected
  uttered,      \* history: the text the agent has said in this turn
  result,       \* what send returned: [turn, kind, text, uttered]
  instructions  \* history: turns the system prompt went out with

agentVars == <<agentAt, agentTurn, prompted, output, outputs, reply, answer,
               uttered, result, instructions>>

NoResult == [kind |-> "none", text |-> <<>>, uttered |-> <<>>]

AgentInit ==
  /\ agentAt = "absent" /\ agentTurn = 0 /\ prompted = FALSE
  /\ output = <<>> /\ outputs = 0 /\ reply = "none" /\ answer = <<>> /\ uttered = <<>>
  /\ result = NoResult /\ instructions = {}

(* begin: the agent is launched and a session opened, or neither; a blank  *)
(* system prompt is no prompt.                                             *)
BeginSession ==
  /\ agentAt = "absent"
  /\ agentAt' = "idle" /\ prompted' \in BOOLEAN
  /\ UNCHANGED <<agentTurn, output, outputs, reply, answer, uttered, result,
                 instructions>>

(* send: the system prompt rides in until a turn was made.                 *)
SendInput ==
  /\ agentAt = "idle" /\ agentTurn < MaxAgentTurns
  /\ agentAt' = "prompting" /\ agentTurn' = agentTurn + 1
  /\ instructions' = IF prompted THEN instructions \cup {agentTurn'} ELSE instructions
  /\ reply' = "none" /\ answer' = <<>> /\ uttered' = <<>> /\ outputs' = 0
  /\ result' = NoResult
  /\ UNCHANGED <<prompted, output>>

(***************************************************************************)
(* The agent, through the reader                                           *)
(***************************************************************************)
(* The reader waits for room in the channel; so does the reply behind it.  *)
AgentSays ==
  /\ agentAt = "prompting" /\ reply = "none"
  /\ outputs < MaxOutput /\ outputs' = outputs + 1
  /\ Len(output) < EventBuffer
  /\ \E kind \in {"text", "thought"} :
       /\ output' = Append(output, [turn |-> agentTurn, kind |-> kind])
       /\ uttered' = IF kind = "text" THEN Append(uttered, agentTurn) ELSE uttered
  /\ UNCHANGED <<agentAt, agentTurn, prompted, reply, answer, result, instructions>>

(* The reply, an error, or the turn's deadline.                            *)
PromptEnds ==
  /\ agentAt = "prompting" /\ reply = "none"
  /\ reply' \in {"ok", "error", "timeout"}
  /\ UNCHANGED <<agentAt, agentTurn, prompted, output, outputs, answer, uttered,
                 result, instructions>>

(***************************************************************************)
(* turn                                                                    *)
(***************************************************************************)
TextOfEvents(events) ==
  FlattenSeq([i \in DOMAIN events |->
                IF events[i].kind = "text" THEN <<events[i].turn>> ELSE <<>>])

(* The select takes an event while the prompt is in flight; select! may    *)
(* still do so once the reply is there.                                    *)
CollectEvent ==
  /\ agentAt = "prompting" /\ output # <<>>
  /\ answer' = answer \o TextOfEvents(<<Head(output)>>)
  /\ output' = Tail(output)
  /\ UNCHANGED <<agentAt, agentTurn, prompted, outputs, reply, uttered, result,
                 instructions>>

Outcome(text) ==
  [kind |-> CASE reply = "error" -> "error"
              [] reply = "timeout" \/ text = <<>> -> "silence"
              [] OTHER -> "answer",
   text |-> IF reply = "ok" THEN text ELSE <<>>,
   uttered |-> uttered]

(* Mutant: what arrived behind the last chunk is left in the channel.      *)
FinishTurnUndrained ==
  /\ agentAt = "prompting" /\ reply # "none"
  /\ agentAt' = "idle"
  /\ result' = Outcome(answer)
  /\ prompted' = (prompted /\ reply = "error")
  /\ UNCHANGED <<agentTurn, output, outputs, reply, answer, uttered, instructions>>

(* Whatever arrived between the last chunk and the reply is drained, and   *)
(* only a failed turn keeps the system prompt for the next one.            *)
FinishTurn ==
  /\ agentAt = "prompting" /\ reply # "none"
  /\ agentAt' = "idle"
  /\ answer' = answer \o TextOfEvents(output) /\ output' = <<>>
  /\ result' = Outcome(answer')
  /\ prompted' = (prompted /\ reply = "error")
  /\ UNCHANGED <<agentTurn, outputs, reply, uttered, instructions>>

(* The engine resets, or gives the session up: dropping it stops the agent *)
(* and closes the channel.                                                 *)
DropSession ==
  /\ agentAt = "idle"
  /\ agentAt' = "absent" /\ output' = <<>> /\ prompted' = FALSE
  /\ instructions' = {} /\ agentTurn' = 0 /\ result' = NoResult
  /\ reply' = "none" /\ answer' = <<>> /\ uttered' = <<>> /\ outputs' = 0

AgentNext ==
  \/ BeginSession \/ SendInput \/ AgentSays \/ PromptEnds
  \/ CollectEvent \/ FinishTurn \/ DropSession

AgentSpec == AgentInit /\ [][AgentNext]_agentVars

-----------------------------------------------------------------------------
(* The types of the variables.                                             *)
AgentTypeOK ==
  /\ agentAt \in {"absent", "idle", "prompting"}
  /\ agentTurn \in 0 .. MaxAgentTurns /\ prompted \in BOOLEAN
  /\ Len(output) <= EventBuffer /\ outputs \in 0 .. MaxOutput
  /\ reply \in {"none", "ok", "error", "timeout"}
  /\ result.kind \in {"none", "error", "silence", "answer"}
  /\ instructions \subseteq 1 .. MaxAgentTurns

(* An answer is what the agent said in reply to this very prompt, all of   *)
(* it and in order: nothing of a turn that was given up, nothing lost in   *)
(* the channel behind the reply.                                           *)
AnswersAreWhole ==
  /\ result.kind = "answer" => result.text = result.uttered
  /\ \A i \in DOMAIN answer : answer[i] = agentTurn

(* The system prompt goes out with every turn until one was made and never *)
(* again: an agent that has taken a turn has its instructions.             *)
InstructedOnce ==
  /\ agentAt = "idle" /\ agentTurn > 0 /\ ~prompted =>
       \/ instructions = {}                \* there was none to give
       \/ instructions = 1 .. Cardinality(instructions)
  /\ agentAt = "idle" /\ prompted => instructions = 1 .. agentTurn

AgentAnswersFaithfully == AnswersAreWhole /\ InstructedOnce
=============================================================================
