---------------------------- MODULE AssistShell ----------------------------
(***************************************************************************)
(* The shell's side of the assist (crates/gilb-shell-tauri/src/assist):    *)
(* the switch, the choice of an agent and of its model, the download of    *)
(* the speech model, and the stack they wire up and tear down.             *)
(*                                                                         *)
(* Thread 0 is the UI thread, whose commands run one at a time; each       *)
(* agent install and each download is a task of its own, and every one of  *)
(* them may reach wire().  What they share is the preferences file, three  *)
(* atomic flags and the mutex on the wired slot, which wire() holds from   *)
(* its "already running" check to the store of the stack it built.         *)
(***************************************************************************)
EXTENDS Integers

CONSTANTS Agents,      \* the coding agents the picker offers
          NoAgent,     \* no agent chosen
          MaxTasks,    \* bound: installs and downloads spawned in a run
          MaxCommands  \* bound: commands the user issues

ASSUME NoAgentIsNoAgent == NoAgent \notin Agents
ASSUME TasksAreCounted == MaxTasks \in Nat /\ MaxCommands \in Nat

Threads == 0 .. MaxTasks

(* A model is "default" (the agent's own), "picked" by the user, or the    *)
(* one an agent's install seeded, named by the agent.                      *)
Models == {"default", "picked"} \cup Agents

Stacks == [agent : Agents \cup {NoAgent}, model : Models]
NotWired == [agent |-> NoAgent, model |-> "default"]

VARIABLES
  switch,           \* preferences.assist_enabled
  agent,            \* preferences.assist_agent
  model,            \* preferences.assist_model (and assist_effort with it)
  assistModelFile,  \* the whisper model is on disk
  wired,            \* AssistState.wired: what the running stack was built from
  lock,             \* the thread that holds the mutex on it, or -1
  preparing,        \* AssistState.preparing
  downloading,      \* ModelDownload.active
  cancel,           \* ModelDownload.cancel
  cachedOptions,    \* AssistState.session_options: the agent they were probed from
  probe,            \* the agent a session-options probe was started on
  pc,               \* where each thread is
  built,            \* the stack a thread in wire() is putting together
  tasks,            \* tasks spawned so far
  commands,         \* commands issued so far
  owed,             \* history: the switch went on without a model, no end of it yet
  unserved          \* history: an install or a build failed, or a teardown acted on
                    \* an old look at the switch, and no teardown since

prefVars == <<switch, agent, model>>
downloadVars == <<assistModelFile, downloading, cancel>>
stackVars == <<wired, lock, built>>
optionVars == <<cachedOptions, probe>>
assistShellVars == <<switch, agent, model, assistModelFile, wired, lock, preparing,
                     downloading, cancel, cachedOptions, probe, pc, built, tasks, commands,
                     owed, unserved>>

IdlePoints == {"unborn", "idle"}
Available == agent # NoAgent
Goto(t, place) == pc' = [pc EXCEPT ![t] = place]

(* Nobody is between two steps of a handler: tasks only wait for the       *)
(* network or for an agent.                                                *)
Settled == \A t \in Threads : pc[t] \in IdlePoints \cup {"streaming", "installing"}

AssistShellInit ==
  /\ switch \in BOOLEAN /\ assistModelFile \in BOOLEAN
  /\ agent \in Agents \cup {NoAgent} /\ model = "default"
  /\ wired = NotWired /\ lock = -1
  /\ preparing = FALSE /\ downloading = FALSE /\ cancel = FALSE
  /\ cachedOptions = NoAgent /\ probe = NoAgent
  /\ pc = [t \in Threads |->
             CASE t = 0 -> IF switch THEN "wire" ELSE "idle" [] OTHER -> "unborn"]
  /\ built = [t \in Threads |-> NotWired]
  /\ tasks = 0 /\ commands = 0
  /\ owed = FALSE /\ unserved = FALSE

(***************************************************************************)
(* Commands                                                                *)
(***************************************************************************)
Command ==
  /\ pc[0] = "idle" /\ commands < MaxCommands
  /\ commands' = commands + 1

(* assist_set_enabled(true): the preference is saved, then the gate asks   *)
(* whether the model is there.                                             *)
SwitchOn ==
  /\ Command
  /\ switch' = TRUE
  /\ Goto(0, "on")
  /\ UNCHANGED <<agent, model, downloadVars, stackVars, optionVars, preparing,
                 tasks, owed, unserved>>

OnGate ==
  /\ pc[0] = "on"
  /\ Goto(0, IF assistModelFile THEN "wire" ELSE "start")
  /\ owed' = (owed \/ ~assistModelFile)
  /\ UNCHANGED <<prefVars, downloadVars, stackVars, optionVars, preparing,
                 tasks, commands, unserved>>

(* assist_set_enabled(false): saved, the download told to stop, the stack  *)
(* dropped.                                                                *)
SwitchOff ==
  /\ Command
  /\ switch' = FALSE /\ cancel' = TRUE /\ owed' = FALSE
  /\ Goto(0, "drop")
  /\ UNCHANGED <<agent, model, assistModelFile, downloading, stackVars, optionVars,
                 preparing, tasks, unserved>>

(* assist_choose_agent: one install at a time, the choice saved first.     *)
ChooseAgent ==
  /\ Command
  /\ tasks < MaxTasks
  /\ ~preparing
  /\ \E a \in Agents : agent' = a
  /\ preparing' = TRUE
  /\ Goto(0, "clear")
  /\ UNCHANGED <<switch, model, downloadVars, stackVars, optionVars, tasks,
                 owed, unserved>>

(* The knobs belonged to the old agent; then the install is spawned.       *)
ClearKnobs ==
  /\ pc[0] = "clear" /\ tasks < MaxTasks
  /\ cachedOptions' = NoAgent /\ model' = "default"
  /\ tasks' = tasks + 1
  /\ pc' = [pc EXCEPT ![0] = "idle", ![tasks + 1] = "installing"]
  /\ UNCHANGED <<switch, agent, downloadVars, stackVars, probe, preparing,
                 commands, owed, unserved>>

(* assist_set_session_option: saved, then teardown and refresh.            *)
SetSessionOption ==
  /\ Command
  /\ \E m \in {"default", "picked"} : model' = m
  /\ Goto(0, "rewire")
  /\ UNCHANGED <<switch, agent, downloadVars, stackVars, optionVars, preparing,
                 tasks, owed, unserved>>

(* assist_session_options: the agent is probed off the UI thread unless    *)
(* the answer is cached, and the answer cached whenever it comes.          *)
ProbeOptions ==
  /\ cachedOptions = NoAgent /\ probe = NoAgent /\ Available
  /\ probe' = agent
  /\ UNCHANGED <<prefVars, downloadVars, stackVars, cachedOptions, preparing, pc,
                 tasks, commands, owed, unserved>>

CacheOptions ==
  /\ probe # NoAgent
  /\ cachedOptions' = probe /\ probe' = NoAgent
  /\ UNCHANGED <<prefVars, downloadVars, stackVars, preparing, pc, tasks,
                 commands, owed, unserved>>

(***************************************************************************)
(* Installing an agent                                                     *)
(***************************************************************************)
(* GilbAssistHost::prepare probes the agent and saves the defaults it      *)
(* advertises, if any.                                                     *)
Prepare(t) ==
  /\ pc[t] = "installing"
  /\ model' \in {model, agent}
  /\ Goto(t, "installed")
  /\ UNCHANGED <<switch, agent, downloadVars, stackVars, optionVars, preparing,
                 tasks, commands, owed, unserved>>

Installed(t) ==
  /\ pc[t] = "installed"
  /\ preparing' = FALSE
  /\ Goto(t, "rewire")
  /\ UNCHANGED <<prefVars, downloadVars, stackVars, optionVars, tasks, commands,
                 owed, unserved>>

(* The install failed: the user is told, the saved choice stays.           *)
PrepareFails(t) ==
  /\ pc[t] = "installing"
  /\ preparing' = FALSE /\ unserved' = TRUE
  /\ Goto(t, "idle")
  /\ UNCHANGED <<prefVars, downloadVars, stackVars, optionVars, tasks, commands,
                 owed>>

(***************************************************************************)
(* Wiring                                                                  *)
(***************************************************************************)
(* teardown: takes the slot's stack, under its mutex.  refresh() looked at *)
(* the switch before: a user who turned it on since is not served.         *)
Teardown(t) ==
  /\ pc[t] \in {"drop", "rewire"}
  /\ lock = -1
  /\ wired' = NotWired
  /\ unserved' = (pc[t] = "drop" /\ switch)
  /\ Goto(t, IF pc[t] = "rewire" THEN "refresh" ELSE "idle")
  /\ UNCHANGED <<prefVars, downloadVars, lock, built, optionVars, preparing,
                 tasks, commands, owed>>

Refresh(t) ==
  /\ pc[t] = "refresh"
  /\ IF Available /\ switch
       THEN Goto(t, "wire") /\ UNCHANGED cancel
       ELSE Goto(t, "drop") /\ cancel' = TRUE
  /\ UNCHANGED <<prefVars, assistModelFile, downloading, stackVars, optionVars, preparing,
                 tasks, commands, owed, unserved>>

(* wire: the gates, then AssistHost::engine under the mutex.               *)
WireNothing(t) ==
  /\ pc[t] = "wire"
  /\ ~Available \/ (lock = -1 /\ (wired # NotWired \/ ~assistModelFile))
  /\ Goto(t, "idle")
  /\ UNCHANGED <<prefVars, downloadVars, stackVars, optionVars, preparing,
                 tasks, commands, owed, unserved>>

(* Mutant: the slot is locked for the check and again for the store only.  *)
WireStartUnlocked(t) ==
  /\ pc[t] = "wire"
  /\ Available /\ lock = -1 /\ wired = NotWired /\ assistModelFile
  /\ Goto(t, "agent")
  /\ UNCHANGED <<prefVars, downloadVars, stackVars, optionVars, preparing,
                 tasks, commands, owed, unserved>>

WireStart(t) ==
  /\ pc[t] = "wire"
  /\ Available /\ lock = -1 /\ wired = NotWired /\ assistModelFile
  /\ lock' = t
  /\ Goto(t, "agent")
  /\ UNCHANGED <<prefVars, downloadVars, wired, built, optionVars, preparing,
                 tasks, commands, owed, unserved>>

(* engine() reads the preferences twice: for the agent, then for its knobs.*)
EngineAgent(t) ==
  /\ pc[t] = "agent"
  /\ built' = [built EXCEPT ![t].agent = agent]
  /\ Goto(t, "knobs")
  /\ UNCHANGED <<prefVars, downloadVars, wired, lock, optionVars, preparing,
                 tasks, commands, owed, unserved>>

EngineKnobs(t) ==
  /\ pc[t] = "knobs"
  /\ built' = [built EXCEPT ![t].model = model]
  /\ Goto(t, "store")
  /\ UNCHANGED <<prefVars, downloadVars, wired, lock, optionVars, preparing,
                 tasks, commands, owed, unserved>>

EngineFails(t) ==
  /\ pc[t] = "agent"
  /\ lock' = -1 /\ unserved' = TRUE
  /\ Goto(t, "idle")
  /\ UNCHANGED <<prefVars, downloadVars, wired, built, optionVars, preparing,
                 tasks, commands, owed>>

WireStore(t) ==
  /\ pc[t] = "store"
  /\ wired' = built[t]
  /\ built' = [built EXCEPT ![t] = NotWired]
  /\ lock' = -1
  /\ Goto(t, "idle")
  /\ UNCHANGED <<prefVars, downloadVars, optionVars, preparing, tasks, commands,
                 owed, unserved>>

(***************************************************************************)
(* Downloading the speech model                                            *)
(***************************************************************************)
(* start_model_download: `active` admits one download, then the flags are  *)
(* reset and the task spawned.                                             *)
DownloadAlready(t) ==
  /\ pc[t] = "start" /\ downloading
  /\ Goto(t, "idle")
  /\ UNCHANGED <<prefVars, downloadVars, stackVars, optionVars, preparing,
                 tasks, commands, owed, unserved>>

StartDownload(t) ==
  /\ pc[t] = "start" /\ ~downloading /\ tasks < MaxTasks
  /\ downloading' = TRUE
  /\ Goto(t, "reset")
  /\ UNCHANGED <<prefVars, assistModelFile, cancel, stackVars, optionVars, preparing,
                 tasks, commands, owed, unserved>>

SpawnDownload(t) ==
  /\ pc[t] = "reset" /\ tasks < MaxTasks
  /\ cancel' = FALSE
  /\ tasks' = tasks + 1
  /\ pc' = [pc EXCEPT ![t] = "idle", ![tasks + 1] = "streaming"]
  /\ UNCHANGED <<prefVars, assistModelFile, downloading, stackVars, optionVars, preparing,
                 commands, owed, unserved>>

(* model::download ends: completed (renamed into place), cancelled between *)
(* two chunks, or failed.                                                  *)
Stream(t) ==
  /\ pc[t] = "streaming"
  /\ \/ assistModelFile' = TRUE /\ Goto(t, "completed")
     \/ cancel /\ Goto(t, "cancelled") /\ UNCHANGED assistModelFile
     \/ Goto(t, "failed") /\ UNCHANGED assistModelFile
  /\ UNCHANGED <<prefVars, downloading, cancel, stackVars, optionVars, preparing,
                 tasks, commands, owed, unserved>>

(* `active` is cleared before the outcome is looked at ...                 *)
DownloadEnds(t) ==
  /\ pc[t] \in {"completed", "cancelled", "failed"}
  /\ downloading' = FALSE
  /\ Goto(t, CASE pc[t] = "completed" -> "landed"
               [] pc[t] = "cancelled" -> "stopped"
               [] OTHER -> "told")
  /\ UNCHANGED <<prefVars, assistModelFile, cancel, stackVars, optionVars, preparing,
                 tasks, commands, owed, unserved>>

(* Mutant: a cancelled download is over, whatever the switch says by then. *)
AfterDownloadOver(t) ==
  /\ \/ pc[t] = "landed" /\ owed' = FALSE
        /\ Goto(t, IF switch THEN "wire" ELSE "idle")
     \/ pc[t] = "stopped" /\ UNCHANGED owed /\ Goto(t, "idle")
     \/ pc[t] = "told" /\ owed' = FALSE /\ Goto(t, "idle")
  /\ UNCHANGED <<prefVars, downloadVars, stackVars, optionVars, preparing,
                 tasks, commands, unserved>>

(* ... and the switch after that: a completed download wires the stack, a  *)
(* cancelled one starts over if the user wants the feature again.          *)
AfterDownload(t) ==
  /\ \/ pc[t] = "landed" /\ owed' = FALSE
        /\ Goto(t, IF switch THEN "wire" ELSE "idle")
     \/ pc[t] = "stopped" /\ UNCHANGED owed
        /\ Goto(t, IF switch /\ ~assistModelFile THEN "start" ELSE "idle")
     \/ pc[t] = "told" /\ owed' = FALSE /\ Goto(t, "idle")
  /\ UNCHANGED <<prefVars, downloadVars, stackVars, optionVars, preparing,
                 tasks, commands, unserved>>

AssistShellThread(t) ==
  \/ Prepare(t) \/ Installed(t) \/ PrepareFails(t)
  \/ Teardown(t) \/ Refresh(t)
  \/ WireNothing(t) \/ WireStart(t)
  \/ EngineAgent(t) \/ EngineKnobs(t) \/ EngineFails(t) \/ WireStore(t)
  \/ DownloadAlready(t) \/ StartDownload(t) \/ SpawnDownload(t)
  \/ Stream(t) \/ DownloadEnds(t) \/ AfterDownload(t)

AssistShellNext ==
  \/ SwitchOn \/ OnGate \/ SwitchOff
  \/ ChooseAgent \/ ClearKnobs \/ SetSessionOption
  \/ ProbeOptions \/ CacheOptions
  \/ \E t \in Threads : AssistShellThread(t)

AssistShellSpec == AssistShellInit /\ [][AssistShellNext]_assistShellVars

-----------------------------------------------------------------------------
(* The types of the variables.                                             *)
AssistShellTypeOK ==
  /\ switch \in BOOLEAN /\ assistModelFile \in BOOLEAN
  /\ agent \in Agents \cup {NoAgent} /\ model \in Models
  /\ wired \in Stacks /\ lock \in Threads \cup {-1}
  /\ preparing \in BOOLEAN /\ downloading \in BOOLEAN /\ cancel \in BOOLEAN
  /\ cachedOptions \in Agents \cup {NoAgent} /\ probe \in Agents \cup {NoAgent}
  /\ built \in [Threads -> Stacks]
  /\ tasks \in Threads /\ commands \in 0 .. MaxCommands
  /\ owed \in BOOLEAN /\ unserved \in BOOLEAN

(* Once everyone has returned, the running stack is the one the saved      *)
(* preferences name: whatever the interleaving of a download's wire(), an  *)
(* install's seed and rewire and the user's own changes, none of them left *)
(* a stack behind that was built from what the preferences used to say     *)
(* (rewire: "the change lands on the next session").                       *)
StackIsTheChosenOne ==
  Settled /\ ~preparing /\ ~unserved /\ wired # NotWired
    => wired = [agent |-> agent, model |-> model]

(* With the switch on, an agent chosen and the model on disk, the feature  *)
(* runs: no interleaving of the switch with the end of a download or with  *)
(* an install leaves everybody believing somebody else wired it - except   *)
(* the one `unserved` records, a refresh() whose look at the switch is     *)
(* older than its teardown.                                                *)
WantedIsRunning ==
  Settled /\ ~preparing /\ ~unserved /\ ~downloading /\ switch /\ Available /\ assistModelFile
    => wired # NotWired

(* A user who turned the switch on without a model is not forgotten: a     *)
(* download runs until it lands or fails in their face (download.rs: "the  *)
(* end state is wanted=true, no model, and nothing left that would ever    *)
(* fetch it").                                                             *)
WantedIsFetched ==
  Settled /\ owed => \E t \in Threads : pc[t] = "streaming"

ShellServesTheSwitch == StackIsTheChosenOne /\ WantedIsRunning /\ WantedIsFetched
=============================================================================
