--------------------------------- MODULE Analyzer ---------------------------------
(***************************************************************************)
(* The analysis daemon (gilb-analyzer run) and the task of the app that    *)
(* supervises it: spawned when capture goes on, respawned when it dies,    *)
(* told to stop (SIGTERM, then SIGKILL) when capture goes off.  One tick   *)
(* of the daemon fetches its configuration, runs claude over the recorded  *)
(* activity, pushes what it found and posts a record of the run.           *)
(***************************************************************************)
EXTENDS Integers, Sequences, FiniteSets

CONSTANTS
    MaxFindings,        \* bound: findings of one run
    MaxSpan             \* bound: seconds of recorded history to backfill

ASSUME AnalyzerAssumption == MaxFindings \in Nat \ {0} /\ MaxSpan \in Nat

VARIABLES
    desiredActive,  \* desired_active: the value in the watch channel
    unseen,         \*   it was sent since the monitor last looked
    tier2,          \* there are credentials
    monitor,        \* where the monitor task is
    daemon,         \* where the daemon is, "none" when there is no process
    catching,       \* its signal handlers are installed
    configCached,   \* it holds a configuration in memory
    claudeRuns,     \* its claude subprocess
    guard,          \* parent-death guard: its one SIGTERM is yet to be raised
    termLost,       \* history: a SIGTERM of this daemon found nobody listening
    toPush,         \* findings of this tick still to push
    tally,          \* created, deduped, failed
    found,          \* history: how many findings the run emitted
    accepted,       \* history: how many of them the server has taken as new
    errored,        \* the run's record will carry an error
    cutShort        \* a 429 ended the pushing

supervisorVars == <<desiredActive, unseen, tier2, monitor>>
processVars    == <<daemon, catching, configCached, claudeRuns, guard, termLost>>
runVars        == <<toPush, tally, found, accepted, errored, cutShort>>
analyzerVars   == <<supervisorVars, processVars, runVars>>

NoTally == [created |-> 0, deduped |-> 0, failed |-> 0]

AnalyzerTypeOK ==
    /\ {desiredActive, unseen, tier2, catching, configCached, claudeRuns, guard, termLost, errored, cutShort}
          \subseteq BOOLEAN
    /\ monitor \in {"top", "idle", "backoff", "supervising", "terminating", "killing", "gone"}
    /\ daemon \in {"none", "starting", "fetching", "reading", "asking", "pushing", "recording",
                   "sleeping", "skipping"}
    /\ {toPush, found, accepted} \subseteq 0..MaxFindings
    /\ tally \in [created : 0..MaxFindings, deduped : 0..MaxFindings, failed : 0..MaxFindings]

AnalyzerInit ==
    /\ desiredActive = FALSE /\ unseen = FALSE /\ tier2 \in BOOLEAN /\ monitor = "top"
    /\ daemon = "none" /\ catching = FALSE /\ configCached = FALSE /\ claudeRuns = FALSE
    /\ guard = FALSE /\ termLost = FALSE
    /\ toPush = 0 /\ tally = NoTally /\ found = 0 /\ accepted = 0 /\ errored = FALSE
    /\ cutShort = FALSE

-----------------------------------------------------------------------------
(* The app.                                                                *)

SetActive(on) ==
    /\ monitor # "gone"
    /\ desiredActive' = on /\ unseen' = TRUE
    /\ UNCHANGED <<tier2, monitor, processVars, runVars>>

SignInOrOut ==
    /\ tier2' = ~tier2
    /\ UNCHANGED <<desiredActive, unseen, monitor, processVars, runVars>>

\* Force-killed: the daemon is reparented, and nobody signals it.
AppDies ==
    /\ monitor' = "gone"
    /\ UNCHANGED <<desiredActive, unseen, tier2, processVars, runVars>>

-----------------------------------------------------------------------------
(* The monitor task.                                                       *)

\* What an earlier daemon left running is not followed any further.
SpawnDaemon ==
    /\ daemon' = "starting" /\ catching' = FALSE /\ configCached' = FALSE
    /\ guard' = FALSE /\ termLost' = FALSE /\ claudeRuns' = FALSE

MonitorTop ==
    /\ monitor = "top"
    /\ \/ /\ ~(desiredActive /\ tier2)
          /\ monitor' = "idle"
          /\ UNCHANGED processVars
       \/ /\ desiredActive /\ tier2
          /\ monitor' = "backoff"           \* no sidecar, or it cannot be spawned
          /\ UNCHANGED processVars
       \/ /\ desiredActive /\ tier2
          /\ monitor' = "supervising"
          /\ SpawnDaemon
    /\ UNCHANGED <<desiredActive, unseen, tier2, runVars>>

\* A change ends either wait, the timer that of a backoff.
MonitorWakes ==
    /\ \/ monitor \in {"idle", "backoff"} /\ unseen /\ unseen' = FALSE
       \/ monitor = "backoff" /\ UNCHANGED unseen
    /\ monitor' = "top"
    /\ UNCHANGED <<desiredActive, tier2, processVars, runVars>>

DaemonReaped ==
    /\ monitor = "supervising" /\ daemon = "none"
    /\ monitor' = "backoff"
    /\ UNCHANGED <<desiredActive, unseen, tier2, processVars, runVars>>

\* Bug: the tick goes on without kill_on_drop.
SigtermUndropped ==
    IF daemon \in {"fetching", "skipping"} /\ catching
    THEN termLost' = TRUE /\ UNCHANGED <<daemon, claudeRuns>>
    ELSE daemon' = "none" /\ UNCHANGED <<termLost, claudeRuns>>

\* A process without handlers dies of SIGTERM.  With them, it is heard where the loop
\* races it against the tick or the sleep, dropping claude with the tick; a signal
\* stream opened later does not report it.
Sigterm ==
    IF daemon \in {"fetching", "skipping"} /\ catching
    THEN termLost' = TRUE /\ UNCHANGED <<daemon, claudeRuns>>
    ELSE daemon' = "none" /\ claudeRuns' = FALSE /\ UNCHANGED termLost

\* A change that leaves capture on is a spurious wake.
SuperviseChange ==
    /\ monitor = "supervising" /\ unseen
    /\ unseen' = FALSE
    /\ IF desiredActive \/ daemon = "none"
       THEN /\ monitor' = IF desiredActive THEN "supervising" ELSE "top"
            /\ UNCHANGED processVars
       ELSE /\ monitor' = "terminating"
            /\ Sigterm
            /\ UNCHANGED <<catching, configCached, guard>>
    /\ UNCHANGED <<desiredActive, tier2, runVars>>

Terminated ==
    /\ monitor \in {"terminating", "killing"} /\ daemon = "none"
    /\ monitor' = "top"
    /\ UNCHANGED <<desiredActive, unseen, tier2, processVars, runVars>>

\* Bug: the grace period ends in giving up.
OverstaysGraceUnkilled ==
    /\ monitor = "terminating" /\ daemon # "none"
    /\ monitor' = "top"
    /\ UNCHANGED <<desiredActive, unseen, tier2, processVars, runVars>>

\* TERM_GRACE: SIGKILL runs no destructor, so claude is not dropped.
OverstaysGrace ==
    /\ monitor = "terminating" /\ daemon # "none"
    /\ monitor' = "killing"
    /\ daemon' = "none"
    /\ UNCHANGED <<desiredActive, unseen, tier2, catching, configCached, claudeRuns, guard, termLost, runVars>>

-----------------------------------------------------------------------------
(* The daemon.                                                             *)

Daemon(from, to) == daemon = from /\ daemon' = to

\* Signed out meanwhile, or no database: it exits at once.  The guard compares with the
\* parent it finds here, which may not be the app any more.
DaemonStarts ==
    /\ \/ Daemon("starting", "fetching") /\ guard' = (monitor # "gone")
       \/ Daemon("starting", "none") /\ UNCHANGED guard
    /\ UNCHANGED <<supervisorVars, catching, configCached, claudeRuns, termLost, runVars>>

\* ensure_config: a rejected token ends the daemon, and so does an unreachable server
\* when there is no copy to go on with.  A tick without a job sleeps it out.
EnsureConfig ==
    /\ \/ /\ Daemon("fetching", "reading")
          /\ configCached' = TRUE /\ catching' = TRUE
       \/ /\ Daemon("fetching", "skipping")
          /\ configCached' = TRUE /\ UNCHANGED catching
       \/ /\ Daemon("fetching", "none")
          /\ UNCHANGED <<configCached, catching>>
       \/ /\ configCached /\ Daemon("fetching", "reading")
          /\ catching' = TRUE /\ UNCHANGED configCached
    /\ toPush' = 0 /\ tally' = NoTally /\ found' = 0 /\ accepted' = 0
    /\ errored' = FALSE /\ cutShort' = FALSE
    /\ UNCHANGED <<supervisorVars, claudeRuns, guard, termLost>>

\* Reading the window costs nothing when nothing was recorded in it.
ReadOutcomes == {"error", "empty", "activity"}

ReadWindow ==
    /\ \E outcome \in ReadOutcomes :
          \/ outcome = "error" /\ Daemon("reading", "sleeping") /\ UNCHANGED claudeRuns
          \/ outcome = "empty" /\ Daemon("reading", "recording") /\ UNCHANGED claudeRuns
          \/ outcome = "activity" /\ Daemon("reading", "asking") /\ claudeRuns' = TRUE
    /\ UNCHANGED <<supervisorVars, catching, configCached, guard, termLost, runVars>>

\* How many findings parse_findings may make of an answer.
Findings == 0..MaxFindings

\* The answer (claude may have called it an error itself), a failure, or the timeout,
\* which kills claude.
ClaudeAnswers ==
    /\ claudeRuns' = FALSE
    /\ \/ /\ Daemon("asking", "pushing")
          /\ found' \in Findings /\ toPush' = found'
          /\ errored' \in BOOLEAN
       \/ /\ Daemon("asking", "recording")
          /\ errored' = TRUE
          /\ UNCHANGED <<found, toPush>>
    /\ UNCHANGED <<supervisorVars, catching, configCached, guard, termLost, tally, accepted, cutShort>>

\* Bug: a finding whose POST failed is not counted.
PushFindingUncounted ==
    /\ daemon = "pushing" /\ toPush > 0
    /\ toPush' = toPush - 1
    /\ \/ tally' = [tally EXCEPT !.created = @ + 1] /\ accepted' = accepted + 1
       \/ tally' = [tally EXCEPT !.deduped = @ + 1] /\ UNCHANGED accepted
       \/ UNCHANGED tally /\ accepted' \in {accepted, accepted + 1}
    /\ UNCHANGED <<supervisorVars, processVars, found, errored, cutShort>>

\* 201, 409, another status or no answer at all (the server may have taken it).
PushFinding ==
    /\ daemon = "pushing" /\ toPush > 0
    /\ toPush' = toPush - 1
    /\ \/ tally' = [tally EXCEPT !.created = @ + 1] /\ accepted' = accepted + 1
       \/ tally' = [tally EXCEPT !.deduped = @ + 1] /\ UNCHANGED accepted
       \/ tally' = [tally EXCEPT !.failed = @ + 1] /\ accepted' \in {accepted, accepted + 1}
    /\ UNCHANGED <<supervisorVars, processVars, found, errored, cutShort>>

RateLimited ==
    /\ toPush > 0 /\ Daemon("pushing", "recording")
    /\ cutShort' = TRUE /\ errored' = TRUE
    /\ UNCHANGED <<supervisorVars, catching, configCached, claudeRuns, guard, termLost,
                   toPush, tally, found, accepted>>

\* classify_outcome: an error wins.
RunOutcome ==
    IF errored THEN "error" ELSE IF tally.created > 0 THEN "produced" ELSE "empty"

AllPushed ==
    /\ toPush = 0 /\ Daemon("pushing", "recording")
    /\ UNCHANGED <<supervisorVars, catching, configCached, claudeRuns, guard, termLost, runVars>>

PostRun ==
    /\ Daemon("recording", "sleeping")
    /\ UNCHANGED <<supervisorVars, catching, configCached, claudeRuns, guard, termLost, runVars>>

DaemonWakes ==
    /\ \/ Daemon("sleeping", "fetching")
       \/ Daemon("skipping", "fetching")
    /\ UNCHANGED <<supervisorVars, catching, configCached, claudeRuns, guard, termLost, runVars>>

\* Every 5 s; it raises SIGTERM once and returns.
ParentGone ==
    /\ guard /\ monitor = "gone" /\ daemon # "none"
    /\ guard' = FALSE
    /\ Sigterm
    /\ UNCHANGED <<supervisorVars, catching, configCached, runVars>>

-----------------------------------------------------------------------------
(* The backfill command walks [from0, until) in chunks of step seconds.     *)

BackfillChunks(from0, until, step) ==
    LET walk[from \in from0..until] ==
          IF from < until
          THEN LET to == IF from + step < until THEN from + step ELSE until
               IN <<[from |-> from, to |-> to]>> \o walk[to]
          ELSE <<>>
    IN walk[from0]

\* The number of chunks it announces.
BackfillTotal(from0, until, step) == (until - from0 + step - 1) \div step

-----------------------------------------------------------------------------

MonitorStep ==
    \/ MonitorTop \/ MonitorWakes \/ DaemonReaped \/ SuperviseChange \/ Terminated \/ OverstaysGrace

DaemonStep ==
    \/ DaemonStarts \/ EnsureConfig \/ ReadWindow \/ ClaudeAnswers
    \/ PushFinding \/ RateLimited \/ AllPushed \/ PostRun \/ DaemonWakes

AnalyzerNext ==
    \/ \E on \in BOOLEAN : SetActive(on)
    \/ SignInOrOut \/ AppDies
    \/ monitor # "gone" /\ MonitorStep
    \/ DaemonStep \/ ParentGone

\* The monitor task is polled and its timers fire; so is the guard's.  The daemon's
\* steps may each take as long as the network, or claude, does.
AnalyzerFairness ==
    /\ WF_analyzerVars(monitor # "gone" /\ MonitorStep)
    /\ WF_analyzerVars(ParentGone)
    /\ WF_analyzerVars(DaemonStarts)

AnalyzerSpec == AnalyzerInit /\ [][AnalyzerNext]_analyzerVars /\ AnalyzerFairness
-----------------------------------------------------------------------------
\* The record of a run accounts for every finding of it, unless a 429 cut it short, and
\* what the server took lies between what was counted as created and that plus failed.
TallyIsTrue ==
    /\ daemon \in {"pushing", "recording"} =>
          tally.created + tally.deduped + tally.failed + toPush = found
    /\ daemon = "recording" /\ ~cutShort => toPush = 0
    /\ daemon \in {"pushing", "recording"} =>
          accepted \in tally.created .. tally.created + tally.failed
    /\ daemon = "recording" /\ RunOutcome = "empty" => accepted <= tally.failed

\* Every second of the history is in exactly one chunk, and as many are run as announced.
BackfillPartitions ==
    \A until \in 1..MaxSpan, step \in 1..MaxSpan + 1 :
       LET chunks == BackfillChunks(0, until, step) IN
       /\ Len(chunks) = BackfillTotal(0, until, step)
       /\ \A t \in 0..until - 1 :
             Cardinality({i \in DOMAIN chunks : chunks[i].from <= t /\ t < chunks[i].to}) = 1

\* claude does not go on without the daemon that reads its answer, unless the daemon
\* had to be killed because a SIGTERM of the loop's own making was lost.
ClaudeDiesWithDaemon == claudeRuns /\ daemon = "none" => termLost

\* Liveness: when capture goes off, or the app dies under a daemon whose guard is up,
\* the daemon ends; only the guard's single SIGTERM can be lost for good.
OwesATerm ==
    /\ daemon # "none"
    /\ \/ monitor # "gone" /\ ~desiredActive
       \/ monitor = "gone" /\ guard /\ ~termLost

DaemonEnds == []<>~OwesATerm

\* What the two promise: a true account of every run, a history walked without gap or
\* overlap, and no claude that outlives the daemon it was started for.
DaemonIsGoverned == TallyIsTrue /\ BackfillPartitions /\ ClaudeDiesWithDaemon
=============================================================================
