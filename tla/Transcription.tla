----------------------------- MODULE Transcription -----------------------------
(***************************************************************************)
(* Post-meeting transcription: the job queue and its single worker, the    *)
(* rows it reads and writes, and the speech model it shares with the       *)
(* realtime suggestions (SharedModel: one cached instance, a lock that     *)
(* serializes cold loads, an idle timer).                                  *)
(*                                                                         *)
(* An instance of the model is named by the language it was loaded with,   *)
(* which is the key of the cache.                                          *)
(***************************************************************************)
EXTENDS Integers, Sequences, FiniteSets, SequencesExt

CONSTANTS
    Recordings,         \* meeting ids, in the order the meetings started
    Languages,          \* "auto", "ru", "en"
    RealtimeLanguage,   \* AssistHost::language, fixed by the product
    NoModel,            \* Option::None
    MaxEvents           \* bound: language changes, downloads and deletions of the
                        \*   model, failures and process deaths, together

ASSUME TranscriptionAssumption ==
    /\ Recordings \subseteq Nat \ {0} /\ IsFiniteSet(Recordings)
    /\ RealtimeLanguage \in Languages
    /\ NoModel \notin Languages
    /\ MaxEvents \in Nat

VARIABLES
    language,   \* preferences.transcription_language
    modelFile,  \* the model is on disk
    cached,     \* SharedModel.state.model, its key
    idleLong,   \* idle_unload has passed since last_used
    loadLock,   \* holder of load_lock, or "none"
    user,       \* what each of the two users is doing with the model
    asked,      \* the key of the worker's last get
    held,       \* the Arc each of them holds
    jobs,       \* the worker's queue: a meeting id, SweepJob or ReloadJob
    job,        \* the meeting being worked on, 0 for none
    meeting,    \* meetings row: "recording", "completed" or "over"
    transcript, \* meeting_transcripts row: "none", "text" or "error"
    due,        \* recordings ended, recording_stopped not yet called
    passed,     \* history: dropped by the worker, left for a later sweep
    events      \* how many of those there have been

modelVars == <<cached, idleLong, loadLock, user, asked, held>>
rowVars   == <<meeting, transcript, due>>
transcriptionVars == <<language, modelFile, modelVars, jobs, job, rowVars, passed, events>>

Users == {"worker", "realtime"}

SweepJob  == -1
ReloadJob == -2

Jobs == Recordings \cup {SweepJob, ReloadJob}

TranscriptionTypeOK ==
    /\ language \in Languages
    /\ modelFile \in BOOLEAN
    /\ cached \in Languages \cup {NoModel}
    /\ idleLong \in BOOLEAN
    /\ loadLock \in Users \cup {"none"}
    /\ user \in [Users -> {"idle", "waiting", "loading", "using"}]
    /\ asked \in Languages
    /\ held \in [Users -> Languages \cup {NoModel}]
    /\ jobs \in Seq(Jobs)
    /\ job \in Recordings \cup {0}
    /\ meeting \in [Recordings -> {"recording", "completed", "over"}]
    /\ transcript \in [Recordings -> {"none", "text", "error"}]
    /\ due \subseteq Recordings
    /\ passed \subseteq Recordings
    /\ events \in 0..MaxEvents

TranscriptionInit ==
    /\ language \in Languages
    /\ modelFile \in BOOLEAN
    /\ cached = NoModel /\ idleLong = FALSE /\ loadLock = "none"
    /\ user = [u \in Users |-> "idle"]
    /\ asked = RealtimeLanguage
    /\ held = [u \in Users |-> NoModel]
    /\ jobs = <<SweepJob>> /\ job = 0
    /\ meeting = [m \in Recordings |-> "recording"]
    /\ transcript = [m \in Recordings |-> "none"]
    /\ due = {} /\ passed = {}
    /\ events = 0

Happens == events < MaxEvents /\ events' = events + 1

-----------------------------------------------------------------------------
(* SharedModel.                                                            *)

KeyOf(u) == IF u = "realtime" THEN RealtimeLanguage ELSE asked

\* The first look at the cache: a hit refreshes last_used, a miss queues for
\* the load lock.
Get(u, key) ==
    \/ /\ cached = key
       /\ held' = [held EXCEPT ![u] = cached]
       /\ user' = [user EXCEPT ![u] = "using"]
       /\ idleLong' = FALSE
       /\ UNCHANGED <<cached, loadLock, asked>>
    \/ /\ cached # key
       /\ user' = [user EXCEPT ![u] = "waiting"]
       /\ asked' = IF u = "worker" THEN key ELSE asked
       /\ UNCHANGED <<cached, idleLong, loadLock, held>>

\* Bug: the cache is not looked at again under the lock.
AcquireBlindly(u) ==
    /\ user[u] = "waiting"
    /\ loadLock = "none"
    /\ loadLock' = u
    /\ user' = [user EXCEPT ![u] = "loading"]
    /\ UNCHANGED <<cached, idleLong, asked, held>>
    /\ UNCHANGED <<language, modelFile, jobs, job, rowVars, passed, events>>

\* Under the lock: a racing caller may have loaded this very key.
Acquire(u) ==
    /\ user[u] = "waiting"
    /\ loadLock = "none"
    /\ \/ /\ cached = KeyOf(u)
          /\ held' = [held EXCEPT ![u] = cached]
          /\ user' = [user EXCEPT ![u] = "using"]
          /\ idleLong' = FALSE
          /\ UNCHANGED loadLock
       \/ /\ cached # KeyOf(u)
          /\ loadLock' = u
          /\ user' = [user EXCEPT ![u] = "loading"]
          /\ UNCHANGED <<held, idleLong>>
    /\ UNCHANGED <<cached, asked>>
    /\ UNCHANGED <<language, modelFile, jobs, job, rowVars, passed, events>>

Loaded(u) ==
    /\ user[u] = "loading"
    /\ modelFile
    /\ cached' = KeyOf(u)
    /\ held' = [held EXCEPT ![u] = cached']
    /\ user' = [user EXCEPT ![u] = "using"]
    /\ idleLong' = FALSE
    /\ loadLock' = "none"
    /\ UNCHANGED <<asked, language, modelFile, jobs, job, rowVars, passed, events>>

\* The worker leaves the meeting pending; the realtime side skips the segment.
LoadFails(u) ==
    /\ user[u] = "loading"
    /\ IF modelFile THEN Happens ELSE UNCHANGED events
    /\ loadLock' = "none"
    /\ user' = [user EXCEPT ![u] = "idle"]
    /\ job' = IF u = "worker" THEN 0 ELSE job
    /\ passed' = IF u = "worker" THEN passed \cup {job} ELSE passed
    /\ UNCHANGED <<cached, idleLong, asked, held, language, modelFile, jobs, rowVars>>

IdleTimePasses ==
    /\ cached # NoModel
    /\ idleLong' = TRUE
    /\ UNCHANGED <<cached, loadLock, user, asked, held>>
    /\ UNCHANGED <<language, modelFile, jobs, job, rowVars, passed, events>>

UnloadIfIdle == cached' = IF idleLong THEN NoModel ELSE cached

-----------------------------------------------------------------------------
(* The realtime side: one segment at a time, the Arc dropped after each.    *)

RealtimeSegment ==
    /\ user["realtime"] = "idle"
    /\ Get("realtime", RealtimeLanguage)
    /\ UNCHANGED <<language, modelFile, jobs, job, rowVars, passed, events>>

RealtimeDone ==
    /\ user["realtime"] = "using"
    /\ user' = [user EXCEPT !["realtime"] = "idle"]
    /\ held' = [held EXCEPT !["realtime"] = NoModel]
    /\ UNCHANGED <<cached, idleLong, loadLock, asked>>
    /\ UNCHANGED <<language, modelFile, jobs, job, rowVars, passed, events>>

RealtimeIdle ==
    /\ user["realtime"] = "idle"
    /\ UnloadIfIdle
    /\ UNCHANGED <<idleLong, loadLock, user, asked, held>>
    /\ UNCHANGED <<language, modelFile, jobs, job, rowVars, passed, events>>

-----------------------------------------------------------------------------
(* The worker.                                                             *)

WorkerFree == user["worker"] = "idle" /\ job = 0

NextJob(j) == WorkerFree /\ jobs # <<>> /\ Head(jobs) = j /\ jobs' = Tail(jobs)

\* Bug: the worker keeps the instance it has warm.
ReloadModelCacheOnly ==
    /\ NextJob(ReloadJob)
    /\ cached' = NoModel
    /\ UNCHANGED <<idleLong, loadLock, user, asked, held>>
    /\ UNCHANGED <<language, modelFile, job, rowVars, passed, events>>

ReloadModel ==
    /\ NextJob(ReloadJob)
    /\ held' = [held EXCEPT !["worker"] = NoModel]
    /\ cached' = NoModel
    /\ UNCHANGED <<idleLong, loadLock, user, asked>>
    /\ UNCHANGED <<language, modelFile, job, rowVars, passed, events>>

\* pending_transcriptions, oldest first.
Pending(m) == meeting[m] = "completed" /\ transcript[m] # "text"

\* Ids are handed out in the order of started_at.
OldestFirst(ids) ==
    CHOOSE q \in [1..Cardinality(ids) -> ids] :
        ToSet(q) = ids /\ \A i, j \in 1..Cardinality(ids) : i < j => q[i] < q[j]

\* Enqueue what is pending, or log that the query failed.
Sweep ==
    /\ WorkerFree /\ jobs # <<>> /\ Head(jobs) = SweepJob
    /\ LET ids == {m \in Recordings : Pending(m)}
       IN \/ /\ jobs' = Tail(jobs) \o OldestFirst(ids)
             /\ UNCHANGED <<passed, events>>
          \/ /\ jobs' = Tail(jobs)
             /\ passed' = passed \cup ids
             /\ Happens
    /\ UNCHANGED <<language, modelFile, modelVars, job, rowVars>>

\* A meeting without audio is skipped, as is one whose row cannot be read.
SkipMeeting(m) ==
    /\ NextJob(m)
    /\ \/ meeting[m] = "over" /\ UNCHANGED <<passed, events>>
       \/ Happens /\ passed' = passed \cup {m}
    /\ UNCHANGED <<language, modelFile, modelVars, job, rowVars>>

\* A warm instance is used as it is; without one the model is asked for, if
\* there is a file, in the language of this moment.
StartMeeting(m) ==
    /\ NextJob(m)
    /\ meeting[m] = "completed"
    /\ \/ /\ held["worker"] # NoModel
          /\ user' = [user EXCEPT !["worker"] = "using"]
          /\ job' = m
          /\ UNCHANGED <<cached, idleLong, loadLock, asked, held, passed>>
       \/ /\ held["worker"] = NoModel /\ modelFile
          /\ Get("worker", language)
          /\ job' = m
          /\ UNCHANGED passed
       \/ /\ held["worker"] = NoModel /\ ~modelFile
          /\ passed' = passed \cup {m}
          /\ UNCHANGED <<modelVars, job>>
    /\ UNCHANGED <<language, modelFile, rowVars, events>>

\* transcribe_meeting: the text, a hard failure's error in its place, or
\* neither when the row cannot be written.
FinishMeeting ==
    /\ user["worker"] = "using" /\ job # 0
    /\ \/ transcript' = [transcript EXCEPT ![job] = "text"] /\ UNCHANGED <<passed, events>>
       \/ /\ Happens
          /\ \/ transcript' = [transcript EXCEPT ![job] = "error"] /\ UNCHANGED passed
             \/ passed' = passed \cup {job} /\ UNCHANGED transcript
    /\ user' = [user EXCEPT !["worker"] = "idle"]
    /\ job' = 0
    /\ UNCHANGED <<cached, idleLong, loadLock, asked, held>>
    /\ UNCHANGED <<language, modelFile, jobs, meeting, due>>

\* IDLE_UNLOAD without a job.
WorkerIdle ==
    /\ WorkerFree /\ jobs = <<>> /\ held["worker"] # NoModel
    /\ held' = [held EXCEPT !["worker"] = NoModel]
    /\ UnloadIfIdle
    /\ UNCHANGED <<idleLong, loadLock, user, asked>>
    /\ UNCHANGED <<language, modelFile, jobs, job, rowVars, passed, events>>

-----------------------------------------------------------------------------
(* Recordings end, settings change, the process dies.                      *)

RecordingEnds(m) ==
    /\ meeting[m] = "recording"
    /\ meeting' = [meeting EXCEPT ![m] = "completed"]
    /\ due' = due \cup {m}
    /\ UNCHANGED <<language, modelFile, modelVars, jobs, job, transcript, passed, events>>

OnRecordingStopped(m) ==
    /\ m \in due
    /\ due' = due \ {m}
    /\ jobs' = Append(jobs, m)
    /\ UNCHANGED <<language, modelFile, modelVars, job, meeting, transcript, passed, events>>

SetTranscriptionLanguage ==
    /\ Happens
    /\ \E l \in Languages : language' = l
    /\ jobs' = Append(jobs, ReloadJob)
    /\ UNCHANGED <<modelFile, modelVars, job, rowVars, passed>>

DeleteModel ==
    /\ modelFile
    /\ Happens
    /\ modelFile' = FALSE
    /\ UNCHANGED <<language, modelVars, jobs, job, rowVars, passed>>

\* Bug: the worker is not told.
DownloadModelUnswept ==
    /\ ~modelFile
    /\ Happens
    /\ modelFile' = TRUE
    /\ passed' = {}
    /\ UNCHANGED <<language, modelVars, jobs, job, rowVars>>

\* The settings screen's download ends with a sweep.
DownloadModel ==
    /\ ~modelFile
    /\ Happens
    /\ modelFile' = TRUE
    /\ jobs' = Append(jobs, SweepJob)
    /\ passed' = {}
    /\ UNCHANGED <<language, modelVars, job, rowVars>>

\* The suggestions' download of the same file does not.
AssistDownloadsModel ==
    /\ ~modelFile
    /\ Happens
    /\ modelFile' = TRUE
    /\ UNCHANGED <<language, modelVars, jobs, job, rowVars, passed>>

\* The process dies and is launched again: the sweep of stale recordings
\* settles open rows, the worker starts with a sweep of its own.
Relaunch ==
    /\ Happens
    /\ cached' = NoModel /\ idleLong' = FALSE /\ loadLock' = "none"
    /\ user' = [u \in Users |-> "idle"]
    /\ held' = [u \in Users |-> NoModel]
    /\ jobs' = <<SweepJob>> /\ job' = 0
    /\ meeting' = [m \in Recordings |-> IF meeting[m] = "recording" THEN "over" ELSE meeting[m]]
    /\ due' = {} /\ passed' = {}
    /\ UNCHANGED <<language, modelFile, asked, transcript>>

-----------------------------------------------------------------------------

ModelStep(u) == Acquire(u) \/ Loaded(u) \/ LoadFails(u)

WorkerStep ==
    \/ ModelStep("worker") \/ ReloadModel \/ Sweep \/ FinishMeeting
    \/ \E m \in Recordings : SkipMeeting(m) \/ StartMeeting(m)

RealtimeStep == ModelStep("realtime") \/ RealtimeDone

TranscriptionNext ==
    \/ WorkerStep \/ WorkerIdle
    \/ RealtimeStep \/ RealtimeSegment \/ RealtimeIdle \/ IdleTimePasses
    \/ \E m \in Recordings : RecordingEnds(m) \/ OnRecordingStopped(m)
    \/ SetTranscriptionLanguage \/ DeleteModel \/ DownloadModel \/ AssistDownloadsModel
    \/ Relaunch

\* The two tasks are polled, loads and inferences end.  The bridge calls
\* recording_stopped on its way out of stop_recording.  The load lock is a fair
\* (FIFO) mutex, hence SF for the task that waits for it.
TranscriptionFairness ==
    /\ WF_transcriptionVars(WorkerStep)
    /\ WF_transcriptionVars(RealtimeStep)
    /\ SF_transcriptionVars(Acquire("worker"))
    /\ \A m \in Recordings : WF_transcriptionVars(OnRecordingStopped(m))

TranscriptionSpec ==
    TranscriptionInit /\ [][TranscriptionNext]_transcriptionVars /\ TranscriptionFairness
-----------------------------------------------------------------------------
\* Two users that race a miss never each read the model from disk: a load that
\* completes finds no instance of its configuration in the cache, whatever was
\* cached, invalidated or unloaded while it waited for the lock and while it ran.
LoadedOnce ==
    [][\A u \in Users :
          user[u] = "loading" /\ user'[u] = "using" => cached # KeyOf(u)]_transcriptionVars

\* The worker never stays warm in a language the user has changed, be the change
\* in the middle of a load: if its instance is of the old one, the job that makes
\* it let go is in the queue.
WarmModelFollowsLanguage ==
    held["worker"] \notin {language, NoModel} => ReloadJob \in ToSet(jobs)

\* A warm model is the one of the settings, and there is one of it.
ModelsFollowSettings == []WarmModelFollowsLanguage /\ LoadedOnce

\* Liveness: a completed meeting is attempted (text or error), or is among those
\* the worker passed over for want of a model or because of a failure, which the
\* next sweep takes up.
OwesTranscript ==
    \E m \in Recordings :
       meeting[m] = "completed" /\ transcript[m] = "none" /\ m \notin passed

CompletedIsTranscribed == []<>~OwesTranscript
=============================================================================
