----------------------------- MODULE MCServices -----------------------------
(***************************************************************************)
(* Small instances of the components that have no run of their own.  They  *)
(* share no state, so one run explores them side by side: each behaviour   *)
(* is a behaviour of one of them, chosen at the start, with the others     *)
(* left at rest, and the reachable states are the sum, not the product, of *)
(* theirs.  Fairness is asked of the component that runs.                  *)
(***************************************************************************)
EXTENDS Transcription, CaptureSession, WindowsCapture, SpeechSegmenter,
        AssistAudio, AssistEngine, AgentSession, Analyzer, AssistShell,
        AssistPanel, InputNormalizer, ScreenSnapshots, WasapiSessions,
        SettingsFiles, SystemTap, DatabaseRescue

VARIABLE service  \* the component that runs

allVars == <<service, transcriptionVars, captureVars, windowsVars,
             segmenterVars, assistAudioVars, assistEngineVars,
             agentVars, analyzerVars, assistShellVars,
             assistPanelVars, normalizerVars, snapshotVars,
             wasapiVars, settingsVars, tapVars,
             rescueVars>>

Services == {"transcription", "capture", "windows", "segmenter", "audio",
             "engine", "agent", "analyzer", "shell", "panel",
             "input", "screens", "wasapi", "settings", "tap",
             "rescue"}

(* A component that is not the one that runs starts from one state only.   *)
Otherwise(name, rest) == service = name \/ rest

ServicesInit ==
  /\ service \in Services
  /\ TranscriptionInit /\ Otherwise("transcription", modelFile /\ language = RealtimeLanguage)
  /\ CaptureInit       /\ Otherwise("capture", windowThere /\ liveTap)
  /\ WindowsInit       /\ Otherwise("windows", window = CHOOSE w \in CaptureTargets : TRUE)
  /\ AnalyzerInit      /\ Otherwise("analyzer", tier2)
  /\ AssistShellInit   /\ Otherwise("shell", ~switch /\ ~assistModelFile /\ agent = NoAgent)
  /\ NormalizerInit    /\ Otherwise("input", front = CHOOSE a \in Apps : TRUE)
  /\ SnapshotInit      /\ Otherwise("screens", inFocus = CHOOSE w \in Windows : TRUE)
  /\ WasapiInit        /\ Otherwise("wasapi", \A s \in CaptureSessions : session[s] = "none")
  /\ SettingsInit      /\ Otherwise("settings", dirs = {})
  /\ RescueInit        /\ Otherwise("rescue", binary = CHOOSE v \in Versions : TRUE)
  /\ SegmenterInit /\ AudioInit /\ AssistInit /\ AgentInit /\ AssistPanelInit /\ TapInit

(* The components other than the one that runs do nothing.                 *)
OthersRest ==
  /\ UNCHANGED service
  /\ IF service = "transcription" THEN TRUE ELSE UNCHANGED transcriptionVars
  /\ IF service = "capture" THEN TRUE ELSE UNCHANGED captureVars
  /\ IF service = "windows" THEN TRUE ELSE UNCHANGED windowsVars
  /\ IF service = "segmenter" THEN TRUE ELSE UNCHANGED segmenterVars
  /\ IF service = "audio" THEN TRUE ELSE UNCHANGED assistAudioVars
  /\ IF service = "engine" THEN TRUE ELSE UNCHANGED assistEngineVars
  /\ IF service = "agent" THEN TRUE ELSE UNCHANGED agentVars
  /\ IF service = "analyzer" THEN TRUE ELSE UNCHANGED analyzerVars
  /\ IF service = "shell" THEN TRUE ELSE UNCHANGED assistShellVars
  /\ IF service = "panel" THEN TRUE ELSE UNCHANGED assistPanelVars
  /\ IF service = "input" THEN TRUE ELSE UNCHANGED normalizerVars
  /\ IF service = "screens" THEN TRUE ELSE UNCHANGED snapshotVars
  /\ IF service = "wasapi" THEN TRUE ELSE UNCHANGED wasapiVars
  /\ IF service = "settings" THEN TRUE ELSE UNCHANGED settingsVars
  /\ IF service = "tap" THEN TRUE ELSE UNCHANGED tapVars
  /\ IF service = "rescue" THEN TRUE ELSE UNCHANGED rescueVars

ServicesNext ==
  \/ service = "transcription" /\ TranscriptionNext /\ OthersRest
  \/ service = "capture" /\ CaptureNext /\ OthersRest
  \/ service = "windows" /\ WindowsNext /\ OthersRest
  \/ service = "segmenter" /\ SegmenterNext /\ OthersRest
  \/ service = "audio" /\ AudioNext /\ OthersRest
  \/ service = "engine" /\ AssistNext /\ OthersRest
  \/ service = "agent" /\ AgentNext /\ OthersRest
  \/ service = "analyzer" /\ AnalyzerNext /\ OthersRest
  \/ service = "shell" /\ AssistShellNext /\ OthersRest
  \/ service = "panel" /\ AssistPanelNext /\ OthersRest
  \/ service = "input" /\ NormalizerNext /\ OthersRest
  \/ service = "screens" /\ SnapshotNext /\ OthersRest
  \/ service = "wasapi" /\ WasapiNext /\ OthersRest
  \/ service = "settings" /\ SettingsNext /\ OthersRest
  \/ service = "tap" /\ TapNext /\ OthersRest
  \/ service = "rescue" /\ RescueNext /\ OthersRest

(* The fairness of each component that states any, while it runs.          *)
ServicesFairness ==
  /\ WF_transcriptionVars(service = "transcription" /\ WorkerStep)
  /\ WF_transcriptionVars(service = "transcription" /\ RealtimeStep)
  /\ SF_transcriptionVars(service = "transcription" /\ Acquire("worker"))
  /\ \A m \in Recordings :
       WF_transcriptionVars(service = "transcription" /\ OnRecordingStopped(m))
  /\ WF_captureVars(service = "capture" /\ WatcherStep)
  /\ WF_captureVars(service = "capture" /\ StopStep)
  /\ WF_captureVars(service = "capture" /\ MicEnds)
  /\ WF_captureVars(service = "capture" /\ ~delivers /\ FrameStallPasses)
  /\ WF_windowsVars(service = "windows" /\ VideoStep)
  /\ WF_windowsVars(service = "windows" /\ StopCall)
  /\ \A s \in Sources : WF_windowsVars(service = "windows" /\ AudioThreadEnds(s))
  /\ WF_analyzerVars(service = "analyzer" /\ monitor # "gone" /\ MonitorStep)
  /\ WF_analyzerVars(service = "analyzer" /\ ParentGone)
  /\ WF_analyzerVars(service = "analyzer" /\ DaemonStarts)

ServicesSpec == ServicesInit /\ [][ServicesNext]_allVars /\ ServicesFairness
-----------------------------------------------------------------------------
(* What is asked of a component while it runs.                             *)
Of(name, property) == service = name => property

(* The types of the variables of the component that runs.                  *)
ServicesTypeOK ==
  /\ Of("transcription", TranscriptionTypeOK)
  /\ Of("capture", CaptureTypeOK)
  /\ Of("windows", WindowsTypeOK)
  /\ Of("segmenter", SegmenterTypeOK)
  /\ Of("audio", AudioTypeOK)
  /\ Of("engine", AssistTypeOK)
  /\ Of("agent", AgentTypeOK)
  /\ Of("analyzer", AnalyzerTypeOK)
  /\ Of("shell", AssistShellTypeOK)
  /\ Of("panel", AssistPanelTypeOK)
  /\ Of("input", NormalizerTypeOK)
  /\ Of("screens", SnapshotTypeOK)
  /\ Of("wasapi", WasapiTypeOK)
  /\ Of("settings", SettingsTypeOK)
  /\ Of("tap", TapTypeOK)
  /\ Of("rescue", RescueTypeOK)

(* Capture sessions of both platforms: nothing outlives them, nothing is   *)
(* out of order in the file and nothing is missing from a stopped one.     *)
SessionsAreSound ==
  /\ []Of("capture", NoSourceOutlivesSession) /\ FramesNeverInterleave
  /\ []Of("windows", StoppedIsWhole)

(* Sound reaches the transcript under its own time: the tap pads its       *)
(* channel to the device's clock, and the segmenter cuts and stamps what   *)
(* it is given without losing speech.                                      *)
SoundKeepsItsTime == Of("tap", TapKeepsTime) /\ Of("segmenter", SegmentsAreFaithful)

(* The assist: turns of one meeting only, the stack the switch asks for,   *)
(* and the panel and journal of the meeting at hand.                       *)
TurnsAreOfTheirMeeting == Of("audio", OldSpeechOnlyThroughTheGap)
ShellIsAsSwitched == Of("shell", ShellServesTheSwitch)
PanelIsFaithful == Of("panel", PanelKeepsItsWord)

(* What is recorded of the user's work: text under the app it was typed    *)
(* into and never in clear from a secure field, screens without a poisoned *)
(* sample.                                                                 *)
ActivityIsFaithful ==
  Of("input", TypingIsRecordedFaithfully) /\ Of("screens", ScreensAreSampled)

(* The set of apps the Windows detector reports.                           *)
DetectionOnWindows == Of("wasapi", WindowsDetectionIsSound)

(* What is on disk survives: preferences, credentials and recordings, and  *)
(* every commit of a database set aside for one of another version.        *)
DiskIsKept == Of("settings", FilesSurvive) /\ Of("rescue", RescueKeepsEverything)

(* The conversation with the agent: the engine tells every turn once, and  *)
(* the session gives back the answer to this very turn, whole.             *)
ConversationIsFaithful == EngineKeepsItsWord /\ []Of("agent", AgentAnswersFaithfully)

(* The monitor, the daemon and claude.                                     *)
AnalyzerIsGoverned == Of("analyzer", DaemonIsGoverned)

(* Liveness: none of them owes for ever what it must do in the end, a      *)
(* transcript, a stream in place of a broken one, the end of its threads   *)
(* or that of the daemon.  As only one component runs in a behaviour, this *)
(* is CompletedIsTranscribed, BrokenStreamIsReplaced, ThreadsEnd and       *)
(* DaemonEnds together.                                                    *)
NothingStaysOwed ==
  []<>~( \/ service = "transcription" /\ OwesTranscript
         \/ service = "capture" /\ OwesAStream
         \/ service = "windows" /\ OwesAnEnd
         \/ service = "analyzer" /\ OwesATerm )
=============================================================================
