--------------------------- MODULE WasapiSessions ---------------------------
(***************************************************************************)
(* Meeting detection on Windows (crates/gilb-meeting/src/wasapi.rs): the   *)
(* COM thread hooks the capture sessions it finds and then asks to be told *)
(* of new ones; callbacks push each transition, with try_send, into a      *)
(* bounded channel; the forward task keeps the set of apps on the          *)
(* microphone and tells the supervisor what changed.                       *)
(*                                                                         *)
(* A session is an app of the allowlist and a number: processes that are   *)
(* not on it never get past SessionTracker::observe.                       *)
(***************************************************************************)
EXTENDS Integers, Sequences, FiniteSets

CONSTANTS CallApps,        \* apps of the allowlist
          SessionsPerApp,  \* sessions an app may have
          CallbackCapacity,  \* of the channel from the callbacks
          InitialSessions, \* bound: sessions before the detector starts
          MaxTransitions   \* bound: session transitions, creations included

ASSUME WasapiAssumption ==
  /\ SessionsPerApp \in Nat /\ CallbackCapacity \in Nat
  /\ InitialSessions \in Nat /\ MaxTransitions \in Nat

CaptureSessions == CallApps \X (1 .. SessionsPerApp)
AppOf(s) == s[1]

VARIABLES
  session,     \* the OS's sessions: "none", "inactive", "active" or "expired"
  comStage,    \* COM thread: "off", "hooking", "listening", "stopped"
  toHook,      \* sessions whose register_session is still to run
  hook,        \* "no", "looked" (state read and sent), "hooked"
  callbacks,   \* the raw channel: [app, event]
  activeApps,  \* SessionTracker.active
  onCall,      \* Tracker.current: the apps of the last event
  learned,     \* what the supervisor's events amount to
  forwarded,   \* the event in the supervisor's channel, or NoEvent
  transitions,
  missed,      \* history: a transition nobody was told of
  overlapped,  \* history: one session of an app ended while another was active
  outOfTurn    \* history: Started in a meeting, or anything else outside one

osVars == <<session, transitions>>
comVars == <<comStage, toHook, hook>>
trackerVars == <<activeApps, onCall, forwarded>>
wasapiVars == <<session, comStage, toHook, hook, callbacks, activeApps, onCall, learned,
                forwarded, transitions, missed, overlapped, outOfTurn>>

NoEvent == [kind |-> "none", apps |-> {}]
OnMicrophone == {AppOf(s) : s \in {x \in CaptureSessions : session[x] = "active"}}

WasapiInit ==
  /\ \E open \in SUBSET CaptureSessions :
       /\ Cardinality(open) <= InitialSessions
       /\ session = [s \in CaptureSessions |-> IF s \in open THEN "active" ELSE "none"]
  /\ comStage = "off" /\ toHook = {}
  /\ hook = [s \in CaptureSessions |-> "no"]
  /\ callbacks = <<>>
  /\ activeApps = {} /\ onCall = {} /\ learned = {} /\ forwarded = NoEvent
  /\ transitions = 0
  /\ missed = FALSE /\ overlapped = FALSE /\ outOfTurn = FALSE

(* Registry::send and SessionEvents::send: try_send, the rest is lost.     *)
Callback(app, event) ==
  IF Len(callbacks) < CallbackCapacity
    THEN /\ callbacks' = Append(callbacks, [app |-> app, event |-> event])
         /\ UNCHANGED missed
    ELSE callbacks' = callbacks /\ missed' = TRUE

(***************************************************************************)
(* The COM thread                                                          *)
(***************************************************************************)
(* setup: the sessions there are now will be hooked, one by one ...        *)
Enumerate ==
  /\ comStage = "off"
  /\ comStage' = "hooking"
  /\ toHook' = {s \in CaptureSessions : session[s] # "none"}
  /\ UNCHANGED <<osVars, hook, callbacks, trackerVars, learned, missed, overlapped,
                 outOfTurn>>

(* ... register_session, for one session at a time: its state is read, and *)
(* sent if it is capturing; one whose process cannot be named is skipped   *)
(* for good.                                                               *)
LookAtSession(s) ==
  /\ s \in toHook /\ hook[s] = "no"
  /\ comStage = "hooking" => \A x \in CaptureSessions : hook[x] # "looked"
  /\ hook' = [hook EXCEPT ![s] = "looked"]
  /\ IF session[s] = "active" THEN Callback(AppOf(s), "Active")
     ELSE UNCHANGED <<callbacks, missed>>
  /\ UNCHANGED <<osVars, comStage, toHook, trackerVars, learned, overlapped, outOfTurn>>

SkipSession(s) ==
  /\ s \in toHook /\ hook[s] = "no"
  /\ toHook' = toHook \ {s}
  /\ missed' = TRUE
  /\ UNCHANGED <<osVars, comStage, hook, callbacks, trackerVars, learned, overlapped,
                 outOfTurn>>

(* ... and its changes are subscribed to.                                  *)
HookSession(s) ==
  /\ s \in toHook /\ hook[s] = "looked"
  /\ hook' = [hook EXCEPT ![s] = "hooked"]
  /\ toHook' = toHook \ {s}
  /\ UNCHANGED <<osVars, comStage, callbacks, trackerVars, learned, missed, overlapped,
                 outOfTurn>>

(* RegisterSessionNotification, once all of them are hooked.               *)
ListenForSessions ==
  /\ comStage = "hooking" /\ toHook = {}
  /\ comStage' = "listening"
  /\ UNCHANGED <<osVars, toHook, hook, callbacks, trackerVars, learned, missed,
                 overlapped, outOfTurn>>

(* stop: teardown unhooks everything, and the raw senders are dropped.     *)
StopDetector ==
  /\ comStage = "listening"
  /\ comStage' = "stopped"
  /\ toHook' = {} /\ hook' = [s \in CaptureSessions |-> "no"]
  /\ UNCHANGED <<osVars, callbacks, trackerVars, learned, missed, overlapped,
                 outOfTurn>>

(***************************************************************************)
(* The OS                                                                  *)
(***************************************************************************)
(* OnSessionCreated hooks a new session; before anyone listens nobody is   *)
(* told of it.                                                             *)
CreateSession(s) ==
  /\ transitions < MaxTransitions /\ session[s] = "none"
  /\ transitions' = transitions + 1
  /\ session' = [session EXCEPT ![s] = "inactive"]
  /\ toHook' = IF comStage = "listening" THEN toHook \cup {s} ELSE toHook
  /\ missed' = (missed \/ comStage = "hooking")
  /\ UNCHANGED <<comStage, hook, callbacks, trackerVars, learned, overlapped, outOfTurn>>

(* OnStateChanged and OnSessionDisconnected: a transition between the look *)
(* at a session and its hook reaches nobody.                               *)
ChangeSession(s) ==
  /\ transitions < MaxTransitions
  /\ session[s] \in {"inactive", "active"}
  /\ transitions' = transitions + 1
  /\ \E now \in {"inactive", "active", "expired"} \ {session[s]} :
       /\ session' = [session EXCEPT ![s] = now]
       /\ overlapped' = (overlapped \/
            (now # "active" /\ \E x \in CaptureSessions \ {s} :
                                AppOf(x) = AppOf(s) /\ session[x] = "active"))
       /\ IF hook[s] = "hooked"
            THEN Callback(AppOf(s), CASE now = "active" -> "Active"
                                      [] now = "inactive" -> "Inactive"
                                      [] now = "expired" -> "Expired")
            ELSE /\ UNCHANGED callbacks
                 /\ missed' = (missed \/ hook[s] = "looked")
  /\ UNCHANGED <<comVars, trackerVars, learned, outOfTurn>>

(***************************************************************************)
(* The forward task                                                        *)
(***************************************************************************)
MeetingEventOf(before, now) ==
  CASE before = now -> NoEvent
    [] before = {} /\ now # {} -> [kind |-> "Started", apps |-> now]
    [] before # {} /\ now = {} -> [kind |-> "Ended", apps |-> {}]
    [] OTHER -> [kind |-> "AppsChanged", apps |-> now]

(* Mutant: an expired session has merely gone quiet for good.              *)
ObserveForgetsExpiry ==
  /\ callbacks # <<>> /\ forwarded = NoEvent
  /\ callbacks' = Tail(callbacks)
  /\ LET e == Head(callbacks)
     IN  activeApps' = CASE e.event = "Active" -> activeApps \cup {e.app}
                     [] e.event = "Inactive" -> activeApps \ {e.app}
                     [] OTHER -> activeApps
  /\ forwarded' = MeetingEventOf(onCall, activeApps')
  /\ onCall' = activeApps'
  /\ UNCHANGED <<osVars, comVars, learned, missed, overlapped, outOfTurn>>

(* SessionTracker::observe and Tracker::observe; the send waits for room   *)
(* in the supervisor's channel.                                            *)
Observe ==
  /\ callbacks # <<>> /\ forwarded = NoEvent
  /\ callbacks' = Tail(callbacks)
  /\ LET e == Head(callbacks)
     IN  activeApps' = IF e.event = "Active" THEN activeApps \cup {e.app}
                   ELSE activeApps \ {e.app}
  /\ forwarded' = MeetingEventOf(onCall, activeApps')
  /\ onCall' = activeApps'
  /\ UNCHANGED <<osVars, comVars, learned, missed, overlapped, outOfTurn>>

(* The supervisor takes the event.                                         *)
Hear ==
  /\ forwarded # NoEvent
  /\ outOfTurn' = (outOfTurn \/ ((forwarded.kind = "Started") # (learned = {})))
  /\ learned' = forwarded.apps
  /\ forwarded' = NoEvent
  /\ UNCHANGED <<osVars, comVars, callbacks, activeApps, onCall, missed, overlapped>>

WasapiNext ==
  \/ Enumerate \/ ListenForSessions \/ StopDetector
  \/ \E s \in CaptureSessions :
       \/ LookAtSession(s) \/ SkipSession(s) \/ HookSession(s)
       \/ CreateSession(s) \/ ChangeSession(s)
  \/ Observe \/ Hear

WasapiSpec == WasapiInit /\ [][WasapiNext]_wasapiVars

-----------------------------------------------------------------------------
(* The types of the variables.                                             *)
WasapiTypeOK ==
  /\ session \in [CaptureSessions -> {"none", "inactive", "active", "expired"}]
  /\ comStage \in {"off", "hooking", "listening", "stopped"}
  /\ toHook \subseteq CaptureSessions
  /\ hook \in [CaptureSessions -> {"no", "looked", "hooked"}]
  /\ Len(callbacks) <= CallbackCapacity
  /\ activeApps \subseteq CallApps /\ onCall \subseteq CallApps /\ learned \subseteq CallApps
  /\ forwarded.apps \subseteq CallApps
  /\ transitions \in 0 .. MaxTransitions
  /\ \A h \in {missed, overlapped, outOfTurn} : h \in BOOLEAN

(* Increments converge on the truth: while the detector listens, once the  *)
(* channels are drained the supervisor believes a meeting is on exactly    *)
(* with the apps that hold the microphone, whatever the order sessions     *)
(* were found, hooked, changed and expired in.  The exceptions are the     *)
(* three the code has: a full channel, a transition in the gaps of         *)
(* setup(), and an app with two sessions (the set is kept per app).        *)
IncrementsConverge ==
  comStage = "listening" /\ toHook = {} /\ callbacks = <<>> /\ forwarded = NoEvent
    /\ ~missed /\ ~overlapped => learned = OnMicrophone

(* Whatever is lost on the way, the supervisor hears Started only outside  *)
(* a meeting and AppsChanged or Ended only inside one.                     *)
WindowsDetectionIsSound == IncrementsConverge /\ ~outOfTurn
=============================================================================
