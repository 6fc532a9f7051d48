---------------------------- MODULE ServicesProofs ----------------------------
(***************************************************************************)
(* Proofs about the services: detection on Windows, the files of the       *)
(* configuration, the rescue of a database, the analyzer and the capture   *)
(* sessions of both platforms, for any instance of each; and what the      *)
(* services keep side by side, in the specification that TLC checks.       *)
(***************************************************************************)
EXTENDS MCServices, AssistProofs, FiniteSetTheorems

-----------------------------------------------------------------------------
(* Detection on Windows: the inductive invariant.                          *)

CaptureStates == {"none", "inactive", "active", "expired"}
CallbackEvents == [app : CallApps, event : {"Active", "Inactive", "Expired"}]

WasapiTypes ==
  /\ session \in [CaptureSessions -> CaptureStates]
  /\ comStage \in {"off", "hooking", "listening", "stopped"}
  /\ toHook \subseteq CaptureSessions
  /\ hook \in [CaptureSessions -> {"no", "looked", "hooked"}]
  /\ callbacks \in Seq(CallbackEvents) /\ Len(callbacks) <= CallbackCapacity
  /\ activeApps \subseteq CallApps /\ learned \subseteq CallApps
  /\ transitions \in 0 .. MaxTransitions
  /\ missed \in BOOLEAN /\ overlapped \in BOOLEAN

\* What is on its way to the supervisor says how what it knows became what the forward
\* task knows.
Forwarding ==
  /\ onCall = activeApps
  /\ \/ forwarded = NoEvent /\ learned = activeApps
     \/ forwarded = MeetingEventOf(learned, activeApps) /\ learned # activeApps
  /\ outOfTurn = FALSE

\* The last callback of an app tells whether it is in K; an app without one is in K if
\* it is in S.
LatestOf(q, a, i) ==
  q[i].app = a /\ \A j \in 1 .. Len(q) : j > i => q[j].app # a

Tells(q, S, K) ==
  \A a \in CallApps :
    /\ \A i \in 1 .. Len(q) : LatestOf(q, a, i) => (q[i].event = "Active" <=> a \in K)
    /\ (\A i \in 1 .. Len(q) : q[i].app # a) => (a \in S <=> a \in K)

\* The apps with an active session that was looked at.
SeenApps ==
  {a \in CallApps :
     \E s \in CaptureSessions : AppOf(s) = a /\ session[s] = "active" /\ hook[s] # "no"}

\* While nothing is missed, the callbacks on their way lead to these apps ...
CallbacksTell ==
  ~missed /\ ~overlapped /\ comStage \in {"hooking", "listening"} =>
    Tells(callbacks, activeApps, SeenApps)

\* ... and every session was looked at or will be.
SessionsCovered ==
  /\ comStage = "off" =>
       /\ hook = [s \in CaptureSessions |-> "no"] /\ toHook = {}
       /\ callbacks = <<>> /\ activeApps = {}
  /\ ~missed /\ comStage \in {"hooking", "listening"} =>
       \A s \in CaptureSessions : session[s] # "none" => s \in toHook \/ hook[s] # "no"

WasapiInv == WasapiTypes /\ Forwarding /\ CallbacksTell /\ SessionsCovered

\* One more event at the end tells of one more change.
LEMMA TellsAppend ==
  ASSUME NEW q \in Seq(CallbackEvents), NEW e \in CallbackEvents, NEW S, NEW K, NEW K2,
         Tells(q, S, K), K2 = IF e.event = "Active" THEN K \cup {e.app} ELSE K \ {e.app}
  PROVE  Tells(Append(q, e), S, K2)
<1> DEFINE r == Append(q, e)
<1>1. /\ Len(q) \in Nat /\ Len(r) = Len(q) + 1 /\ r[Len(q) + 1] = e
      /\ \A i \in 1 .. Len(q) : r[i] = q[i]
  BY QueueOps
<1> HIDE DEF r
<1> SUFFICES ASSUME NEW a \in CallApps
             PROVE  /\ \A i \in 1 .. Len(r) : LatestOf(r, a, i) => (r[i].event = "Active" <=> a \in K2)
                    /\ (\A i \in 1 .. Len(r) : r[i].app # a) => (a \in S <=> a \in K2)
  BY DEF Tells, r
<1>2. Len(q) + 1 \in 1 .. Len(r) /\ \A i \in 1 .. Len(q) : i \in 1 .. Len(r) /\ Len(q) + 1 > i
  BY <1>1
<1>3. CASE e.app = a
  <2>1. ASSUME NEW i \in 1 .. Len(r), LatestOf(r, a, i) PROVE i = Len(q) + 1
    BY <1>1, <1>2, <1>3, <2>1 DEF LatestOf
  <2>2. e.event = "Active" <=> a \in K2
    BY <1>3
  <2> QED
    BY <1>1, <1>2, <1>3, <2>1, <2>2
<1>4. CASE e.app # a
  <2>1. a \in K2 <=> a \in K
    BY <1>4
  <2>2. ASSUME NEW i \in 1 .. Len(r), LatestOf(r, a, i) PROVE i \in 1 .. Len(q) /\ LatestOf(q, a, i)
    BY <1>1, <1>2, <1>4, <2>2 DEF LatestOf
  <2> QED
    BY <1>1, <1>2, <2>1, <2>2 DEF Tells
<1> QED
  BY <1>3, <1>4

\* The first event, once handled, has been told.
LEMMA TellsTail ==
  ASSUME NEW q \in Seq(CallbackEvents), q # <<>>, NEW S, NEW S2, NEW K, Tells(q, S, K),
         S2 = IF Head(q).event = "Active" THEN S \cup {Head(q).app} ELSE S \ {Head(q).app}
  PROVE  Tells(Tail(q), S2, K)
<1> DEFINE r == Tail(q)
<1>1. /\ Len(q) \in Nat /\ Len(q) >= 1 /\ Head(q) = q[1] /\ Len(r) = Len(q) - 1
      /\ \A i \in 1 .. Len(r) : r[i] = q[i + 1]
  BY QueueOps
<1> HIDE DEF r
<1> SUFFICES ASSUME NEW a \in CallApps
             PROVE  /\ \A i \in 1 .. Len(r) : LatestOf(r, a, i) => (r[i].event = "Active" <=> a \in K)
                    /\ (\A i \in 1 .. Len(r) : r[i].app # a) => (a \in S2 <=> a \in K)
  BY DEF Tells, r
<1>2. /\ 1 \in 1 .. Len(q)
      /\ \A i \in 1 .. Len(r) : i + 1 \in 1 .. Len(q) /\ i + 1 > 1
      /\ \A j \in 1 .. Len(q) : j = 1 \/ (j - 1 \in 1 .. Len(r) /\ q[j] = r[j - 1])
  BY <1>1
<1>3. ASSUME NEW i \in 1 .. Len(r), LatestOf(r, a, i) PROVE r[i].event = "Active" <=> a \in K
  <2>1. LatestOf(q, a, i + 1)
    <3>1. ASSUME NEW j \in 1 .. Len(q), j > i + 1 PROVE q[j].app # a
      <4>1. j - 1 \in 1 .. Len(r) /\ q[j] = r[j - 1] /\ j - 1 > i
        BY <1>1, <1>2, <3>1
      <4> QED
        BY <1>3, <4>1 DEF LatestOf
    <3> QED
      BY <1>1, <1>3, <3>1 DEF LatestOf
  <2> QED
    BY <1>1, <1>2, <2>1 DEF Tells
<1>4. ASSUME \A i \in 1 .. Len(r) : r[i].app # a PROVE a \in S2 <=> a \in K
  <2>1. \A j \in 1 .. Len(q) : j > 1 => q[j].app # a
    BY <1>1, <1>2, <1>4
  <2>2. CASE q[1].app = a
    <3>1. LatestOf(q, a, 1)
      BY <2>1, <2>2 DEF LatestOf
    <3> QED
      BY <1>1, <1>2, <2>2, <3>1 DEF Tells
  <2>3. CASE q[1].app # a
    <3>1. \A j \in 1 .. Len(q) : q[j].app # a
      BY <1>2, <2>1, <2>3
    <3> QED
      BY <1>1, <2>3, <3>1 DEF Tells
  <2> QED
    BY <2>2, <2>3
<1> QED
  BY <1>3, <1>4

\* A callback is sent, or lost and known to be.
LEMMA CallbackSent ==
  ASSUME WasapiTypes, NEW a \in CallApps, NEW e \in {"Active", "Inactive", "Expired"},
         Callback(a, e)
  PROVE  /\ callbacks' \in Seq(CallbackEvents) /\ Len(callbacks') <= CallbackCapacity
         /\ \/ missed'
            \/ missed' = missed /\ callbacks' = Append(callbacks, [app |-> a, event |-> e])
         /\ missed' \in BOOLEAN
<1> DEFINE c == [app |-> a, event |-> e]
<1>1. c \in CallbackEvents
  BY DEF CallbackEvents
<1>2. callbacks \in Seq(CallbackEvents) /\ Len(callbacks) <= CallbackCapacity /\ missed \in BOOLEAN
  BY DEF WasapiTypes
<1>3. \/ callbacks' = Append(callbacks, c) /\ missed' = missed /\ Len(callbacks) < CallbackCapacity
      \/ callbacks' = callbacks /\ missed' = TRUE
  BY DEF Callback
<1> HIDE DEF c
<1>4. /\ Append(callbacks, c) \in Seq(CallbackEvents) /\ Len(Append(callbacks, c)) = Len(callbacks) + 1
      /\ Len(callbacks) \in Nat
  BY <1>1, <1>2, QueueOps
<1>5. callbacks' \in Seq(CallbackEvents) /\ Len(callbacks') <= CallbackCapacity
  BY <1>2, <1>3, <1>4, WasapiAssumption DEF WasapiAssumption
<1> QED
  BY <1>2, <1>3, <1>5 DEF c

\* The variables of the Windows detector keep their types.
LEMMA WasapiTypesStep ==
  ASSUME WasapiInv, WasapiNext
  PROVE  WasapiTypes'
<1> USE DEF osVars, comVars, trackerVars
<1>1. /\ WasapiTypes
      /\ session \in [CaptureSessions -> CaptureStates]
      /\ comStage \in {"off", "hooking", "listening", "stopped"}
      /\ toHook \subseteq CaptureSessions
      /\ hook \in [CaptureSessions -> {"no", "looked", "hooked"}]
      /\ callbacks \in Seq(CallbackEvents) /\ Len(callbacks) <= CallbackCapacity
      /\ activeApps \subseteq CallApps /\ learned \subseteq CallApps
      /\ transitions \in 0 .. MaxTransitions
      /\ missed \in BOOLEAN /\ overlapped \in BOOLEAN
  BY DEF WasapiInv, WasapiTypes
<1>2. \A s \in CaptureSessions : AppOf(s) \in CallApps
  BY DEF CaptureSessions, AppOf
<1>3. CASE Enumerate
  BY <1>1, <1>3 DEF Enumerate, WasapiTypes
<1>4. CASE ListenForSessions
  BY <1>1, <1>4 DEF ListenForSessions, WasapiTypes
<1>5. CASE StopDetector
  BY <1>1, <1>5 DEF StopDetector, WasapiTypes
<1>6. ASSUME NEW s \in CaptureSessions, LookAtSession(s) PROVE WasapiTypes'
  <2>1. callbacks' \in Seq(CallbackEvents) /\ Len(callbacks') <= CallbackCapacity /\ missed' \in BOOLEAN
    <3>1. Callback(AppOf(s), "Active") \/ UNCHANGED <<callbacks, missed>>
      BY <1>6 DEF LookAtSession
    <3> QED
      BY <1>1, <1>2, <3>1, CallbackSent
  <2> QED
    BY <1>1, <1>6, <2>1 DEF LookAtSession, WasapiTypes
<1>7. ASSUME NEW s \in CaptureSessions, SkipSession(s) \/ HookSession(s) PROVE WasapiTypes'
  BY <1>1, <1>7 DEF SkipSession, HookSession, WasapiTypes
<1>8. ASSUME NEW s \in CaptureSessions, CreateSession(s) PROVE WasapiTypes'
  <2>1. missed' \in BOOLEAN
    BY <1>1, <1>8 DEF CreateSession
  <2>2. transitions' \in 0 .. MaxTransitions
    BY <1>1, <1>8, WasapiAssumption DEF CreateSession, WasapiAssumption
  <2>3. session' \in [CaptureSessions -> CaptureStates] /\ toHook' \subseteq CaptureSessions
    BY <1>1, <1>8 DEF CreateSession, CaptureStates
  <2> QED
    BY <1>1, <1>8, <2>1, <2>2, <2>3 DEF CreateSession, WasapiTypes
<1>9. ASSUME NEW s \in CaptureSessions, ChangeSession(s) PROVE WasapiTypes'
  <2>1. PICK now \in {"inactive", "active", "expired"} \ {session[s]} :
           /\ session' = [session EXCEPT ![s] = now]
           /\ overlapped' = (overlapped \/
                (now # "active" /\ \E x \in CaptureSessions \ {s} :
                                    AppOf(x) = AppOf(s) /\ session[x] = "active"))
           /\ IF hook[s] = "hooked"
                THEN Callback(AppOf(s), CASE now = "active" -> "Active"
                                          [] now = "inactive" -> "Inactive"
                                          [] now = "expired" -> "Expired")
                ELSE UNCHANGED callbacks /\ missed' = (missed \/ hook[s] = "looked")
    BY <1>9 DEF ChangeSession
  <2>2. callbacks' \in Seq(CallbackEvents) /\ Len(callbacks') <= CallbackCapacity /\ missed' \in BOOLEAN
    <3>1. CASE hook[s] = "hooked"
      <4>1. (CASE now = "active" -> "Active"
               [] now = "inactive" -> "Inactive"
               [] now = "expired" -> "Expired") \in {"Active", "Inactive", "Expired"}
        BY <2>1
      <4> QED
        BY <1>1, <1>2, <2>1, <3>1, <4>1, CallbackSent
    <3>2. CASE hook[s] # "hooked"
      BY <1>1, <2>1, <3>2
    <3> QED
      BY <3>1, <3>2
  <2>3. overlapped' \in BOOLEAN
    BY <1>1, <2>1
  <2>4. session' \in [CaptureSessions -> CaptureStates]
    BY <1>1, <2>1 DEF CaptureStates
  <2>5. transitions' \in 0 .. MaxTransitions
    BY <1>1, <1>9, WasapiAssumption DEF ChangeSession, WasapiAssumption
  <2> QED
    BY <1>1, <1>9, <2>2, <2>3, <2>4, <2>5 DEF ChangeSession, WasapiTypes
<1>10. CASE Observe
  <2>1. /\ callbacks' \in Seq(CallbackEvents) /\ Len(callbacks') <= CallbackCapacity
        /\ Head(callbacks).app \in CallApps
    <3>1. /\ Len(callbacks) \in Nat /\ Tail(callbacks) \in Seq(CallbackEvents)
          /\ Len(Tail(callbacks)) = Len(callbacks) - 1 /\ Head(callbacks) \in CallbackEvents
      BY <1>1, <1>10, QueueOps DEF Observe
    <3> QED
      BY <1>1, <1>10, <3>1, WasapiAssumption DEF Observe, CallbackEvents, WasapiAssumption
  <2>2. activeApps' \subseteq CallApps
    BY <1>1, <1>10, <2>1 DEF Observe
  <2> QED
    BY <1>1, <1>10, <2>1, <2>2 DEF Observe, WasapiTypes
<1>11. CASE Hear
  <2>1. learned' \subseteq CallApps
    BY <1>1, <1>11 DEF Hear, WasapiInv, Forwarding, MeetingEventOf, NoEvent
  <2> QED
    BY <1>1, <1>11, <2>1 DEF Hear, WasapiTypes
<1> QED
  BY <1>3, <1>4, <1>5, <1>6, <1>7, <1>8, <1>9, <1>10, <1>11 DEF WasapiNext

\* What the supervisor hears leads from what it knew to what the forward task knows, as
\* Started outside a meeting and as anything else inside one.
LEMMA ForwardingStep ==
  ASSUME WasapiInv, WasapiNext
  PROVE  Forwarding'
<1> USE DEF osVars, comVars, trackerVars
<1>1. /\ onCall = activeApps /\ outOfTurn = FALSE
      /\ \/ forwarded = NoEvent /\ learned = activeApps
         \/ forwarded = MeetingEventOf(learned, activeApps) /\ learned # activeApps
  BY DEF WasapiInv, Forwarding
<1>2. \A b, n : b # n => MeetingEventOf(b, n) # NoEvent
  BY DEF MeetingEventOf, NoEvent
<1>3. CASE Observe
  <2>1. /\ forwarded = NoEvent /\ learned = activeApps
        /\ forwarded' = MeetingEventOf(activeApps, activeApps')
        /\ onCall' = activeApps' /\ learned' = learned /\ outOfTurn' = outOfTurn
    BY <1>1, <1>2, <1>3 DEF Observe
  <2>2. learned' = activeApps' => forwarded' = NoEvent
    BY <2>1 DEF MeetingEventOf
  <2> QED
    BY <1>1, <2>1, <2>2 DEF Forwarding
<1>4. CASE Hear
  <2>1. forwarded = MeetingEventOf(learned, activeApps) /\ learned # activeApps
    BY <1>1, <1>4 DEF Hear
  <2>2. (forwarded.kind = "Started") <=> (learned = {})
    BY <2>1 DEF MeetingEventOf
  <2>3. forwarded.apps = activeApps
    BY <2>1 DEF MeetingEventOf
  <2>4. outOfTurn' = FALSE
    BY <1>1, <1>4, <2>2 DEF Hear
  <2> QED
    BY <1>1, <1>4, <2>3, <2>4 DEF Hear, Forwarding
<1>5. CASE UNCHANGED <<onCall, activeApps, forwarded, learned, outOfTurn>>
  BY <1>1, <1>5 DEF Forwarding
<1> QED
  BY <1>3, <1>4, <1>5
  DEF WasapiNext, Enumerate, ListenForSessions, StopDetector, LookAtSession, SkipSession, HookSession,
      CreateSession, ChangeSession

\* A session looked at joins the apps seen, and one that ends leaves them.
LEMMA TellsStep ==
  ASSUME WasapiInv, WasapiNext
  PROVE  CallbacksTell'
<1> USE DEF osVars, comVars, trackerVars
<1>1. /\ WasapiTypes
      /\ session \in [CaptureSessions -> CaptureStates]
      /\ hook \in [CaptureSessions -> {"no", "looked", "hooked"}]
      /\ callbacks \in Seq(CallbackEvents)
      /\ missed \in BOOLEAN /\ overlapped \in BOOLEAN
      /\ comStage \in {"off", "hooking", "listening", "stopped"}
  BY DEF WasapiInv, WasapiTypes
<1>2. \A s \in CaptureSessions : AppOf(s) \in CallApps
  BY DEF CaptureSessions, AppOf
<1> SUFFICES ASSUME ~missed', ~overlapped', comStage' \in {"hooking", "listening"}
             PROVE  Tells(callbacks', activeApps', SeenApps')
  BY DEF CallbacksTell
<1>3. CASE Enumerate
  <2>1. /\ hook = [s \in CaptureSessions |-> "no"] /\ callbacks = <<>> /\ activeApps = {}
    BY <1>3 DEF WasapiInv, SessionsCovered, Enumerate
  <2>2. callbacks' = <<>> /\ activeApps' = {} /\ hook' = hook
    BY <1>3, <2>1 DEF Enumerate
  <2>3. SeenApps' = {}
    BY <2>1, <2>2 DEF SeenApps
  <2>4. \A i : i \notin 1 .. Len(<<>>)
    OBVIOUS
  <2> QED
    BY <2>2, <2>3, <2>4 DEF Tells
<1> SUFFICES ASSUME ~Enumerate PROVE Tells(callbacks', activeApps', SeenApps')
  BY <1>3
<1>4. (~missed /\ ~overlapped /\ comStage \in {"hooking", "listening"}) \/ comStage = "off"
  <2>1. missed => missed'
    BY <1>1, CallbackSent
    DEF WasapiNext, Enumerate, ListenForSessions, StopDetector, LookAtSession, SkipSession,
        HookSession, CreateSession, ChangeSession, Observe, Hear, Callback
  <2>2. overlapped => overlapped'
    BY <1>1
    DEF WasapiNext, Enumerate, ListenForSessions, StopDetector, LookAtSession, SkipSession,
        HookSession, CreateSession, ChangeSession, Observe, Hear
  <2>3. comStage # "stopped"
    BY DEF WasapiNext, Enumerate, ListenForSessions, StopDetector, LookAtSession, SkipSession,
        HookSession, CreateSession, ChangeSession, Observe, Hear
  <2> QED
    BY <1>1, <2>1, <2>2, <2>3
<1>5. comStage # "off"
  BY DEF WasapiNext, Enumerate, ListenForSessions, StopDetector, LookAtSession, SkipSession,
      HookSession, CreateSession, ChangeSession, Observe, Hear
<1>6. Tells(callbacks, activeApps, SeenApps)
  BY <1>4, <1>5 DEF WasapiInv, CallbacksTell
<1>7. CASE UNCHANGED <<session, callbacks, activeApps>>
           /\ \A s \in CaptureSessions : (hook'[s] # "no") = (hook[s] # "no")
  <2>1. SeenApps' = SeenApps
    BY <1>7 DEF SeenApps
  <2> QED
    BY <1>6, <1>7, <2>1
<1>8. CASE ListenForSessions \/ Hear \/ StopDetector
  BY <1>7, <1>8 DEF ListenForSessions, Hear, StopDetector
<1>9. ASSUME NEW s \in CaptureSessions, SkipSession(s) \/ HookSession(s)
      PROVE  Tells(callbacks', activeApps', SeenApps')
  <2>1. \A x \in CaptureSessions : (hook'[x] # "no") = (hook[x] # "no")
    BY <1>1, <1>9 DEF SkipSession, HookSession
  <2> QED
    BY <1>7, <1>9, <2>1 DEF SkipSession, HookSession
<1>10. ASSUME NEW s \in CaptureSessions, LookAtSession(s)
       PROVE  Tells(callbacks', activeApps', SeenApps')
  <2>1. session' = session /\ hook' = [hook EXCEPT ![s] = "looked"] /\ activeApps' = activeApps
    BY <1>10 DEF LookAtSession
  <2>2. CASE session[s] = "active"
    <3>1. Callback(AppOf(s), "Active")
      BY <1>10, <2>2 DEF LookAtSession
    <3> DEFINE c == [app |-> AppOf(s), event |-> "Active"]
    <3>2. callbacks' = Append(callbacks, c)
      BY <1>1, <1>2, <3>1, CallbackSent
    <3>3. c \in CallbackEvents /\ c.event = "Active" /\ c.app = AppOf(s)
      BY <1>2 DEF CallbackEvents
    <3>4. SeenApps' = SeenApps \cup {AppOf(s)}
      BY <1>1, <1>2, <2>1, <2>2 DEF SeenApps
    <3> HIDE DEF c
    <3> QED
      BY <1>1, <1>6, <2>1, <3>2, <3>3, <3>4, TellsAppend
  <2>3. CASE session[s] # "active"
    <3>1. callbacks' = callbacks
      BY <1>10, <2>3 DEF LookAtSession
    <3>2. SeenApps' = SeenApps
      BY <1>1, <2>1, <2>3 DEF SeenApps
    <3> QED
      BY <1>6, <2>1, <3>1, <3>2
  <2> QED
    BY <2>2, <2>3
<1>11. ASSUME NEW s \in CaptureSessions, CreateSession(s)
       PROVE  Tells(callbacks', activeApps', SeenApps')
  <2>1. /\ session' = [session EXCEPT ![s] = "inactive"] /\ session[s] = "none" /\ hook' = hook
        /\ UNCHANGED <<callbacks, activeApps>>
    BY <1>11 DEF CreateSession
  <2>2. SeenApps' = SeenApps
    BY <1>1, <2>1 DEF SeenApps
  <2> QED
    BY <1>6, <2>1, <2>2
<1>12. ASSUME NEW s \in CaptureSessions, ChangeSession(s)
       PROVE  Tells(callbacks', activeApps', SeenApps')
  <2>1. PICK now \in {"inactive", "active", "expired"} \ {session[s]} :
           /\ session' = [session EXCEPT ![s] = now]
           /\ overlapped' = (overlapped \/
                (now # "active" /\ \E x \in CaptureSessions \ {s} :
                                    AppOf(x) = AppOf(s) /\ session[x] = "active"))
           /\ IF hook[s] = "hooked"
                THEN Callback(AppOf(s), CASE now = "active" -> "Active"
                                          [] now = "inactive" -> "Inactive"
                                          [] now = "expired" -> "Expired")
                ELSE UNCHANGED callbacks /\ missed' = (missed \/ hook[s] = "looked")
    BY <1>12 DEF ChangeSession
  <2>2. UNCHANGED <<hook, activeApps>>
    BY <1>12 DEF ChangeSession
  <2>3. CASE hook[s] = "hooked"
    <3> DEFINE e == CASE now = "active" -> "Active"
                      [] now = "inactive" -> "Inactive"
                      [] now = "expired" -> "Expired"
    <3>1. e \in {"Active", "Inactive", "Expired"} /\ (e = "Active" <=> now = "active")
      BY <2>1
    <3>2. Callback(AppOf(s), e)
      BY <2>1, <2>3
    <3> HIDE DEF e
    <3> DEFINE c == [app |-> AppOf(s), event |-> e]
    <3>3. callbacks' = Append(callbacks, c)
      BY <1>1, <1>2, <3>1, <3>2, CallbackSent
    <3>4. c \in CallbackEvents /\ c.event = e /\ c.app = AppOf(s)
      BY <1>2, <3>1 DEF CallbackEvents
    <3> HIDE DEF c
    <3>5. CASE now = "active"
      <4>1. SeenApps' = SeenApps \cup {AppOf(s)}
        BY <1>1, <1>2, <2>1, <2>2, <2>3, <3>5 DEF SeenApps
      <4> QED
        BY <1>1, <1>6, <2>2, <3>1, <3>3, <3>4, <3>5, <4>1, TellsAppend
    <3>6. CASE now # "active"
      <4>1. \A x \in CaptureSessions \ {s} : AppOf(x) = AppOf(s) => session[x] # "active"
        BY <2>1, <3>6
      <4>2. SeenApps' = SeenApps \ {AppOf(s)}
        BY <1>1, <1>2, <2>1, <2>2, <3>6, <4>1 DEF SeenApps
      <4> QED
        BY <1>1, <1>6, <2>2, <3>1, <3>3, <3>4, <3>6, <4>2, TellsAppend
    <3> QED
      BY <3>5, <3>6
  <2>4. CASE hook[s] # "hooked"
    <3>1. hook[s] = "no" /\ callbacks' = callbacks
      BY <1>1, <2>1, <2>4
    <3>2. SeenApps' = SeenApps
      BY <1>1, <2>1, <2>2, <3>1 DEF SeenApps
    <3> QED
      BY <1>6, <2>2, <3>1, <3>2
  <2> QED
    BY <2>3, <2>4
<1>13. CASE Observe
  <2>1. /\ callbacks # <<>> /\ callbacks' = Tail(callbacks)
        /\ activeApps' = IF Head(callbacks).event = "Active" THEN activeApps \cup {Head(callbacks).app}
                         ELSE activeApps \ {Head(callbacks).app}
        /\ session' = session /\ hook' = hook
    BY <1>13 DEF Observe
  <2>2. SeenApps' = SeenApps
    BY <2>1 DEF SeenApps
  <2> QED
    BY <1>1, <1>6, <2>1, <2>2, TellsTail
<1> QED
  BY <1>8, <1>9, <1>10, <1>11, <1>12, <1>13 DEF WasapiNext

\* Every session is looked at: those there are when the thread enumerates them, and those
\* created since; one skipped, or created before anyone listens, is known to be missed.
LEMMA CoveredStep ==
  ASSUME WasapiInv, WasapiNext
  PROVE  SessionsCovered'
<1> USE DEF osVars, comVars, trackerVars
<1>1. /\ hook \in [CaptureSessions -> {"no", "looked", "hooked"}]
      /\ comStage \in {"off", "hooking", "listening", "stopped"}
      /\ session \in [CaptureSessions -> CaptureStates]
      /\ missed \in BOOLEAN
  BY DEF WasapiInv, WasapiTypes
<1>2. /\ comStage = "off" =>
           /\ hook = [s \in CaptureSessions |-> "no"] /\ toHook = {}
           /\ callbacks = <<>> /\ activeApps = {}
      /\ ~missed /\ comStage \in {"hooking", "listening"} =>
           \A s \in CaptureSessions : session[s] # "none" => s \in toHook \/ hook[s] # "no"
  BY DEF WasapiInv, SessionsCovered
<1>3. CASE Enumerate
  BY <1>3 DEF Enumerate, SessionsCovered
<1>4. CASE ListenForSessions
  BY <1>1, <1>2, <1>4 DEF ListenForSessions, SessionsCovered
<1>5. CASE StopDetector
  BY <1>5 DEF StopDetector, SessionsCovered
<1>6. ASSUME NEW s \in CaptureSessions, LookAtSession(s) PROVE SessionsCovered'
  <2>1. /\ comStage # "off" /\ comStage' = comStage /\ session' = session /\ toHook' = toHook
        /\ hook' = [hook EXCEPT ![s] = "looked"]
    BY <1>2, <1>6 DEF LookAtSession
  <2>2. missed => missed'
    BY <1>6 DEF LookAtSession, Callback
  <2> QED
    BY <1>1, <1>2, <2>1, <2>2 DEF SessionsCovered
<1>7. ASSUME NEW s \in CaptureSessions, SkipSession(s) PROVE SessionsCovered'
  BY <1>1, <1>2, <1>7 DEF SkipSession, SessionsCovered
<1>8. ASSUME NEW s \in CaptureSessions, HookSession(s) PROVE SessionsCovered'
  <2>1. /\ comStage # "off" /\ comStage' = comStage /\ session' = session /\ toHook' = toHook \ {s}
        /\ hook' = [hook EXCEPT ![s] = "hooked"] /\ missed' = missed
    BY <1>2, <1>8 DEF HookSession
  <2> QED
    BY <1>1, <1>2, <2>1 DEF SessionsCovered
<1>9. ASSUME NEW s \in CaptureSessions, CreateSession(s) PROVE SessionsCovered'
  <2>1. /\ comStage' = comStage /\ hook' = hook /\ callbacks' = callbacks /\ activeApps' = activeApps
        /\ session' = [session EXCEPT ![s] = "inactive"]
        /\ toHook' = IF comStage = "listening" THEN toHook \cup {s} ELSE toHook
        /\ missed' = (missed \/ comStage = "hooking")
    BY <1>9 DEF CreateSession
  <2> QED
    BY <1>1, <1>2, <2>1 DEF SessionsCovered
<1>10. ASSUME NEW s \in CaptureSessions, ChangeSession(s) PROVE SessionsCovered'
  <2>1. /\ session[s] # "none" /\ UNCHANGED <<comStage, toHook, hook, activeApps>>
        /\ \A x \in CaptureSessions : session'[x] # "none" => session[x] # "none"
    BY <1>1, <1>10 DEF ChangeSession
  <2>2. comStage = "off" => callbacks' = callbacks
    BY <1>2, <1>10 DEF ChangeSession
  <2>3. missed => missed'
    BY <1>10 DEF ChangeSession, Callback
  <2> QED
    BY <1>1, <1>2, <2>1, <2>2, <2>3 DEF SessionsCovered
<1>11. CASE Observe
  BY <1>2, <1>11 DEF Observe, SessionsCovered
<1>12. CASE Hear
  BY <1>2, <1>12 DEF Hear, SessionsCovered
<1> QED
  BY <1>3, <1>4, <1>5, <1>6, <1>7, <1>8, <1>9, <1>10, <1>11, <1>12 DEF WasapiNext

\* Before its start the detector knows of no session.
LEMMA WasapiStart == WasapiInit => WasapiInv
<1> SUFFICES ASSUME WasapiInit PROVE WasapiInv
  OBVIOUS
<1>1. /\ session \in [CaptureSessions -> CaptureStates]
      /\ comStage = "off" /\ toHook = {} /\ hook = [s \in CaptureSessions |-> "no"]
      /\ callbacks = <<>> /\ activeApps = {} /\ onCall = {} /\ learned = {}
      /\ forwarded = NoEvent /\ transitions = 0
      /\ missed = FALSE /\ overlapped = FALSE /\ outOfTurn = FALSE
  BY DEF WasapiInit, CaptureStates
<1>2. callbacks \in Seq(CallbackEvents) /\ Len(callbacks) = 0
  BY <1>1
<1>3. WasapiTypes
  <2>1. hook \in [CaptureSessions -> {"no", "looked", "hooked"}]
    BY <1>1
  <2>2. transitions \in 0 .. MaxTransitions /\ Len(callbacks) <= CallbackCapacity
    BY <1>1, <1>2, WasapiAssumption DEF WasapiAssumption
  <2>3. /\ comStage \in {"off", "hooking", "listening", "stopped"} /\ toHook \subseteq CaptureSessions
        /\ activeApps \subseteq CallApps /\ learned \subseteq CallApps
        /\ missed \in BOOLEAN /\ overlapped \in BOOLEAN
    BY <1>1
  <2> QED
    BY <1>1, <1>2, <2>1, <2>2, <2>3 DEF WasapiTypes
<1>4. Forwarding
  BY <1>1 DEF Forwarding
<1>5. CallbacksTell /\ SessionsCovered
  BY <1>1 DEF CallbacksTell, SessionsCovered
<1> QED
  BY <1>3, <1>4, <1>5 DEF WasapiInv

\* Every callback, enumeration and forwarded transition keeps the invariant.
LEMMA WasapiStep == WasapiInv /\ [WasapiNext]_wasapiVars => WasapiInv'
<1>1. WasapiInv /\ WasapiNext => WasapiInv'
  BY WasapiTypesStep, ForwardingStep, TellsStep, CoveredStep DEF WasapiInv
<1>2. WasapiInv /\ UNCHANGED wasapiVars => WasapiInv'
  BY DEF wasapiVars, WasapiInv, WasapiTypes, Forwarding, CallbacksTell, SessionsCovered,
         SeenApps
<1> QED
  BY <1>1, <1>2

\* Once the channels are drained, the apps the callbacks lead to are those the supervisor
\* knows, and every active session was looked at.
LEMMA WasapiSound == WasapiInv => WasapiTypeOK /\ WindowsDetectionIsSound
<1> SUFFICES ASSUME WasapiInv PROVE WasapiTypeOK /\ WindowsDetectionIsSound
  OBVIOUS
<1>1. WasapiTypes /\ Forwarding /\ CallbacksTell /\ SessionsCovered
  BY DEF WasapiInv
<1>2. ASSUME comStage = "listening", toHook = {}, callbacks = <<>>, forwarded = NoEvent,
             ~missed, ~overlapped
      PROVE  learned = OnMicrophone
  <2>1. learned = activeApps
    BY <1>1, <1>2 DEF Forwarding, MeetingEventOf, NoEvent
  <2>2. \A a \in CallApps : a \in activeApps <=> a \in SeenApps
    <3>1. Tells(<<>>, activeApps, SeenApps)
      BY <1>1, <1>2 DEF CallbacksTell
    <3>2. \A i : i \notin 1 .. Len(<<>>)
      OBVIOUS
    <3> QED
      BY <3>1, <3>2 DEF Tells
  <2>3. \A s \in CaptureSessions : session[s] = "active" => hook[s] # "no"
    BY <1>1, <1>2 DEF SessionsCovered
  <2>4. OnMicrophone = SeenApps
    <3>1. \A s \in CaptureSessions : AppOf(s) \in CallApps
      BY DEF CaptureSessions, AppOf
    <3> QED
      BY <2>3, <3>1 DEF OnMicrophone, SeenApps
  <2>5. activeApps \subseteq CallApps /\ SeenApps \subseteq CallApps
    BY <1>1 DEF WasapiTypes, SeenApps
  <2> QED
    BY <2>1, <2>2, <2>4, <2>5
<1>3. IncrementsConverge
  BY <1>2 DEF IncrementsConverge
<1>4. WindowsDetectionIsSound
  BY <1>1, <1>3 DEF WindowsDetectionIsSound, Forwarding
<1>5. WasapiTypeOK
  <2>1. onCall \subseteq CallApps
    BY <1>1 DEF WasapiTypes, Forwarding
  <2>2. forwarded.apps \subseteq CallApps
    BY <1>1 DEF WasapiTypes, Forwarding, MeetingEventOf, NoEvent
  <2>3. \A h \in {missed, overlapped, outOfTurn} : h \in BOOLEAN
    BY <1>1 DEF WasapiTypes, Forwarding
  <2> QED
    BY <1>1, <2>1, <2>2, <2>3 DEF WasapiTypes, WasapiTypeOK, CaptureStates
<1> QED
  BY <1>4, <1>5

\* Detection on Windows, for any apps, sessions and channel: WindowsDetectionIsSound.
THEOREM WasapiIsSound == WasapiSpec => []WindowsDetectionIsSound
BY WasapiStart, WasapiStep, WasapiSound, PTL DEF WasapiSpec

-----------------------------------------------------------------------------
(* The files of the configuration: the inductive invariant.                *)

Temps == [version : Nat, whole : BOOLEAN]

SettingsTypes ==
  /\ writes \in Nat
  /\ prefsLock \in Writers \cup {NobodyWrites}
  /\ step \in [Writers -> {"idle", "truncate", "write", "fill", "rename"}]
  /\ askedFor \in [Fields -> Nat] /\ ReadPrefs \in [Fields -> Nat]
  /\ DOMAIN loaded = Writers /\ temp \in [Writers -> Temps]

\* A writer is inside update_preferences exactly while it holds the lock, and what it will
\* write is what was asked for; between updates the file says so.
PrefsUnderLock ==
  /\ \A w \in Writers : step[w] \in {"truncate", "write"} <=> prefsLock = w
  /\ \A w \in Writers : prefsLock = w => loaded[w] = askedFor
  /\ prefsLock = NobodyWrites => ReadPrefs = askedFor

\* The file of the credentials is whole, and so is a temporary one about to be renamed.
CredentialsBehindTemp ==
  /\ CredentialsAreWhole /\ 0 \in newest
  /\ \A w \in Writers : step[w] = "rename" => temp[w].whole

SettingsInv == SettingsTypes /\ PrefsUnderLock /\ CredentialsBehindTemp /\ RecordingsAreKept

\* What is asked for is never taken for a torn file.
LEMMA NotTorn ==
  ASSUME NEW p \in [Fields -> Nat]
  PROVE  (IF p = Torn THEN Defaults ELSE p) = p
<1>1. CASE Fields = {}
  BY <1>1 DEF Torn, Defaults
<1>2. CASE Fields # {}
  <2>1. PICK f \in Fields : TRUE
    BY <1>2
  <2>2. p[f] \in Nat /\ Torn[f] = -1
    BY DEF Torn
  <2> QED
    BY <2>2
<1> QED
  BY <1>1, <1>2

\* A fresh data directory is whole.
LEMMA SettingsStart == SettingsInit => SettingsInv
<1> SUFFICES ASSUME SettingsInit PROVE SettingsInv
  OBVIOUS
<1>1. /\ writes = 0 /\ prefsLock = NobodyWrites /\ step = [w \in Writers |-> "idle"]
      /\ prefs = Defaults /\ askedFor = Defaults
      /\ loaded = [w \in Writers |-> Defaults] /\ temp = [w \in Writers |-> NoCredentials]
      /\ creds = NoCredentials /\ newest = {0}
      /\ history \in dirs \cup {"nowhere"}
  BY DEF SettingsInit
<1>2. ReadPrefs = Defaults /\ Defaults \in [Fields -> Nat]
  BY <1>1 DEF ReadPrefs, Defaults
<1>3. SettingsTypes
  <2>1. NoCredentials \in Temps
    BY DEF NoCredentials, Temps
  <2> QED
    BY <1>1, <1>2, <2>1 DEF SettingsTypes
<1>4. PrefsUnderLock
  BY <1>1, <1>2, SettingsAssumption DEF PrefsUnderLock, SettingsAssumption
<1>5. CredentialsBehindTemp
  BY <1>1 DEF CredentialsBehindTemp, CredentialsAreWhole, NoCredentials
<1>6. RecordingsAreKept
  BY <1>1 DEF RecordingsAreKept
<1> QED
  BY <1>3, <1>4, <1>5, <1>6 DEF SettingsInv

\* Only the launch moves the directories, and the move takes the recordings along.
LEMMA RecordingsStep ==
  ASSUME SettingsInv, SettingsNext
  PROVE  RecordingsAreKept'
<1> USE DEF prefsVars, credentialVars
<1>1. RecordingsAreKept
  BY DEF SettingsInv
<1>2. CASE Launch
  <2>1. \/ UNCHANGED <<dirs, history>>
        \/ \E from \in Places :
              /\ dirs' = (dirs \ {from}) \cup {"target"}
              /\ history' = IF history = from THEN "target" ELSE history
    BY <1>2 DEF Launch, Move, Places
  <2> QED
    BY <1>1, <2>1 DEF RecordingsAreKept
<1>3. CASE UNCHANGED <<dirs, history>>
  BY <1>1, <1>3 DEF RecordingsAreKept
<1> QED
  BY <1>2, <1>3
  DEF SettingsNext, AppDied, LoadPrefs, TruncatePrefs, WritePrefs, CreateTemp, FillTemp, RenameTemp,
      ClearCredentials

\* A writer alone with the file: it loads what was asked for, and changes that and what is
\* asked for alike; a death that leaves the file torn leaves nothing asked for.
LEMMA PrefsStep ==
  ASSUME SettingsInv, SettingsNext
  PROVE  SettingsTypes' /\ PrefsUnderLock'
<1> USE DEF prefsVars, credentialVars
<1>1. /\ writes \in Nat /\ prefsLock \in Writers \cup {NobodyWrites}
      /\ step \in [Writers -> {"idle", "truncate", "write", "fill", "rename"}]
      /\ askedFor \in [Fields -> Nat] /\ ReadPrefs \in [Fields -> Nat]
      /\ DOMAIN loaded = Writers /\ temp \in [Writers -> Temps]
  BY DEF SettingsInv, SettingsTypes
<1>2. /\ \A w \in Writers : step[w] \in {"truncate", "write"} <=> prefsLock = w
      /\ \A w \in Writers : prefsLock = w => loaded[w] = askedFor
      /\ prefsLock = NobodyWrites => ReadPrefs = askedFor
      /\ NobodyWrites \notin Writers
  BY SettingsAssumption DEF SettingsInv, PrefsUnderLock, SettingsAssumption
<1>3. \A n \in Nat : n + 1 \in Nat
  OBVIOUS
<1>4. CASE Launch
  <2>1. UNCHANGED <<prefs, prefsLock, askedFor, loaded, temp, step, writes>>
    BY <1>4 DEF Launch
  <2> QED
    BY <1>1, <1>2, <2>1 DEF SettingsTypes, PrefsUnderLock, ReadPrefs
<1>5. CASE AppDied
  <2>1. /\ prefs' = prefs /\ askedFor' = ReadPrefs /\ prefsLock' = NobodyWrites /\ writes' = writes
        /\ step' = [w \in Writers |-> "idle"]
        /\ temp' = [w \in Writers |-> NoCredentials]
        /\ loaded' = [w \in Writers |-> Defaults]
    BY <1>5 DEF AppDied
  <2>2. ReadPrefs' = ReadPrefs
    BY <2>1 DEF ReadPrefs
  <2>3. NoCredentials \in Temps
    BY DEF NoCredentials, Temps
  <2> QED
    BY <1>1, <1>2, <2>1, <2>2, <2>3 DEF SettingsTypes, PrefsUnderLock
<1>6. ASSUME NEW w \in Writers, LoadPrefs(w) PROVE SettingsTypes' /\ PrefsUnderLock'
  <2>1. PICK f \in Fields : /\ loaded' = [loaded EXCEPT ![w] = [ReadPrefs EXCEPT ![f] = writes + 1]]
                            /\ askedFor' = [askedFor EXCEPT ![f] = writes + 1]
    BY <1>6 DEF LoadPrefs
  <2>2. /\ step[w] = "idle" /\ step' = [step EXCEPT ![w] = "truncate"]
        /\ prefsLock = NobodyWrites /\ prefsLock' = w /\ writes' = writes + 1
        /\ prefs' = prefs /\ temp' = temp
    BY <1>6 DEF LoadPrefs, At
  <2>3. ReadPrefs' = ReadPrefs /\ ReadPrefs = askedFor
    BY <1>2, <2>2 DEF ReadPrefs
  <2>4. loaded'[w] = askedFor' /\ DOMAIN loaded' = Writers
    BY <1>1, <2>1, <2>3
  <2>5. askedFor' \in [Fields -> Nat] /\ writes' \in Nat
    BY <1>1, <1>3, <2>1, <2>2
  <2>6. SettingsTypes'
    BY <1>1, <2>2, <2>3, <2>4, <2>5 DEF SettingsTypes
  <2>7. ASSUME NEW x \in Writers PROVE step'[x] \in {"truncate", "write"} <=> prefsLock' = x
    <3>1. CASE x = w
      BY <1>1, <2>2, <3>1
    <3>2. CASE x # w
      <4>1. step'[x] = step[x] /\ prefsLock # x
        BY <1>1, <1>2, <2>2, <3>2
      <4> QED
        BY <1>2, <2>2, <3>2, <4>1
    <3> QED
      BY <3>1, <3>2
  <2> QED
    BY <1>2, <2>2, <2>3, <2>4, <2>6, <2>7 DEF PrefsUnderLock
<1>7. ASSUME NEW w \in Writers, TruncatePrefs(w) PROVE SettingsTypes' /\ PrefsUnderLock'
  <2>1. /\ step[w] = "truncate" /\ step' = [step EXCEPT ![w] = "write"] /\ prefs' = Torn
        /\ UNCHANGED <<prefsLock, askedFor, loaded, temp, writes>>
    BY <1>7 DEF TruncatePrefs, At
  <2>2. ReadPrefs' \in [Fields -> Nat]
    BY <2>1 DEF ReadPrefs, Defaults
  <2>3. prefsLock = w
    BY <1>2, <2>1
  <2>4. \A x \in Writers : step'[x] \in {"truncate", "write"} <=> prefsLock = x
    BY <1>1, <1>2, <2>1
  <2> QED
    BY <1>1, <1>2, <2>1, <2>2, <2>3, <2>4, SettingsAssumption DEF SettingsAssumption, SettingsTypes, PrefsUnderLock
<1>8. ASSUME NEW w \in Writers, WritePrefs(w) PROVE SettingsTypes' /\ PrefsUnderLock'
  <2>1. /\ step[w] = "write" /\ step' = [step EXCEPT ![w] = "idle"] /\ prefs' = loaded[w]
        /\ prefsLock' = NobodyWrites /\ UNCHANGED <<askedFor, loaded, temp, writes>>
    BY <1>8 DEF WritePrefs, At
  <2>2. prefsLock = w /\ prefs' = askedFor
    BY <1>2, <2>1
  <2>3. ReadPrefs' = askedFor
    BY <1>1, <2>2, NotTorn DEF ReadPrefs
  <2>4. \A x \in Writers : step'[x] \notin {"truncate", "write"}
    BY <1>1, <1>2, <2>1, <2>2
  <2> QED
    BY <1>1, <1>2, <2>1, <2>3, <2>4 DEF SettingsTypes, PrefsUnderLock
<1>9. ASSUME NEW w \in Writers, CreateTemp(w) \/ FillTemp(w) \/ RenameTemp(w)
      PROVE  SettingsTypes' /\ PrefsUnderLock'
  <2>1. /\ step[w] \in {"idle", "fill", "rename"}
        /\ \E there \in {"idle", "fill", "rename"} : step' = [step EXCEPT ![w] = there]
        /\ UNCHANGED <<prefs, prefsLock, askedFor, loaded>>
        /\ writes' \in {writes, writes + 1}
    BY <1>9 DEF CreateTemp, FillTemp, RenameTemp, At
  <2>2. /\ step' \in [Writers -> {"idle", "truncate", "write", "fill", "rename"}]
        /\ \A x \in Writers : \/ step'[x] = step[x]
                              \/ x = w /\ step'[x] \notin {"truncate", "write"}
    BY <1>1, <2>1
  <2>3. writes' \in Nat
    BY <1>1, <1>3, <2>1
  <2>4. ReadPrefs' = ReadPrefs
    BY <2>1 DEF ReadPrefs
  <2>5. \A x \in Writers : step'[x] \in {"truncate", "write"} <=> prefsLock = x
    BY <1>2, <2>1, <2>2
  <2>6. temp' \in [Writers -> Temps]
    <3>1. CASE CreateTemp(w)
      <4>1. [version |-> writes + 1, whole |-> FALSE] \in Temps
        BY <1>1, <1>3 DEF Temps
      <4> QED
        BY <1>1, <3>1, <4>1 DEF CreateTemp
    <3>2. CASE FillTemp(w) \/ RenameTemp(w)
      <4>1. NoCredentials \in Temps
        BY DEF NoCredentials, Temps
      <4>2. \/ temp' = [temp EXCEPT ![w].whole = TRUE]
            \/ temp' = [temp EXCEPT ![w] = NoCredentials]
        BY <3>2 DEF FillTemp, RenameTemp
      <4>3. temp' = [temp EXCEPT ![w].whole = TRUE] => temp' \in [Writers -> Temps]
        <5>1. PICK e \in Temps : e = temp[w]
          BY <1>1
        <5>2. [e EXCEPT !.whole = TRUE] \in Temps
          BY DEF Temps
        <5>3. [temp[w] EXCEPT !.whole = TRUE] \in Temps
          BY <5>1, <5>2
        <5> QED
          BY <1>1, <5>3
      <4> QED
        BY <1>1, <4>1, <4>2, <4>3
    <3> QED
      BY <1>9, <3>1, <3>2
  <2> QED
    BY <1>1, <1>2, <2>1, <2>2, <2>3, <2>4, <2>5, <2>6 DEF SettingsTypes, PrefsUnderLock
<1>10. ASSUME NEW w \in Writers, ClearCredentials(w) PROVE SettingsTypes' /\ PrefsUnderLock'
  <2>1. UNCHANGED <<prefs, prefsLock, askedFor, loaded, temp, step, writes>>
    BY <1>10 DEF ClearCredentials
  <2> QED
    BY <1>1, <1>2, <2>1 DEF SettingsTypes, PrefsUnderLock, ReadPrefs
<1> QED
  BY <1>4, <1>5, <1>6, <1>7, <1>8, <1>9, <1>10 DEF SettingsNext

\* What is renamed over the file has been filled, and only then.
LEMMA CredentialsStep ==
  ASSUME SettingsInv, SettingsNext
  PROVE  CredentialsBehindTemp'
<1> USE DEF prefsVars, credentialVars
<1>1. /\ step \in [Writers -> {"idle", "truncate", "write", "fill", "rename"}]
      /\ temp \in [Writers -> Temps] /\ writes \in Nat
  BY DEF SettingsInv, SettingsTypes
<1>2. /\ creds.whole /\ creds.version \in newest /\ 0 \in newest
      /\ \A w \in Writers : step[w] = "rename" => temp[w].whole
  BY DEF SettingsInv, CredentialsBehindTemp, CredentialsAreWhole
<1>3. CASE Launch
  BY <1>2, <1>3 DEF Launch, CredentialsBehindTemp, CredentialsAreWhole
<1>4. CASE AppDied
  BY <1>2, <1>4 DEF AppDied, CredentialsBehindTemp, CredentialsAreWhole, NoCredentials
<1>5. ASSUME NEW w \in Writers, LoadPrefs(w) \/ TruncatePrefs(w) \/ WritePrefs(w)
      PROVE  CredentialsBehindTemp'
  <2>1. /\ \E there \in {"truncate", "write", "idle"} : step' = [step EXCEPT ![w] = there]
        /\ UNCHANGED <<creds, temp, newest>>
    BY <1>5 DEF LoadPrefs, TruncatePrefs, WritePrefs, At
  <2>2. \A x \in Writers : step'[x] = "rename" => step[x] = "rename"
    BY <1>1, <2>1
  <2> QED
    BY <1>2, <2>1, <2>2 DEF CredentialsBehindTemp, CredentialsAreWhole
<1>6. ASSUME NEW w \in Writers, CreateTemp(w) PROVE CredentialsBehindTemp'
  <2>1. /\ step' = [step EXCEPT ![w] = "fill"] /\ UNCHANGED <<creds, newest>>
        /\ temp' = [temp EXCEPT ![w] = [version |-> writes + 1, whole |-> FALSE]]
    BY <1>6 DEF CreateTemp, At
  <2>2. \A x \in Writers \ {w} : step'[x] = step[x] /\ temp'[x] = temp[x]
    BY <1>1, <2>1
  <2>3. step'[w] = "fill" /\ temp'[w] = [version |-> writes + 1, whole |-> FALSE]
    BY <1>1, <2>1
  <2> QED
    BY <1>2, <2>1, <2>2, <2>3 DEF CredentialsBehindTemp, CredentialsAreWhole
<1>7. ASSUME NEW w \in Writers, FillTemp(w) PROVE CredentialsBehindTemp'
  <2>1. UNCHANGED <<creds, newest>>
    BY <1>7 DEF FillTemp
  <2>2. CASE step' = [step EXCEPT ![w] = "rename"] /\ temp' = [temp EXCEPT ![w].whole = TRUE]
    <3>1. \A x \in Writers \ {w} : step'[x] = step[x] /\ temp'[x] = temp[x]
      BY <1>1, <2>2
    <3>2. temp'[w].whole
      BY <1>1, <2>2 DEF Temps
    <3> QED
      BY <1>2, <2>1, <3>1, <3>2 DEF CredentialsBehindTemp, CredentialsAreWhole
  <2>3. CASE step' = [step EXCEPT ![w] = "idle"] /\ temp' = [temp EXCEPT ![w] = NoCredentials]
    <3>1. \A x \in Writers \ {w} : step'[x] = step[x] /\ temp'[x] = temp[x]
      BY <1>1, <2>3
    <3>2. step'[w] = "idle" /\ temp'[w] = [version |-> 0, whole |-> TRUE]
      BY <1>1, <2>3 DEF NoCredentials
    <3> QED
      BY <1>2, <2>1, <3>1, <3>2 DEF CredentialsBehindTemp, CredentialsAreWhole
  <2> QED
    BY <1>7, <2>2, <2>3 DEF FillTemp, At
<1>8. ASSUME NEW w \in Writers, RenameTemp(w) PROVE CredentialsBehindTemp'
  <2>1. /\ step[w] = "rename" /\ step' = [step EXCEPT ![w] = "idle"]
        /\ temp' = [temp EXCEPT ![w] = NoCredentials]
        /\ \/ creds' = temp[w] /\ newest' = newest \cup {temp[w].version}
           \/ UNCHANGED <<creds, newest>>
    BY <1>8 DEF RenameTemp, At
  <2>2. creds'.whole /\ creds'.version \in newest' /\ 0 \in newest'
    BY <1>2, <2>1
  <2>3. \A x \in Writers \ {w} : step'[x] = step[x] /\ temp'[x] = temp[x]
    BY <1>1, <2>1
  <2>4. step'[w] = "idle" /\ temp'[w] = [version |-> 0, whole |-> TRUE]
    BY <1>1, <2>1 DEF NoCredentials
  <2> QED
    BY <1>2, <2>2, <2>3, <2>4 DEF CredentialsBehindTemp, CredentialsAreWhole
<1>9. ASSUME NEW w \in Writers, ClearCredentials(w) PROVE CredentialsBehindTemp'
  BY <1>2, <1>9 DEF ClearCredentials, CredentialsBehindTemp, CredentialsAreWhole, NoCredentials
<1> QED
  BY <1>3, <1>4, <1>5, <1>6, <1>7, <1>8, <1>9 DEF SettingsNext

\* Every write, rename, lock and crash keeps the invariant.
LEMMA SettingsStep == SettingsInv /\ [SettingsNext]_settingsVars => SettingsInv'
<1>1. SettingsInv /\ SettingsNext => SettingsInv'
  BY PrefsStep, CredentialsStep, RecordingsStep DEF SettingsInv
<1>2. SettingsInv /\ UNCHANGED settingsVars => SettingsInv'
  BY DEF settingsVars, SettingsInv, SettingsTypes, PrefsUnderLock, CredentialsBehindTemp,
         CredentialsAreWhole, RecordingsAreKept, ReadPrefs
<1> QED
  BY <1>1, <1>2

\* The promise of the settings is a consequence of their invariant.
LEMMA SettingsSurvive == SettingsInv => FilesSurvive
BY DEF SettingsInv, PrefsUnderLock, CredentialsBehindTemp, FilesSurvive, UpdatesCompose

\* The files of the configuration, for any fields and writers: FilesSurvive.
THEOREM FilesAreKept == SettingsSpec => []FilesSurvive
BY SettingsStart, SettingsStep, SettingsSurvive, PTL DEF SettingsSpec

-----------------------------------------------------------------------------
(* The rescue of a database: the inductive invariant.                      *)

Databases == [gen : Nat, schema : Nat, commits : SUBSET Nat]
Stages == {"down", "opening", "archive", "archive_wal", "retry", "up"}

RescueTypes ==
  /\ binary \in Nat /\ main \in Databases /\ wal \in Databases
  /\ archives \in [Slots -> [main : Databases, wal : Databases]]
  /\ dbStage \in Stages /\ slot \in Slots
  /\ second \in 0 .. MaxSeconds /\ commits \in Nat /\ launches \in 0 .. MaxLaunches
  /\ halfMoved \in BOOLEAN

\* A file of the database is of some generation.
FilesAreOfALaunch ==
  /\ main # NoFile => main.gen # 0
  /\ dbStage # "down" => launches # 0
  /\ dbStage \in {"archive", "up"} => main # NoFile
  /\ dbStage \in {"archive_wal", "retry"} => main = NoFile

\* The archives of a second take its names in order, one to a launch at most.
ArchivesInOrder ==
  /\ \A s \in Slots : archives[s].main = NoFile => archives[s].wal = NoFile
  /\ dbStage = "archive_wal" => archives[slot].main # NoFile
  /\ \A t \in 0 .. MaxSeconds : \E k \in 0 .. launches :
       /\ \A n \in 1 .. MaxLaunches : archives[<<t, n>>].main # NoFile <=> n <= k
       /\ dbStage \in {"opening", "archive"} => k < launches

\* Between its two renames the log belongs to the archive being made, and otherwise to
\* the database.
LogHasItsPlace ==
  ~halfMoved =>
    /\ dbStage = "archive_wal" =>
         /\ archives[slot].wal = NoFile
         /\ wal # NoFile => wal.gen = archives[slot].main.gen
    /\ dbStage # "archive_wal" /\ wal # NoFile => wal.gen = main.gen /\ main # NoFile

InArchives == UNION {Readable(archives[s].main, archives[s].wal) : s \in Slots}

\* While the log waits to be moved, its commits are neither in the database nor in an
\* archive, and all others are.
CommitsAreSomewhere ==
  ~halfMoved =>
    1 .. commits = Readable(main, wal) \cup InArchives
                     \cup (IF dbStage = "archive_wal" THEN wal.commits ELSE {})

RescueInv ==
  RescueTypes /\ FilesAreOfALaunch /\ ArchivesInOrder /\ LogHasItsPlace /\ CommitsAreSomewhere

\* What the name of an archive is made of: a second and a counter.
LEMMA NamesAreFree ==
  /\ \A s \in Slots : s[1] \in 0 .. MaxSeconds /\ s[2] \in 1 .. MaxLaunches /\ s = <<s[1], s[2]>>
  /\ \A t \in 0 .. MaxSeconds, n \in 1 .. MaxLaunches :
       <<t, n>> \in Slots /\ <<t, n>>[1] = t /\ <<t, n>>[2] = n
BY DEF Slots

\* There is a name for the archive: fewer launches than this one have made any.
LEMMA FreeSlotIsFree ==
  ASSUME RescueInv, dbStage = "archive"
  PROVE  /\ FreeSlot \in Slots /\ archives[FreeSlot].main = NoFile /\ archives[FreeSlot].wal = NoFile
         /\ \E k \in 0 .. launches :
              /\ FreeSlot = <<second, k + 1>> /\ k < launches
              /\ \A n \in 1 .. MaxLaunches : archives[<<second, n>>].main # NoFile <=> n <= k
<1> DEFINE Free(s) == /\ s[1] = second /\ archives[s].main = NoFile
                      /\ \A n \in 1 .. (s[2] - 1) : archives[<<second, n>>].main # NoFile
<1>1. launches \in 0 .. MaxLaunches /\ second \in 0 .. MaxSeconds /\ MaxLaunches \in Nat
  BY RescueAssumption DEF RescueInv, RescueTypes, RescueAssumption
<1>2. PICK k \in 0 .. launches :
         /\ \A n \in 1 .. MaxLaunches : archives[<<second, n>>].main # NoFile <=> n <= k
         /\ k < launches
  BY <1>1 DEF RescueInv, ArchivesInOrder
<1>3. k \in Nat /\ k + 1 \in 1 .. MaxLaunches /\ (k + 1) - 1 = k /\ ~(k + 1 <= k)
  BY <1>1, <1>2
<1>4. \A n \in 1 .. k : n \in 1 .. MaxLaunches /\ n <= k
  BY <1>1, <1>2
<1>5. <<second, k + 1>> \in Slots /\ Free(<<second, k + 1>>)
  BY <1>1, <1>2, <1>3, <1>4, NamesAreFree
<1>6. FreeSlot = CHOOSE s \in Slots : Free(s)
  BY DEF FreeSlot
<1> HIDE DEF Free
<1>7. FreeSlot \in Slots /\ Free(FreeSlot)
  BY <1>5, <1>6
<1>8. PICK n \in 1 .. MaxLaunches : FreeSlot = <<second, n>> /\ FreeSlot[2] = n
  BY <1>7, NamesAreFree DEF Free
<1>9. ~(n <= k)
  BY <1>2, <1>7, <1>8 DEF Free
<1>10. ~(k + 1 < n)
  <2>1. SUFFICES ASSUME k + 1 < n PROVE FALSE
    OBVIOUS
  <2>2. k + 1 \in 1 .. (n - 1)
    BY <1>3, <1>8, <2>1
  <2> QED
    BY <1>2, <1>3, <1>7, <1>8, <2>2 DEF Free
<1>11. n = k + 1
  BY <1>2, <1>3, <1>8, <1>9, <1>10
<1> QED
  BY <1>2, <1>7, <1>8, <1>11 DEF Free, RescueInv, ArchivesInOrder

\* Before the first launch there is nothing to lose.
LEMMA RescueStart == RescueInit => RescueInv
<1> SUFFICES ASSUME RescueInit PROVE RescueInv
  OBVIOUS
<1>1. /\ binary \in Nat /\ main = NoFile /\ wal = NoFile /\ dbStage = "down"
      /\ archives = [s \in Slots |-> NoArchive] /\ slot = <<0, 1>>
      /\ second = 0 /\ commits = 0 /\ launches = 0 /\ halfMoved = FALSE
  BY VersionsAreNumbers DEF RescueInit, VersionsAreNumbers
<1>2. NoFile \in Databases /\ NoFile.gen = 0 /\ NoFile.commits = {}
  BY DEF NoFile, Databases
<1>3. MaxSeconds \in Nat /\ MaxLaunches \in Nat \ {0}
  BY RescueAssumption DEF RescueAssumption
<1>4. \A s \in Slots : archives[s].main = NoFile /\ archives[s].wal = NoFile
  BY <1>1 DEF NoArchive
<1>5. RescueTypes
  <2>1. slot \in Slots
    BY <1>1, <1>3 DEF Slots
  <2>2. archives \in [Slots -> [main : Databases, wal : Databases]]
    BY <1>1, <1>2 DEF NoArchive
  <2>3. second \in 0 .. MaxSeconds /\ launches \in 0 .. MaxLaunches
    BY <1>1, <1>3
  <2> QED
    BY <1>1, <1>2, <2>1, <2>2, <2>3 DEF RescueTypes, Stages
<1>6. FilesAreOfALaunch /\ LogHasItsPlace
  BY <1>1 DEF FilesAreOfALaunch, LogHasItsPlace
<1>7. ArchivesInOrder
  <2>1. \A t \in 0 .. MaxSeconds, n \in 1 .. MaxLaunches : archives[<<t, n>>].main = NoFile
    BY <1>4, NamesAreFree
  <2>2. 0 \in 0 .. launches /\ \A n \in 1 .. MaxLaunches : ~(n <= 0)
    BY <1>1, <1>3
  <2> QED
    BY <1>1, <1>4, <2>1, <2>2 DEF ArchivesInOrder
<1>8. CommitsAreSomewhere
  <2>1. Readable(main, wal) = {} /\ \A s \in Slots : Readable(archives[s].main, archives[s].wal) = {}
    BY <1>1, <1>2, <1>4 DEF Readable
  <2>2. InArchives = {}
    BY <2>1 DEF InArchives
  <2>3. 1 .. commits = {}
    BY <1>1
  <2> QED
    BY <1>1, <2>1, <2>2, <2>3 DEF CommitsAreSomewhere
<1> QED
  BY <1>5, <1>6, <1>7, <1>8 DEF RescueInv

\* What each step makes of the variables, in terms of the types.
LEMMA RescueTypesStep ==
  ASSUME RescueInv, RescueNext
  PROVE  RescueTypes'
<1>1. /\ binary \in Nat /\ main \in Databases /\ wal \in Databases
      /\ archives \in [Slots -> [main : Databases, wal : Databases]]
      /\ dbStage \in Stages /\ slot \in Slots
      /\ second \in 0 .. MaxSeconds /\ commits \in Nat /\ launches \in 0 .. MaxLaunches
      /\ halfMoved \in BOOLEAN
  BY DEF RescueInv, RescueTypes
<1>2. NoFile \in Databases /\ MaxLaunches \in Nat /\ MaxSeconds \in Nat
  BY RescueAssumption DEF NoFile, Databases, RescueAssumption
<1>3. CASE InstallVersion
  BY <1>1, <1>3, VersionsAreNumbers DEF InstallVersion, RescueTypes, VersionsAreNumbers
<1>4. CASE SecondPasses
  <2>1. second' \in 0 .. MaxSeconds
    BY <1>1, <1>2, <1>4 DEF SecondPasses
  <2> QED
    BY <1>1, <1>4, <2>1 DEF SecondPasses, RescueTypes
<1>5. CASE StartApp
  <2>1. launches' \in 0 .. MaxLaunches
    BY <1>1, <1>2, <1>5 DEF StartApp
  <2> QED
    BY <1>1, <1>5, <2>1 DEF StartApp, RescueTypes, Stages
<1>6. CASE AppEnds
  BY <1>1, <1>6 DEF AppEnds, RescueTypes, Stages
<1>7. CASE OpenDb
  <2>1. Opened \in Databases
    <3>1. [gen |-> launches, schema |-> 0, commits |-> {}] \in Databases
      BY <1>1, <1>2 DEF Databases
    <3> QED
      BY <1>1, <3>1 DEF Opened
  <2>2. main' \in Databases
    BY <1>1, <1>7, <2>1 DEF OpenDb, Databases
  <2> QED
    BY <1>1, <1>7, <2>2 DEF OpenDb, RescueTypes, Stages
<1>8. CASE MigrateFails
  BY <1>1, <1>8 DEF MigrateFails, RescueTypes, Stages
<1>9. CASE ArchiveMain
  <2>1. FreeSlot \in Slots
    BY <1>9, FreeSlotIsFree DEF ArchiveMain
  <2>2. archives' \in [Slots -> [main : Databases, wal : Databases]]
    BY <1>1, <1>9, <2>1 DEF ArchiveMain
  <2> QED
    BY <1>1, <1>2, <1>9, <2>1, <2>2 DEF ArchiveMain, RescueTypes, Stages
<1>10. CASE ArchiveWal
  <2>1. archives' \in [Slots -> [main : Databases, wal : Databases]]
    BY <1>1, <1>10 DEF ArchiveWal
  <2> QED
    BY <1>1, <1>2, <1>10, <2>1 DEF ArchiveWal, RescueTypes, Stages
<1>11. CASE Commit
  <2>1. commits' \in Nat
    BY <1>1, <1>11 DEF Commit
  <2>2. wal' \in Databases
    BY <1>1, <1>11 DEF Commit, Databases
  <2> QED
    BY <1>1, <1>11, <2>1, <2>2 DEF Commit, RescueTypes
<1>12. CASE Checkpoint
  <2>1. main' \in Databases
    BY <1>1, <1>12 DEF Checkpoint, Databases
  <2> QED
    BY <1>1, <1>2, <1>12, <2>1 DEF Checkpoint, RescueTypes
<1> QED
  BY <1>3, <1>4, <1>5, <1>6, <1>7, <1>8, <1>9, <1>10, <1>11, <1>12 DEF RescueNext

\* A database is opened in the launch that made it or found it.
LEMMA RescueFilesStep ==
  ASSUME RescueInv, RescueNext
  PROVE  FilesAreOfALaunch'
<1>1. /\ main \in Databases /\ binary \in Nat /\ launches \in 0 .. MaxLaunches
      /\ dbStage \in Stages /\ NoFile.gen = 0
  BY DEF RescueInv, RescueTypes, NoFile
<1>2. /\ main # NoFile => main.gen # 0
      /\ dbStage # "down" => launches # 0
      /\ dbStage \in {"archive", "up"} => main # NoFile
      /\ dbStage \in {"archive_wal", "retry"} => main = NoFile
  BY DEF RescueInv, FilesAreOfALaunch
<1>3. CASE UNCHANGED <<main, dbStage, launches>> \/ AppEnds
  BY <1>1, <1>2, <1>3 DEF AppEnds, FilesAreOfALaunch
<1>4. CASE StartApp
  <2>1. launches' # 0
    BY <1>1, <1>4, RescueAssumption DEF StartApp, RescueAssumption
  <2> QED
    BY <1>2, <1>4, <2>1 DEF StartApp, FilesAreOfALaunch
<1>5. CASE OpenDb
  <2>1. Opened.gen # 0
    BY <1>2, <1>5 DEF OpenDb, Opened
  <2>2. main'.gen = Opened.gen
    <3>1. Opened \in Databases
      BY <1>1, RescueAssumption DEF Opened, Databases, RescueAssumption
    <3> QED
      BY <1>5, <3>1 DEF OpenDb, Databases
  <2> QED
    BY <1>1, <1>2, <1>5, <2>1, <2>2 DEF OpenDb, FilesAreOfALaunch
<1>6. CASE MigrateFails
  BY <1>2, <1>6 DEF MigrateFails, FilesAreOfALaunch
<1>7. CASE ArchiveMain \/ ArchiveWal
  BY <1>2, <1>7 DEF ArchiveMain, ArchiveWal, FilesAreOfALaunch
<1>8. CASE Checkpoint
  <2>1. main'.gen = main.gen
    BY <1>1, <1>8 DEF Checkpoint, Databases
  <2> QED
    BY <1>1, <1>2, <1>8, <2>1 DEF Checkpoint, FilesAreOfALaunch
<1> QED
  BY <1>3, <1>4, <1>5, <1>6, <1>7, <1>8 DEF RescueNext, InstallVersion, SecondPasses, Commit

\* A launch makes one archive at most, under the next name of its second.
LEMMA RescueOrderStep ==
  ASSUME RescueInv, RescueNext
  PROVE  ArchivesInOrder'
<1>1. /\ main \in Databases /\ wal \in Databases
      /\ archives \in [Slots -> [main : Databases, wal : Databases]]
      /\ dbStage \in Stages /\ slot \in Slots
      /\ second \in 0 .. MaxSeconds /\ launches \in 0 .. MaxLaunches /\ MaxLaunches \in Nat
  BY RescueAssumption DEF RescueInv, RescueTypes, RescueAssumption
<1>2. /\ \A s \in Slots : archives[s].main = NoFile => archives[s].wal = NoFile
      /\ dbStage = "archive_wal" => archives[slot].main # NoFile
      /\ \A t \in 0 .. MaxSeconds : \E k \in 0 .. launches :
           /\ \A n \in 1 .. MaxLaunches : archives[<<t, n>>].main # NoFile <=> n <= k
           /\ dbStage \in {"opening", "archive"} => k < launches
  BY DEF RescueInv, ArchivesInOrder
<1>3. CASE /\ UNCHANGED <<archives, launches, slot>>
           /\ dbStage' \in {"opening", "archive"} => dbStage \in {"opening", "archive"}
           /\ dbStage' = "archive_wal" => dbStage = "archive_wal"
  BY <1>2, <1>3 DEF ArchivesInOrder
<1>4. CASE StartApp
  <2>1. /\ archives' = archives /\ launches' = launches + 1 /\ dbStage' = "opening"
        /\ \A k \in 0 .. launches : k \in 0 .. launches' /\ k < launches'
    BY <1>1, <1>4 DEF StartApp
  <2> QED
    BY <1>2, <2>1 DEF ArchivesInOrder
<1>5. CASE ArchiveMain
  <2>1. /\ archives' = [archives EXCEPT ![FreeSlot].main = main] /\ launches' = launches
        /\ dbStage' = "archive_wal" /\ slot' = FreeSlot /\ main # NoFile
    BY <1>5 DEF ArchiveMain, RescueInv, FilesAreOfALaunch
  <2>2. PICK k \in 0 .. launches :
           /\ FreeSlot = <<second, k + 1>> /\ k < launches
           /\ \A n \in 1 .. MaxLaunches : archives[<<second, n>>].main # NoFile <=> n <= k
    BY <1>5, FreeSlotIsFree DEF ArchiveMain
  <2>3. FreeSlot \in Slots
    BY <1>5, FreeSlotIsFree DEF ArchiveMain
  <2>4. archives'[FreeSlot].main = main /\ \A s \in Slots \ {FreeSlot} : archives'[s] = archives[s]
    BY <1>1, <2>1, <2>3
  <2>5. k + 1 \in 0 .. launches /\ \A n \in 1 .. MaxLaunches : n <= k + 1 <=> n <= k \/ n = k + 1
    BY <1>1, <2>2
  <2>6. \A n \in 1 .. MaxLaunches : archives'[<<second, n>>].main # NoFile <=> n <= k + 1
    <3> SUFFICES ASSUME NEW n \in 1 .. MaxLaunches
                 PROVE  archives'[<<second, n>>].main # NoFile <=> n <= k + 1
      OBVIOUS
    <3>1. CASE n = k + 1
      BY <1>1, <2>1, <2>2, <2>4, <2>5, <3>1
    <3>2. CASE n # k + 1
      <4>1. <<second, n>> \in Slots /\ <<second, n>> # FreeSlot
        BY <1>1, <2>2, <3>2, NamesAreFree
      <4> QED
        BY <2>2, <2>4, <2>5, <3>2, <4>1
    <3> QED
      BY <3>1, <3>2
  <2>7. ASSUME NEW t \in 0 .. MaxSeconds, t # second
        PROVE  \A n \in 1 .. MaxLaunches : archives'[<<t, n>>].main = archives[<<t, n>>].main
    <3>1. \A n \in 1 .. MaxLaunches : <<t, n>> \in Slots /\ <<t, n>> # FreeSlot
      BY <1>1, <2>2, <2>7, NamesAreFree
    <3> QED
      BY <2>4, <3>1
  <2>8. \A t \in 0 .. MaxSeconds : \E j \in 0 .. launches :
           \A n \in 1 .. MaxLaunches : archives'[<<t, n>>].main # NoFile <=> n <= j
    BY <1>2, <2>5, <2>6, <2>7
  <2>9. \A s \in Slots : archives'[s].main = NoFile => archives'[s].wal = NoFile
    BY <1>2, <2>1, <2>4
  <2> QED
    BY <2>1, <2>4, <2>8, <2>9 DEF ArchivesInOrder
<1>6. CASE ArchiveWal
  <2>1. /\ archives' = [archives EXCEPT ![slot].wal = wal] /\ launches' = launches
        /\ dbStage' = "retry" /\ dbStage = "archive_wal"
    BY <1>6 DEF ArchiveWal
  <2>2. \A s \in Slots : archives'[s].main = archives[s].main
    BY <1>1, <2>1
  <2>3. \A t \in 0 .. MaxSeconds, n \in 1 .. MaxLaunches :
           archives'[<<t, n>>].main = archives[<<t, n>>].main
    BY <2>2, NamesAreFree
  <2>4. \A s \in Slots \ {slot} : archives'[s] = archives[s]
    BY <1>1, <2>1
  <2>5. archives'[slot].main # NoFile
    BY <1>1, <1>2, <2>1, <2>2
  <2> QED
    BY <1>2, <2>1, <2>2, <2>3, <2>4, <2>5 DEF ArchivesInOrder
<1> QED
  BY <1>3, <1>4, <1>5, <1>6
  DEF RescueNext, InstallVersion, SecondPasses, AppEnds, OpenDb, MigrateFails, Commit, Checkpoint

\* The log is that of the database in use, and goes where its database goes.
LEMMA RescueLogStep ==
  ASSUME RescueInv, RescueNext
  PROVE  LogHasItsPlace'
<1>1. /\ main \in Databases /\ wal \in Databases
      /\ archives \in [Slots -> [main : Databases, wal : Databases]]
      /\ dbStage \in Stages /\ slot \in Slots /\ halfMoved \in BOOLEAN
      /\ launches \in Nat /\ binary \in Nat /\ NoFile.gen = 0
  BY RescueAssumption DEF RescueInv, RescueTypes, NoFile, RescueAssumption
<1>2. /\ main # NoFile => main.gen # 0
      /\ dbStage \in {"archive", "up"} => main # NoFile
      /\ dbStage \in {"archive_wal", "retry"} => main = NoFile
  BY DEF RescueInv, FilesAreOfALaunch
<1>3. halfMoved => halfMoved'
  BY DEF RescueNext, InstallVersion, SecondPasses, StartApp, AppEnds, OpenDb, MigrateFails, ArchiveMain,
         ArchiveWal, Commit, Checkpoint
<1> SUFFICES ASSUME ~halfMoved'
             PROVE  /\ dbStage' = "archive_wal" =>
                         /\ archives'[slot'].wal = NoFile
                         /\ wal' # NoFile => wal'.gen = archives'[slot'].main.gen
                    /\ dbStage' # "archive_wal" /\ wal' # NoFile =>
                         wal'.gen = main'.gen /\ main' # NoFile
  BY DEF LogHasItsPlace
<1>4. /\ dbStage = "archive_wal" =>
           /\ archives[slot].wal = NoFile
           /\ wal # NoFile => wal.gen = archives[slot].main.gen
      /\ dbStage # "archive_wal" /\ wal # NoFile => wal.gen = main.gen /\ main # NoFile
  BY <1>3 DEF RescueInv, LogHasItsPlace
<1>5. CASE InstallVersion \/ SecondPasses \/ StartApp \/ MigrateFails
  BY <1>4, <1>5 DEF InstallVersion, SecondPasses, StartApp, MigrateFails
<1>6. CASE AppEnds
  BY <1>4, <1>6 DEF AppEnds
<1>7. CASE OpenDb
  <2>1. /\ dbStage # "archive_wal" /\ dbStage' = "up" /\ wal' = wal
        /\ main' = [Opened EXCEPT !.schema = binary]
    BY <1>7 DEF OpenDb
  <2>2. CASE wal # NoFile
    <3>1. Opened = main /\ main # NoFile /\ wal.gen = main.gen
      BY <1>4, <2>1, <2>2 DEF Opened
    <3>2. main'.gen = main.gen
      BY <1>1, <2>1, <3>1 DEF Databases
    <3> QED
      BY <1>1, <1>2, <2>1, <3>1, <3>2
  <2> QED
    BY <2>1, <2>2
<1>8. CASE ArchiveMain
  <2>1. /\ slot' = FreeSlot /\ archives' = [archives EXCEPT ![FreeSlot].main = main]
        /\ dbStage = "archive" /\ dbStage' = "archive_wal" /\ wal' = wal
    BY <1>8 DEF ArchiveMain
  <2>2. FreeSlot \in Slots /\ archives[FreeSlot].wal = NoFile
    BY <2>1, FreeSlotIsFree
  <2>3. archives'[FreeSlot].main = main /\ archives'[FreeSlot].wal = NoFile
    BY <1>1, <2>1, <2>2
  <2> QED
    BY <1>4, <2>1, <2>3
<1>9. CASE ArchiveWal
  BY <1>9 DEF ArchiveWal
<1>10. CASE Commit
  <2>1. dbStage' = dbStage /\ dbStage = "up" /\ main' = main /\ wal'.gen = main.gen
    BY <1>10 DEF Commit
  <2> QED
    BY <1>2, <2>1
<1>11. CASE Checkpoint
  BY <1>11 DEF Checkpoint
<1> QED
  BY <1>5, <1>6, <1>7, <1>8, <1>9, <1>10, <1>11 DEF RescueNext

\* A commit goes with its log, into the database, or with both into the archive.
LEMMA RescueCommitsStep ==
  ASSUME RescueInv, RescueNext
  PROVE  CommitsAreSomewhere'
<1>1. /\ main \in Databases /\ wal \in Databases
      /\ archives \in [Slots -> [main : Databases, wal : Databases]]
      /\ dbStage \in Stages /\ slot \in Slots /\ halfMoved \in BOOLEAN /\ commits \in Nat
      /\ NoFile.gen = 0 /\ NoFile.commits = {}
  BY DEF RescueInv, RescueTypes, NoFile
<1>2. /\ main # NoFile => main.gen # 0
      /\ dbStage \in {"archive", "up"} => main # NoFile
      /\ dbStage \in {"archive_wal", "retry"} => main = NoFile
  BY DEF RescueInv, FilesAreOfALaunch
<1>3. halfMoved => halfMoved'
  BY DEF RescueNext, InstallVersion, SecondPasses, StartApp, AppEnds, OpenDb, MigrateFails, ArchiveMain,
         ArchiveWal, Commit, Checkpoint
<1> DEFINE Waiting == IF dbStage = "archive_wal" THEN wal.commits ELSE {}
<1> SUFFICES ASSUME ~halfMoved'
             PROVE  1 .. commits' = Readable(main', wal') \cup InArchives' \cup Waiting'
  BY DEF CommitsAreSomewhere
<1>4. 1 .. commits = Readable(main, wal) \cup InArchives \cup Waiting
  BY <1>3 DEF RescueInv, CommitsAreSomewhere
<1>5. /\ dbStage = "archive_wal" =>
           /\ archives[slot].wal = NoFile
           /\ wal # NoFile => wal.gen = archives[slot].main.gen
      /\ dbStage # "archive_wal" /\ wal # NoFile => wal.gen = main.gen /\ main # NoFile
  BY <1>3 DEF RescueInv, LogHasItsPlace
<1>6. \A x : x \in InArchives <=> \E s \in Slots : x \in Readable(archives[s].main, archives[s].wal)
  BY DEF InArchives
<1>7. \A x : x \in InArchives' <=> \E s \in Slots : x \in Readable(archives'[s].main, archives'[s].wal)
  BY DEF InArchives
<1>8. \A m : Readable(m, NoFile) = m.commits
  BY <1>1 DEF Readable
<1>9. archives' = archives => InArchives' = InArchives
  BY DEF InArchives
<1>10. CASE InstallVersion \/ SecondPasses \/ StartApp \/ MigrateFails
  <2>1. /\ UNCHANGED <<main, wal, archives, commits>>
        /\ dbStage' = "archive_wal" <=> dbStage = "archive_wal"
    BY <1>10 DEF InstallVersion, SecondPasses, StartApp, MigrateFails
  <2> QED
    BY <1>4, <1>9, <2>1
<1>11. CASE AppEnds
  <2>1. /\ UNCHANGED <<main, wal, archives, commits>> /\ dbStage' = "down"
        /\ dbStage = "archive_wal" => wal = NoFile
    BY <1>11 DEF AppEnds
  <2> QED
    BY <1>1, <1>4, <1>9, <2>1
<1>12. CASE OpenDb
  <2>1. /\ main' = [Opened EXCEPT !.schema = binary] /\ UNCHANGED <<wal, archives, commits>>
        /\ dbStage' = "up" /\ dbStage # "archive_wal"
    BY <1>12 DEF OpenDb
  <2>2. Readable(main', wal) = Readable(main, wal)
    <3>1. CASE main # NoFile
      <4>1. main'.gen = main.gen /\ main'.commits = main.commits
        BY <1>1, <2>1, <3>1 DEF Opened, Databases
      <4> QED
        BY <4>1 DEF Readable
    <3>2. CASE main = NoFile
      <4>1. main'.commits = {}
        BY <2>1, <3>2 DEF Opened
      <4>2. wal = NoFile
        BY <1>5, <2>1, <3>2
      <4> QED
        BY <1>1, <1>8, <3>2, <4>1, <4>2
    <3> QED
      BY <3>1, <3>2
  <2> QED
    BY <1>4, <1>9, <2>1, <2>2
<1>13. CASE ArchiveMain
  <2>1. /\ archives' = [archives EXCEPT ![FreeSlot].main = main] /\ main' = NoFile
        /\ UNCHANGED <<wal, commits>> /\ dbStage = "archive" /\ dbStage' = "archive_wal"
    BY <1>13 DEF ArchiveMain
  <2>2. FreeSlot \in Slots /\ archives[FreeSlot].main = NoFile /\ archives[FreeSlot].wal = NoFile
    BY <2>1, FreeSlotIsFree
  <2>3. /\ archives'[FreeSlot].main = main /\ archives'[FreeSlot].wal = NoFile
        /\ \A s \in Slots \ {FreeSlot} : archives'[s] = archives[s]
    BY <1>1, <2>1, <2>2
  <2>4. Readable(archives[FreeSlot].main, archives[FreeSlot].wal) = {}
    BY <1>1, <1>8, <2>2
  <2>5. Readable(archives'[FreeSlot].main, archives'[FreeSlot].wal) = main.commits
    BY <1>8, <2>3
  <2>6. \A x : x \in InArchives' <=> x \in InArchives \/ x \in main.commits
    BY <1>6, <1>7, <2>2, <2>3, <2>4, <2>5
  <2>7. Readable(main, wal) = main.commits \cup wal.commits
    BY <1>1, <1>5, <2>1 DEF Readable
  <2>8. Readable(main', wal') \subseteq wal.commits
    BY <1>1, <2>1 DEF Readable
  <2>9. Waiting = {} /\ Waiting' = wal.commits
    BY <2>1
  <2> HIDE DEF Waiting
  <2> QED
    BY <1>4, <2>1, <2>6, <2>7, <2>8, <2>9
<1>14. CASE ArchiveWal
  <2>1. /\ archives' = [archives EXCEPT ![slot].wal = wal] /\ wal' = NoFile
        /\ UNCHANGED <<main, commits>> /\ dbStage = "archive_wal" /\ dbStage' = "retry"
    BY <1>14 DEF ArchiveWal
  <2>2. /\ archives'[slot].main = archives[slot].main /\ archives'[slot].wal = wal
        /\ \A s \in Slots \ {slot} : archives'[s] = archives[s]
    BY <1>1, <2>1
  <2>3. Readable(archives[slot].main, archives[slot].wal) = archives[slot].main.commits
    BY <1>5, <1>8, <2>1
  <2>4. Readable(archives'[slot].main, archives'[slot].wal) = archives[slot].main.commits \cup wal.commits
    BY <1>1, <1>5, <2>1, <2>2 DEF Readable
  <2>5. \A x : x \in InArchives' <=> x \in InArchives \/ x \in wal.commits
    BY <1>1, <1>6, <1>7, <2>2, <2>3, <2>4
  <2>6. Readable(main, wal) \subseteq wal.commits /\ Readable(main', wal') = {}
    BY <1>1, <1>2, <1>8, <2>1 DEF Readable
  <2>7. Waiting = wal.commits /\ Waiting' = {}
    BY <2>1
  <2> HIDE DEF Waiting
  <2> QED
    BY <1>4, <2>1, <2>5, <2>6, <2>7
<1>15. CASE Commit
  <2> DEFINE log == IF wal.gen = main.gen THEN wal.commits ELSE {}
  <2>1. /\ commits' = commits + 1 /\ wal' = [gen |-> main.gen, schema |-> 0, commits |-> log \cup {commits + 1}]
        /\ UNCHANGED <<main, archives>> /\ dbStage = "up" /\ dbStage' = "up"
    BY <1>15 DEF Commit
  <2>2. Readable(main, wal) = main.commits \cup log
    BY DEF Readable
  <2>3. Readable(main', wal') = main.commits \cup log \cup {commits + 1}
    BY <2>1 DEF Readable
  <2>4. 1 .. commits' = (1 .. commits) \cup {commits + 1}
    BY <1>1, <2>1
  <2>5. Waiting = {} /\ Waiting' = {}
    BY <2>1
  <2> HIDE DEF log, Waiting
  <2> QED
    BY <1>4, <1>9, <2>1, <2>2, <2>3, <2>4, <2>5
<1>16. CASE Checkpoint
  <2>1. /\ main' = [main EXCEPT !.commits = @ \cup wal.commits] /\ wal' = NoFile
        /\ UNCHANGED <<archives, commits>> /\ wal.gen = main.gen /\ dbStage = "up" /\ dbStage' = "up"
    BY <1>16 DEF Checkpoint
  <2>2. Readable(main, wal) = main.commits \cup wal.commits
    BY <2>1 DEF Readable
  <2>3. main'.commits = main.commits \cup wal.commits
    BY <1>1, <2>1 DEF Databases
  <2>4. Readable(main', wal') = main.commits \cup wal.commits
    BY <1>8, <2>1, <2>3
  <2> QED
    BY <1>4, <1>9, <2>1, <2>2, <2>4
<1> QED
  BY <1>10, <1>11, <1>12, <1>13, <1>14, <1>15, <1>16 DEF RescueNext

\* Every launch, commit, rename and crash keeps the invariant.
LEMMA RescueStep == RescueInv /\ [RescueNext]_rescueVars => RescueInv'
<1>1. RescueInv /\ RescueNext => RescueInv'
  BY RescueTypesStep, RescueFilesStep, RescueOrderStep, RescueLogStep, RescueCommitsStep DEF RescueInv
<1>2. RescueInv /\ UNCHANGED rescueVars => RescueInv'
  BY DEF rescueVars, RescueInv, RescueTypes, FilesAreOfALaunch, ArchivesInOrder, LogHasItsPlace,
         CommitsAreSomewhere, InArchives
<1> QED
  BY <1>1, <1>2

\* The promise of the rescue is a consequence of its invariant.
LEMMA RescueKeeps == RescueInv => RescueKeepsEverything
<1> SUFFICES ASSUME RescueInv PROVE RescueKeepsEverything
  OBVIOUS
<1>1. EveryCommitIsKept
  BY DEF RescueInv, CommitsAreSomewhere, InArchives, EveryCommitIsKept
<1>2. LogMatchesDatabase
  BY DEF RescueInv, LogHasItsPlace, LogMatchesDatabase
<1> QED
  BY <1>1, <1>2 DEF RescueKeepsEverything

\* The rescue of a database, for any versions, commits and launches: RescueKeepsEverything.
THEOREM RescuesLoseNothing == RescueSpec => []RescueKeepsEverything
BY RescueStart, RescueStep, RescueKeeps, PTL DEF RescueSpec

-----------------------------------------------------------------------------
(* The analyzer: the walk over a history.                                  *)

\* The record of a chunk, and where the next one starts.
ChunkEnd(from, until, size) == IF from + size < until THEN from + size ELSE until

\* What walk is at one place, given what it is at the later ones.
WalkAt(w, from, until, size) ==
    IF from < until
    THEN <<[from |-> from, to |-> ChunkEnd(from, until, size)]>> \o w[ChunkEnd(from, until, size)]
    ELSE <<>>

\* There is a function as walk is defined to be.
LEMMA WalkExists ==
    ASSUME NEW until \in Nat, NEW size \in Nat \ {0}
    PROVE  \E w : w = [from \in 0..until |-> WalkAt(w, from, until, size)]
<1> DEFINE Is(w, d) == w = [from \in (until - d)..until |-> WalkAt(w, from, until, size)]
           T == {d \in Nat : d <= until => \E w : Is(w, d)}
<1>1. 0 \in T
    <2> DEFINE v == [from \in (until - 0)..until |-> <<>>]
    <2>1. Is(v, 0)
        <3>1. \A from \in (until - 0)..until : ~(from < until)
            OBVIOUS
        <3> QED
            BY <3>1 DEF WalkAt
    <2> HIDE DEF v, Is
    <2> QED
        BY <2>1
<1>2. ASSUME NEW d \in T PROVE d + 1 \in T
    <2> SUFFICES ASSUME d + 1 <= until PROVE \E w : Is(w, d + 1)
        BY <1>2
    <2>1. d \in Nat /\ d <= until
        BY <1>2
    <2>2. PICK w : Is(w, d)
        BY <1>2, <2>1
    <2> DEFINE here == until - (d + 1)
               v == [from \in here..until |-> IF from = here THEN WalkAt(w, here, until, size) ELSE w[from]]
    <2>3. here \in Nat /\ here < until /\ until - d = here + 1
        BY <2>1
    <2>4. ASSUME NEW from \in here..until PROVE v[from] = WalkAt(v, from, until, size)
        <3>1. from < until => /\ ChunkEnd(from, until, size) \in (here + 1)..until
                              /\ v[ChunkEnd(from, until, size)] = w[ChunkEnd(from, until, size)]
            <4>1. from < until => ChunkEnd(from, until, size) \in (here + 1)..until
                BY <2>3 DEF ChunkEnd
            <4>2. \A t \in (here + 1)..until : t \in here..until /\ t # here
                BY <2>3
            <4> QED
                BY <4>1, <4>2
        <3>2. WalkAt(v, from, until, size) = WalkAt(w, from, until, size)
            BY <3>1 DEF WalkAt
        <3>3. CASE from = here
            BY <3>2, <3>3
        <3>4. CASE from # here
            <4>1. from \in (until - d)..until
                BY <2>3, <3>4
            <4>2. w[from] = WalkAt(w, from, until, size)
                BY <2>2, <4>1
            <4> QED
                BY <3>2, <3>4, <4>2
        <3> QED
            BY <3>3, <3>4
    <2>5. v = [from \in here..until |-> v[from]]
        OBVIOUS
    <2> HIDE DEF v
    <2>6. Is(v, d + 1)
        BY <2>4, <2>5
    <2> QED
        BY <2>6
<1> HIDE DEF Is
<1>3. T = Nat
    <2>1. T \in SUBSET Nat
        OBVIOUS
    <2> HIDE DEF T
    <2> QED
        BY <1>1, <1>2, <2>1, Induction
<1>4. \E w : Is(w, until)
    BY <1>3
<1> QED
    BY <1>4 DEF Is

\* And this is what walk is.
LEMMA WalkDefined ==
    ASSUME NEW until \in Nat, NEW size \in Nat \ {0}
    PROVE  \E w : /\ w = [from \in 0..until |-> WalkAt(w, from, until, size)]
                  /\ BackfillChunks(0, until, size) = w[0]
<1> DEFINE w == CHOOSE w : w = [from \in 0..until |-> WalkAt(w, from, until, size)]
<1>1. w = [from \in 0..until |-> WalkAt(w, from, until, size)]
    BY WalkExists, Zenon
<1>2. BackfillChunks(0, until, size) = w[0]
    BY DEF BackfillChunks, WalkAt, ChunkEnd
<1> QED
    BY <1>1, <1>2

\* Counting whole pieces: none in less than one, and one more for each piece more.
LEMMA Divisions ==
    ASSUME NEW size \in Nat \ {0}
    PROVE  /\ \A n \in Nat : n < size => n \div size = 0
           /\ \A n \in Nat : (n + size) \div size = (n \div size) + 1
OBVIOUS

\* As many pieces as it takes from a second on, and each later second in exactly one.
Partitions(pieces, begin, until, size) ==
    /\ pieces \in Seq([from : Nat, to : Nat])
    /\ Len(pieces) = (until - begin + size - 1) \div size
    /\ \A t \in begin..until - 1 : \E i \in 1..Len(pieces) : \A j \in 1..Len(pieces) :
          (pieces[j].from <= t /\ t < pieces[j].to) <=> j = i

\* The recursive walk of the backfill partitions the span from any of its starts.
LEMMA ChunksPartition ==
    ASSUME NEW until \in Nat, NEW size \in Nat \ {0}, NEW w,
           w = [from \in 0..until |-> WalkAt(w, from, until, size)],
           NEW begin \in 0..until
    PROVE  Partitions(w[begin], begin, until, size)
<1> DEFINE Chunks == [from : Nat, to : Nat]
           In(c, t) == c.from <= t /\ t < c.to
           Whole(from) ==
              /\ w[from] \in Seq(Chunks)
              /\ Len(w[from]) = (until - from + size - 1) \div size
              /\ \A i \in 1..Len(w[from]) : w[from][i].from >= from
              /\ \A t \in from..until - 1 : \E i \in 1..Len(w[from]) :
                    \A j \in 1..Len(w[from]) : In(w[from][j], t) <=> j = i
           T == {d \in Nat : \A from \in 0..until : until - from <= d => Whole(from)}
<1>1. \A from \in 0..until : w[from] = WalkAt(w, from, until, size)
    OBVIOUS
<1>2. Whole(until)
    <2>1. w[until] = <<>>
        BY <1>1 DEF WalkAt
    <2>2. (until - until + size - 1) \div size = 0
        <3>1. until - until + size - 1 = size - 1 /\ size - 1 \in Nat /\ size - 1 < size
            OBVIOUS
        <3> QED
            BY <3>1, Divisions
    <2>3. \A t : ~(t \in until..until - 1)
        OBVIOUS
    <2>4. Len(<<>>) = 0 /\ <<>> \in Seq(Chunks) /\ \A i : ~(i \in 1..0)
        OBVIOUS
    <2> QED
        BY <2>1, <2>2, <2>3, <2>4
<1>3. ASSUME NEW from \in 0..until, from < until, Whole(ChunkEnd(from, until, size))
      PROVE  Whole(from)
    <2> DEFINE to == ChunkEnd(from, until, size)
               c == [from |-> from, to |-> to]
               rest == w[to]
               all == w[from]
    <2>1. to \in 0..until /\ from < to /\ from \in Nat /\ to \in Nat
        BY <1>3 DEF ChunkEnd
    <2>2. all = <<c>> \o rest
        BY <1>1, <1>3 DEF WalkAt
    <2>3. Whole(to)
        BY <1>3
    <2>4. c \in Chunks /\ c.from = from /\ c.to = to
        BY <2>1
    <2>5. (until - from + size - 1) \div size = (until - to + size - 1) \div size + 1
        <3>1. CASE from + size < until
            <4>1. /\ to = from + size
                  /\ until - to + size - 1 \in Nat
                  /\ until - from + size - 1 = (until - to + size - 1) + size
                BY <2>1, <3>1 DEF ChunkEnd
            <4> QED
                BY <4>1, Divisions
        <3>2. CASE ~(from + size < until)
            <4>1. to = until
                BY <3>2 DEF ChunkEnd
            <4>2. /\ until - until + size - 1 = size - 1 /\ size - 1 \in Nat /\ size - 1 < size
                  /\ until - from - 1 \in Nat /\ until - from - 1 < size
                  /\ until - from + size - 1 = (until - from - 1) + size
                <5>1. from \in Nat /\ from < until /\ until <= from + size
                    BY <1>3, <3>2
                <5> QED
                    BY <5>1
            <4>3. (size - 1) \div size = 0 /\ ((until - from - 1) + size) \div size = 0 + 1
                BY <4>2, Divisions
            <4> QED
                BY <4>1, <4>2, <4>3
        <3> QED
            BY <3>1, <3>2
    <2> HIDE DEF to, rest, all, c, Chunks, In
    <2>6. <<c>> \in Seq(Chunks) /\ Len(<<c>>) = 1 /\ <<c>>[1] = c
        BY <2>4
    <2>7. /\ rest \in Seq(Chunks) /\ Len(rest) \in Nat
          /\ Len(rest) = (until - to + size - 1) \div size
          /\ \A i \in 1..Len(rest) : rest[i].from >= to /\ rest[i] \in Chunks
          /\ \A t \in to..until - 1 : \E i \in 1..Len(rest) :
                \A j \in 1..Len(rest) : In(rest[j], t) <=> j = i
        BY <2>3, LenProperties DEF rest
    <2>8. /\ all \in Seq(Chunks) /\ Len(all) = Len(rest) + 1
          /\ all[1] = c
          /\ \A i \in 1..Len(rest) : all[i + 1] = rest[i]
        <3>1. /\ Len(all) = 1 + Len(rest) /\ all \in Seq(Chunks)
              /\ \A i \in 1..Len(all) : all[i] = IF i <= 1 THEN <<c>>[i] ELSE rest[i - 1]
            BY <2>2, <2>6, <2>7, ConcatProperties
        <3>2. \A i \in 1..Len(rest) :
                 i + 1 \in 1..Len(all) /\ ~(i + 1 <= 1) /\ (i + 1) - 1 = i
            BY <2>7, <3>1
        <3>3. 1 \in 1..Len(all)
            BY <2>7, <3>1
        <3> QED
            BY <2>6, <2>7, <3>1, <3>2, <3>3
    <2>9. \A i \in 1..Len(all) : i = 1 \/ (i - 1 \in 1..Len(rest) /\ all[i] = rest[i - 1])
        <3>1. \A i \in 1..Len(all) : i # 1 => i - 1 \in 1..Len(rest) /\ (i - 1) + 1 = i
            BY <2>7, <2>8
        <3> QED
            BY <2>8, <3>1
    <2>10. \A i \in 1..Len(rest) : rest[i].from \in Nat
        BY <2>7 DEF Chunks
    <2>11. ASSUME NEW i \in 1..Len(all) PROVE all[i].from >= from
        <3>1. CASE i = 1
            BY <2>1, <2>4, <2>8, <3>1
        <3>2. CASE i # 1
            <4>1. i - 1 \in 1..Len(rest) /\ all[i] = rest[i - 1]
                BY <2>9, <3>2
            <4>2. rest[i - 1].from \in Nat /\ rest[i - 1].from >= to
                BY <2>7, <2>10, <4>1
            <4> QED
                BY <2>1, <4>1, <4>2
        <3> QED
            BY <3>1, <3>2
    <2>12. ASSUME NEW t \in from..until - 1
           PROVE  \E i \in 1..Len(all) : \A j \in 1..Len(all) : In(all[j], t) <=> j = i
        <3>1. CASE t < to
            <4>1. 1 \in 1..Len(all) /\ In(all[1], t)
                BY <2>4, <2>7, <2>8, <3>1 DEF In
            <4>2. \A j \in 1..Len(all) : j # 1 => ~In(all[j], t)
                BY <2>1, <2>7, <2>9, <2>10, <3>1 DEF In
            <4> QED
                BY <4>1, <4>2
        <3>2. CASE t >= to
            <4>1. t \in to..until - 1
                BY <2>1, <3>2
            <4>2. PICK i \in 1..Len(rest) : \A j \in 1..Len(rest) : In(rest[j], t) <=> j = i
                BY <2>7, <4>1
            <4>3. i + 1 \in 1..Len(all) /\ ~In(all[1], t)
                <5>1. i + 1 \in 1..Len(all)
                    BY <2>7, <2>8
                <5>2. ~(t < c.to)
                    BY <2>1, <2>4, <3>2
                <5> QED
                    BY <2>8, <5>1, <5>2 DEF In
            <4>4. ASSUME NEW j \in 1..Len(all) PROVE In(all[j], t) <=> j = i + 1
                <5>1. CASE j = 1
                    BY <4>3, <5>1
                <5>2. CASE j # 1
                    <6>1. j - 1 \in 1..Len(rest) /\ all[j] = rest[j - 1]
                        BY <2>9, <5>2
                    <6>2. In(rest[j - 1], t) <=> j - 1 = i
                        BY <4>2, <6>1
                    <6> QED
                        BY <6>1, <6>2
                <5> QED
                    BY <5>1, <5>2
            <4> QED
                BY <4>3, <4>4
        <3> QED
            BY <2>1, <3>1, <3>2
    <2>13. Len(all) = (until - from + size - 1) \div size
        BY <2>5, <2>7, <2>8
    <2> QED
        BY <2>8, <2>11, <2>12, <2>13 DEF all
<1> HIDE DEF Whole
<1>4. 0 \in T
    BY <1>2
<1>5. ASSUME NEW d \in T PROVE d + 1 \in T
    <2> SUFFICES ASSUME NEW from \in 0..until, until - from <= d + 1 PROVE Whole(from)
        BY <1>5
    <2>1. CASE from = until
        BY <1>2, <2>1
    <2>2. CASE from < until
        <3>1. ChunkEnd(from, until, size) \in 0..until /\ until - ChunkEnd(from, until, size) <= d
            BY <1>5, <2>2 DEF ChunkEnd
        <3>2. Whole(ChunkEnd(from, until, size))
            BY <1>5, <3>1
        <3> QED
            BY <1>3, <2>2, <3>2
    <2> QED
        BY <2>1, <2>2
<1>6. T = Nat
    <2>1. T \in SUBSET Nat
        OBVIOUS
    <2> HIDE DEF T
    <2> QED
        BY <1>4, <1>5, <2>1, Induction
<1>7. Whole(begin)
    <2>1. until - begin \in Nat
        OBVIOUS
    <2>2. until - begin \in T
        BY <1>6, <2>1
    <2> QED
        BY <2>1, <2>2
<1> QED
    BY <1>7 DEF Whole, Partitions

\* A walk, of any length in pieces of any length: as many pieces as announced, and every
\* second in exactly one of them.
THEOREM BackfillWalks ==
    \A until \in Nat, size \in Nat \ {0} :
       LET pieces == BackfillChunks(0, until, size) IN
       /\ Len(pieces) = BackfillTotal(0, until, size)
       /\ \A t \in 0..until - 1 :
             Cardinality({i \in DOMAIN pieces : pieces[i].from <= t /\ t < pieces[i].to}) = 1
<1> SUFFICES ASSUME NEW until \in Nat, NEW size \in Nat \ {0}
             PROVE  LET pieces == BackfillChunks(0, until, size) IN
                    /\ Len(pieces) = BackfillTotal(0, until, size)
                    /\ \A t \in 0..until - 1 :
                          Cardinality({i \in DOMAIN pieces : pieces[i].from <= t /\ t < pieces[i].to}) = 1
    OBVIOUS
<1> DEFINE pieces == BackfillChunks(0, until, size)
<1>1. PICK w : /\ w = [from \in 0..until |-> WalkAt(w, from, until, size)]
               /\ pieces = w[0]
    BY WalkDefined
<1>2. Partitions(w[0], 0, until, size)
    <2>1. 0 \in 0..until
        OBVIOUS
    <2> QED
        BY <1>1, <2>1, ChunksPartition
<1> HIDE DEF pieces
<1>3. /\ pieces \in Seq([from : Nat, to : Nat])
      /\ Len(pieces) = (until - 0 + size - 1) \div size
      /\ \A t \in 0..until - 1 : \E i \in 1..Len(pieces) : \A j \in 1..Len(pieces) :
            (pieces[j].from <= t /\ t < pieces[j].to) <=> j = i
    BY <1>1, <1>2 DEF Partitions
<1>4. DOMAIN pieces = 1..Len(pieces)
    BY <1>3, LenProperties
<1>5. ASSUME NEW t \in 0..until - 1
      PROVE  Cardinality({i \in DOMAIN pieces : pieces[i].from <= t /\ t < pieces[i].to}) = 1
    <2>1. PICK i \in 1..Len(pieces) : \A j \in 1..Len(pieces) :
             (pieces[j].from <= t /\ t < pieces[j].to) <=> j = i
        BY <1>3
    <2>2. {j \in DOMAIN pieces : pieces[j].from <= t /\ t < pieces[j].to} = {i}
        BY <1>4, <2>1
    <2> QED
        BY <2>2, FS_Singleton
<1> QED
    BY <1>3, <1>5 DEF pieces, BackfillTotal

\* The daemon's chunks cover every span once, whatever the step.
LEMMA Backfills == BackfillPartitions
<1>1. \A until \in 1..MaxSpan : until \in Nat
    BY AnalyzerAssumption DEF AnalyzerAssumption
<1>2. \A size \in 1..MaxSpan + 1 : size \in Nat \ {0}
    BY AnalyzerAssumption DEF AnalyzerAssumption
<1> QED
    BY <1>1, <1>2, BackfillWalks DEF BackfillPartitions

-----------------------------------------------------------------------------
(* The analyzer: the inductive invariant.                                  *)

\* The record of a run, while there is one to be made.
Accounts ==
    /\ {toPush, found, accepted} \subseteq Nat
    /\ tally \in [created : Nat, deduped : Nat, failed : Nat]
    /\ daemon \in {"reading", "asking"} =>
          toPush = 0 /\ found = 0 /\ accepted = 0 /\ tally = NoTally /\ ~cutShort
    /\ daemon \in {"pushing", "recording"} =>
          /\ tally.created + tally.deduped + tally.failed + toPush = found
          /\ tally.created <= accepted /\ accepted <= tally.created + tally.failed
    /\ daemon = "recording" /\ ~cutShort => toPush = 0

\* claude runs while it is asked, or after a daemon that had to be killed; and a daemon
\* told to stop and still there did not hear it.
ClaudeFollows ==
    /\ claudeRuns => daemon = "asking" \/ (daemon = "none" /\ termLost)
    /\ monitor \in {"terminating", "killing"} /\ daemon # "none" => termLost

AnalyzerInv == Accounts /\ ClaudeFollows

\* What was found is pushed, counted or still to come, at every step of a tick.
LEMMA AccountsStep ==
    ASSUME Accounts, AnalyzerNext
    PROVE  Accounts'
<1> USE DEF supervisorVars, processVars, runVars, Daemon
<1>1. /\ toPush \in Nat /\ found \in Nat /\ accepted \in Nat
      /\ tally \in [created : Nat, deduped : Nat, failed : Nat]
      /\ daemon \in {"reading", "asking"} =>
            toPush = 0 /\ found = 0 /\ accepted = 0 /\ tally = NoTally /\ ~cutShort
      /\ daemon \in {"pushing", "recording"} =>
            /\ tally.created + tally.deduped + tally.failed + toPush = found
            /\ tally.created <= accepted /\ accepted <= tally.created + tally.failed
      /\ daemon = "recording" /\ ~cutShort => toPush = 0
    BY DEF Accounts
<1>2. NoTally \in [created : Nat, deduped : Nat, failed : Nat]
      /\ NoTally.created = 0 /\ NoTally.deduped = 0 /\ NoTally.failed = 0
    BY DEF NoTally
<1>3. CASE UNCHANGED runVars /\ (daemon' = daemon \/ daemon' \in {"none", "starting", "fetching", "sleeping"})
    BY <1>1, <1>3 DEF Accounts
<1>4. CASE EnsureConfig
    <2>1. /\ toPush' = 0 /\ found' = 0 /\ accepted' = 0 /\ tally' = NoTally /\ cutShort' = FALSE
          /\ daemon' \in {"reading", "skipping", "none"}
        BY <1>4 DEF EnsureConfig
    <2> QED
        BY <1>2, <2>1 DEF Accounts
<1>5. CASE ReadWindow
    <2>1. UNCHANGED runVars /\ daemon = "reading" /\ daemon' \in {"sleeping", "recording", "asking"}
        BY <1>5 DEF ReadWindow, ReadOutcomes
    <2> QED
        BY <1>1, <1>2, <2>1 DEF Accounts
<1>6. CASE ClaudeAnswers
    <2>1. /\ daemon = "asking" /\ UNCHANGED <<tally, accepted, cutShort>>
          /\ \/ daemon' = "pushing" /\ found' \in 0..MaxFindings /\ toPush' = found'
             \/ daemon' = "recording" /\ UNCHANGED <<found, toPush>>
        BY <1>6 DEF ClaudeAnswers, Findings
    <2>2. \A n \in 0..MaxFindings : n \in Nat
        BY AnalyzerAssumption DEF AnalyzerAssumption
    <2>3. found' \in Nat /\ toPush' \in Nat
        BY <1>1, <2>1, <2>2
    <2>4. \A n \in Nat : 0 + 0 + 0 + n = n
        OBVIOUS
    <2> QED
        BY <1>1, <1>2, <2>1, <2>3, <2>4 DEF Accounts
<1>7. CASE PushFinding
    <2>1. /\ daemon = "pushing" /\ daemon' = "pushing" /\ toPush > 0
          /\ toPush' = toPush - 1 /\ found' = found /\ cutShort' = cutShort
          /\ \/ tally' = [tally EXCEPT !.created = @ + 1] /\ accepted' = accepted + 1
             \/ tally' = [tally EXCEPT !.deduped = @ + 1] /\ accepted' = accepted
             \/ tally' = [tally EXCEPT !.failed = @ + 1] /\ accepted' \in {accepted, accepted + 1}
        BY <1>7 DEF PushFinding
    <2>2. tally.created \in Nat /\ tally.deduped \in Nat /\ tally.failed \in Nat
        BY <1>1
    <2>3. tally' \in [created : Nat, deduped : Nat, failed : Nat]
        BY <1>1, <2>1
    <2>4. \/ /\ tally'.created = tally.created + 1 /\ tally'.deduped = tally.deduped
             /\ tally'.failed = tally.failed /\ accepted' = accepted + 1
          \/ /\ tally'.created = tally.created /\ tally'.deduped = tally.deduped + 1
             /\ tally'.failed = tally.failed /\ accepted' = accepted
          \/ /\ tally'.created = tally.created /\ tally'.deduped = tally.deduped
             /\ tally'.failed = tally.failed + 1 /\ accepted' \in {accepted, accepted + 1}
        BY <1>1, <2>1
    <2>5. toPush' \in Nat /\ accepted' \in Nat
        BY <1>1, <2>1
    <2>6. /\ tally'.created + tally'.deduped + tally'.failed + toPush' = found
          /\ tally'.created <= accepted' /\ accepted' <= tally'.created + tally'.failed
        BY <1>1, <2>1, <2>2, <2>4
    <2> QED
        BY <1>1, <2>1, <2>3, <2>5, <2>6 DEF Accounts
<1>8. CASE RateLimited
    BY <1>1, <1>8 DEF RateLimited, Accounts
<1>9. CASE AllPushed
    BY <1>1, <1>9 DEF AllPushed, Accounts
<1>10. CASE DaemonStarts \/ PostRun \/ DaemonWakes
    BY <1>3, <1>10 DEF DaemonStarts, PostRun, DaemonWakes
<1>11. CASE ParentGone
    BY <1>3, <1>11 DEF ParentGone, Sigterm
<1>12. CASE monitor # "gone" /\ MonitorStep
    BY <1>3, <1>12 DEF MonitorStep, MonitorTop, SpawnDaemon, MonitorWakes, DaemonReaped,
       SuperviseChange, Sigterm, Terminated, OverstaysGrace
<1>13. CASE (\E on \in BOOLEAN : SetActive(on)) \/ SignInOrOut \/ AppDies
    BY <1>3, <1>13 DEF SetActive, SignInOrOut, AppDies
<1> QED
    BY <1>4, <1>5, <1>6, <1>7, <1>8, <1>9, <1>10, <1>11, <1>12, <1>13 DEF AnalyzerNext, DaemonStep

\* A claude that runs is being asked, or its daemon had to be killed.
LEMMA ClaudeStep ==
    ASSUME ClaudeFollows, AnalyzerNext
    PROVE  ClaudeFollows'
<1> USE DEF supervisorVars, processVars, runVars, Daemon
<1>1. /\ claudeRuns => daemon = "asking" \/ (daemon = "none" /\ termLost)
      /\ monitor \in {"terminating", "killing"} /\ daemon # "none" => termLost
    BY DEF ClaudeFollows
<1>2. CASE (\E on \in BOOLEAN : SetActive(on)) \/ SignInOrOut \/ AppDies
    BY <1>1, <1>2 DEF SetActive, SignInOrOut, AppDies, ClaudeFollows
<1>3. CASE MonitorTop
    BY <1>1, <1>3 DEF MonitorTop, SpawnDaemon, ClaudeFollows
<1>4. CASE MonitorWakes \/ DaemonReaped \/ Terminated
    BY <1>1, <1>4 DEF MonitorWakes, DaemonReaped, Terminated, ClaudeFollows
<1>5. CASE SuperviseChange
    BY <1>1, <1>5 DEF SuperviseChange, Sigterm, ClaudeFollows
<1>6. CASE OverstaysGrace
    BY <1>1, <1>6 DEF OverstaysGrace, ClaudeFollows
<1>7. CASE ParentGone
    BY <1>1, <1>7 DEF ParentGone, Sigterm, ClaudeFollows
<1>8. CASE DaemonStarts \/ EnsureConfig \/ PushFinding \/ RateLimited \/ AllPushed \/ PostRun \/ DaemonWakes
    BY <1>1, <1>8
    DEF DaemonStarts, EnsureConfig, PushFinding, RateLimited, AllPushed, PostRun, DaemonWakes, ClaudeFollows
<1>9. CASE ReadWindow \/ ClaudeAnswers
    BY <1>1, <1>9 DEF ReadWindow, ReadOutcomes, ClaudeAnswers, ClaudeFollows
<1> QED
    BY <1>2, <1>3, <1>4, <1>5, <1>6, <1>7, <1>8, <1>9 DEF AnalyzerNext, MonitorStep, DaemonStep

\* Before the first spawn there is no run to account for.
LEMMA AnalyzerStart == AnalyzerInit => AnalyzerInv
BY DEF AnalyzerInit, AnalyzerInv, Accounts, ClaudeFollows, NoTally

\* Every step of monitor, daemon, claude and guard keeps the invariant.
LEMMA AnalyzerStep == AnalyzerInv /\ [AnalyzerNext]_analyzerVars => AnalyzerInv'
<1>1. AnalyzerInv /\ AnalyzerNext => AnalyzerInv'
    BY AccountsStep, ClaudeStep DEF AnalyzerInv
<1>2. AnalyzerInv /\ UNCHANGED analyzerVars => AnalyzerInv'
    BY DEF analyzerVars, supervisorVars, processVars, runVars, AnalyzerInv, Accounts, ClaudeFollows
<1> QED
    BY <1>1, <1>2

\* Both promises of the analyzer are consequences of its invariant.
LEMMA AnalyzerKeeps == AnalyzerInv => TallyIsTrue /\ ClaudeDiesWithDaemon
<1> SUFFICES ASSUME AnalyzerInv PROVE TallyIsTrue /\ ClaudeDiesWithDaemon
    OBVIOUS
<1>1. Accounts /\ ClaudeFollows
    BY DEF AnalyzerInv
<1>2. tally.created \in Nat /\ tally.failed \in Nat /\ accepted \in Nat
    BY <1>1 DEF Accounts
<1>3. daemon \in {"pushing", "recording"} =>
        /\ accepted \in tally.created .. tally.created + tally.failed
        /\ RunOutcome = "empty" => accepted <= tally.failed
    <2>1. RunOutcome = "empty" => ~(tally.created > 0)
        BY DEF RunOutcome
    <2> QED
        BY <1>1, <1>2, <2>1 DEF Accounts
<1>4. TallyIsTrue
    BY <1>1, <1>3 DEF Accounts, TallyIsTrue
<1>5. ClaudeDiesWithDaemon
    BY <1>1 DEF ClaudeFollows, ClaudeDiesWithDaemon
<1> QED
    BY <1>4, <1>5

\* DaemonIsGoverned: of the analyzer by itself.
THEOREM AnalyzerGoverned == AnalyzerSpec => []DaemonIsGoverned
<1>1. AnalyzerInv => DaemonIsGoverned
    BY AnalyzerKeeps, Backfills DEF DaemonIsGoverned
<1> QED
    BY <1>1, AnalyzerStart, AnalyzerStep, PTL DEF AnalyzerSpec

-----------------------------------------------------------------------------
(* A capture of the macOS backend.                                         *)

Starting == {"idle", "writer", "mic", "system", "video"}
Unwatched == {"joined", "unwatched", "muted", "quiet", "closed", "over"}

\* The watcher is there between the start and the stop only.
WatcherInside ==
    /\ stage \in Starting \cup {"failed"} => watcher = "none"
    /\ stage \in Unwatched => watcher \in {"none", "gone"}

\* The streams that capture: the one in the slot, and its replacement while they swap.
StreamsFollow ==
    /\ accepts \in Nat /\ lastFrame \in Int /\ lastFrame <= accepts
    /\ stage \in Starting \cup {"failed"} => accepts = 0
    /\ stage \in {"idle", "writer", "mic", "system", "failed"} => streams = {}
    /\ streams \subseteq {accepts, accepts + 1}
    /\ watcher # "swapping" => streams \subseteq {accepts}
    /\ stage \in Unwatched \ {"joined"} => streams = {}

\* The sound: the microphone and the tap are opened and closed in their stages, and what
\* is in the files is all there was.
SoundFollows ==
    /\ stage \in {"idle", "writer"} => mic = "off"
    /\ stage = "failed" => mic # "on"
    /\ stage \in {"quiet", "closed", "over"} => mic = "off"
    /\ stage \in {"idle", "writer", "mic", "failed", "muted", "quiet", "closed", "over"} => system = "off"
    /\ kept \subseteq {"mic", "system"}
    /\ "written" \in wav => stage \in {"closed", "over"} /\ wav = kept \cup {"written"}

SessionInv == WatcherInside /\ StreamsFollow /\ SoundFollows

\* Before start() there is no source.
LEMMA SessionStart == CaptureInit => SessionInv
BY DEF CaptureInit, SessionInv, WatcherInside, StreamsFollow, SoundFollows, Starting, Unwatched

\* Each action of start, stop, the threads and the watcher keeps the invariant.
LEMMA SessionNext ==
    ASSUME SessionInv, CaptureNext
    PROVE  SessionInv'
<1> USE DEF healthVars, windowVars, bufferVars, fileVars, watchVars, Fault, Starting, Unwatched, DropGuards
<1>1. WatcherInside /\ StreamsFollow /\ SoundFollows
    BY DEF SessionInv
<1>2. CASE StartStep
    <2>1. WatcherInside'
        BY <1>1, <1>2 DEF StartStep, OpenWriter, SpawnMicCapture, StartSystemAudio, StartVideo, EnterSession,
           WatcherInside
    <2>2. StreamsFollow'
        BY <1>1, <1>2 DEF StartStep, OpenWriter, SpawnMicCapture, StartSystemAudio, StartVideo, EnterSession,
           WatcherInside, StreamsFollow
    <2>3. SoundFollows'
        BY <1>1, <1>2 DEF StartStep, OpenWriter, SpawnMicCapture, StartSystemAudio, StartVideo, EnterSession,
           SoundFollows
    <2> QED
        BY <2>1, <2>2, <2>3 DEF SessionInv
<1>3. CASE TellWatcher
    BY <1>1, <1>3 DEF TellWatcher, SessionInv, WatcherInside, StreamsFollow, SoundFollows
<1>4. CASE StopStep
    <2>1. WatcherInside'
        BY <1>1, <1>4 DEF StopStep, JoinWatcher, StopVideoStream, StopSystemAudio, TellMic, FinishVideo,
           WriteAudio, MuxAudioIntoVideo, WatcherInside
    <2>2. StreamsFollow'
        BY <1>1, <1>4 DEF StopStep, JoinWatcher, StopVideoStream, StopSystemAudio, TellMic, FinishVideo,
           WriteAudio, MuxAudioIntoVideo, WatcherInside, StreamsFollow
    <2>3. SoundFollows'
        BY <1>1, <1>4 DEF StopStep, JoinWatcher, StopVideoStream, StopSystemAudio, TellMic, FinishVideo,
           WriteAudio, MuxAudioIntoVideo, SoundFollows
    <2> QED
        BY <2>1, <2>2, <2>3 DEF SessionInv
<1>5. CASE WatcherStep
    <2>1. WatcherInside' /\ SoundFollows'
        BY <1>1, <1>5 DEF WatcherStep, WatchTick, BuildWindowStream, SwapStream, WatcherExits,
           WatcherInside, SoundFollows
    <2>2. StreamsFollow'
        <3>1. CASE WatchTick \/ WatcherExits
            BY <1>1, <3>1 DEF WatchTick, WatcherExits, StreamsFollow
        <3>2. CASE BuildWindowStream
            BY <1>1, <3>2 DEF BuildWindowStream, StreamsFollow, WatcherInside
        <3>3. CASE SwapStream
            BY <1>1, <3>3 DEF SwapStream, StreamsFollow, WatcherInside
        <3> QED
            BY <1>5, <3>1, <3>2, <3>3 DEF WatcherStep
    <2> QED
        BY <2>1, <2>2 DEF SessionInv
<1>6. CASE MicEnds \/ MicChunk \/ SckChunk \/ ProcessTapChunk
    <2>1. WatcherInside' /\ StreamsFollow'
        BY <1>1, <1>6 DEF MicEnds, MicChunk, SckChunk, ProcessTapChunk, WatcherInside, StreamsFollow
    <2>2. SoundFollows'
        BY <1>1, <1>6 DEF MicEnds, MicChunk, SckChunk, ProcessTapChunk, SoundFollows
    <2> QED
        BY <2>1, <2>2 DEF SessionInv
<1>7. ASSUME NEW g \in streams, Frame(g) PROVE SessionInv'
    BY <1>1, <1>7 DEF Frame, AppendFrame, SessionInv, WatcherInside, StreamsFollow, SoundFollows
<1>8. CASE StreamBreaks \/ FrameStallPasses \/ WindowsChange
    BY <1>1, <1>8 DEF StreamBreaks, FrameStallPasses, WindowsChange, SessionInv, WatcherInside, StreamsFollow,
       SoundFollows
<1> QED
    BY <1>2, <1>3, <1>4, <1>5, <1>6, <1>7, <1>8 DEF CaptureNext

\* The same for a step that may stutter.
LEMMA SessionStep == SessionInv /\ [CaptureNext]_captureVars => SessionInv'
<1>1. SessionInv /\ UNCHANGED captureVars => SessionInv'
    BY DEF captureVars, healthVars, windowVars, bufferVars, fileVars, watchVars, SessionInv, WatcherInside,
       StreamsFollow, SoundFollows
<1> QED
    BY <1>1, SessionNext

\* No source outlives its session, by the invariant.
LEMMA SessionSound == SessionInv => NoSourceOutlivesSession
BY DEF SessionInv, WatcherInside, StreamsFollow, SoundFollows, NoSourceOutlivesSession, Starting, Unwatched

\* A step never takes a frame of a stream older than that of the last frame.
LEMMA FramesInOrder ==
    ASSUME SessionInv, [CaptureNext]_captureVars
    PROVE  [lastFrame' >= lastFrame]_captureVars
<1>1. lastFrame \in Int /\ accepts \in Nat /\ lastFrame <= accepts
    BY DEF SessionInv, StreamsFollow
<1>2. ASSUME NEW g \in streams, Frame(g) PROVE lastFrame' >= lastFrame
    BY <1>1, <1>2 DEF Frame, AppendFrame
<1>3. CASE lastFrame' = lastFrame
    BY <1>1, <1>3
<1>4. CASE StartStep \/ TellWatcher \/ StopStep \/ WatcherStep \/ MicEnds \/ MicChunk \/ SckChunk
             \/ ProcessTapChunk \/ StreamBreaks \/ FrameStallPasses \/ WindowsChange
    <2> USE DEF healthVars, windowVars, bufferVars, fileVars, watchVars
    <2>1. CASE StartStep \/ TellWatcher \/ StopStep
        BY <1>3, <2>1 DEF StartStep, OpenWriter, SpawnMicCapture, StartSystemAudio, StartVideo, EnterSession,
           TellWatcher, StopStep, JoinWatcher, StopVideoStream, StopSystemAudio, TellMic, FinishVideo,
           WriteAudio, MuxAudioIntoVideo
    <2>2. CASE WatcherStep \/ MicEnds \/ MicChunk \/ SckChunk \/ ProcessTapChunk
        BY <1>3, <2>2 DEF WatcherStep, WatchTick, BuildWindowStream, SwapStream, WatcherExits,
           MicEnds, MicChunk, SckChunk, ProcessTapChunk
    <2>3. CASE StreamBreaks \/ FrameStallPasses \/ WindowsChange
        BY <1>3, <2>3 DEF StreamBreaks, FrameStallPasses, WindowsChange
    <2> QED
        BY <1>4, <2>1, <2>2, <2>3
<1> QED
    BY <1>2, <1>4 DEF CaptureNext

\* NoSourceOutlivesSession and FramesNeverInterleave: of a capture by itself.
THEOREM CaptureIsSound == CaptureSpec => []NoSourceOutlivesSession /\ FramesNeverInterleave
BY SessionStart, SessionStep, SessionSound, FramesInOrder, PTL DEF CaptureSpec, FramesNeverInterleave

-----------------------------------------------------------------------------
(* A capture of the Windows backend.                                       *)

\* Frames are counted while there is a thread to capture them, and none is queued any
\* more where the file waits for its sound.
FramesCounted ==
    /\ {forwardedFrames, writtenFrames, errors} \subseteq Nat
    /\ videoThread \in {"setup", "capturing", "blind", "draining", "waiting", "ended"}
    /\ videoThread = "waiting" => writtenFrames = forwardedFrames
    /\ file = "whole" => videoThread = "ended" /\ writtenFrames = forwardedFrames
    /\ videoThread = "ended" /\ errors = 0 => file = "whole"

\* stop goes through its steps in order, and the channel tells which way it went.
StopFollows ==
    /\ audioThread \in [Sources -> {"capturing", "ended"}]
    /\ stop \in {"joined", "mixed", "handed", "ok", "error"} => \A s \in Sources : audioThread[s] = "ended"
    /\ stop \in {"mixed", "handed", "ok"} => wavs = sampled \cup {"written"}
    /\ audioTx = "closed" => errors # 0
    /\ stop = "ok" => videoThread = "ended"

WindowsInv == FramesCounted /\ StopFollows

\* Before start() no thread runs.
LEMMA WindowsStart == WindowsInit => WindowsInv
BY DEF WindowsInit, WindowsInv, FramesCounted, StopFollows

\* Each action of the audio threads, the video thread and the stop call keeps the invariant.
LEMMA WindowsKeep ==
    ASSUME WindowsInv, WindowsNext
    PROVE  WindowsInv'
<1> USE DEF videoVars, audioVars, CallFails
<1>1. FramesCounted /\ StopFollows
    BY DEF WindowsInv
<1>2. ASSUME NEW s \in Sources, AudioPacket(s) PROVE WindowsInv'
    BY <1>1, <1>2 DEF AudioPacket, WindowsInv, FramesCounted, StopFollows
<1>3. ASSUME NEW s \in Sources, AudioThreadEnds(s) PROVE WindowsInv'
    BY <1>1, <1>3 DEF AudioThreadEnds, WindowsInv, FramesCounted, StopFollows
<1>4. CASE VideoStep
    <2>1. FramesCounted'
        <3>1. CASE SetUpVideo
            BY <1>1, <3>1 DEF SetUpVideo, CreateSinkWriter, StartCaptureForItem, FramesCounted
        <3>2. CASE WriteFrame
            BY <1>1, <3>2 DEF WriteFrame, FramesCounted
        <3>3. CASE Retarget
            BY <1>1, <3>3 DEF Retarget, StartCaptureForItem, FramesCounted
        <3>4. CASE StopCapture \/ AwaitMix
            BY <1>1, <3>4 DEF StopCapture, AwaitMix, FramesCounted
        <3>5. CASE FinalizeFile
            BY <1>1, <3>5 DEF FinalizeFile, WriteAudioSamples, FramesCounted, StopFollows
        <3> QED
            BY <1>4, <3>1, <3>2, <3>3, <3>4, <3>5 DEF VideoStep
    <2>2. StopFollows'
        <3>1. errors \in Nat /\ UNCHANGED <<stop, audioThread, sampled, audioTx, wavs>>
              /\ (errors' = errors \/ errors' = errors + 1) /\ (videoThread = "ended" => videoThread' = "ended")
            BY <1>1, <1>4 DEF VideoStep, SetUpVideo, WriteFrame, Retarget, StopCapture, AwaitMix, FinalizeFile,
               StartCaptureForItem, FramesCounted
        <3> QED
            BY <1>1, <3>1 DEF StopFollows
    <2> QED
        BY <2>1, <2>2 DEF WindowsInv
<1>5. CASE FrameArrived \/ WindowGone
    BY <1>1, <1>5 DEF FrameArrived, WindowGone, WindowsInv, FramesCounted, StopFollows
<1>6. CASE TellThreads \/ StopCall
    <2>1. FramesCounted'
        BY <1>1, <1>6 DEF TellThreads, StopCall, JoinAudio, MixAudio, HandOverMix, JoinVideo, FramesCounted
    <2>2. StopFollows'
        BY <1>1, <1>6 DEF TellThreads, StopCall, JoinAudio, MixAudio, HandOverMix, JoinVideo, FramesCounted,
           StopFollows
    <2> QED
        BY <2>1, <2>2 DEF WindowsInv
<1> QED
    BY <1>2, <1>3, <1>4, <1>5, <1>6 DEF WindowsNext

\* The same for a step that may stutter.
LEMMA WindowsStep == WindowsInv /\ [WindowsNext]_windowsVars => WindowsInv'
<1>1. WindowsInv /\ UNCHANGED windowsVars => WindowsInv'
    BY DEF windowsVars, videoVars, audioVars, WindowsInv, FramesCounted, StopFollows
<1> QED
    BY <1>1, WindowsKeep

\* What is handed on after a successful stop is complete, by the invariant.
LEMMA WindowsWhole == WindowsInv => StoppedIsWhole
BY DEF WindowsInv, FramesCounted, StopFollows, StoppedIsWhole

\* StoppedIsWhole: of a capture by itself.
THEOREM WindowsIsWhole == WindowsSpec => []StoppedIsWhole
BY WindowsStart, WindowsStep, WindowsWhole, PTL DEF WindowsSpec

-----------------------------------------------------------------------------
(* The process tap: the inductive invariant.                               *)

TapClock ==
    /\ deviceTime \in Nat /\ delivered \in 0..deviceTime /\ sunk \in Nat
    /\ nextSample \in Int /\ skew \in Int

\* The objects there are say how far the start has come; nothing is delivered before.
TapFollows ==
    /\ tapState \in {"off", "starting", "running", "failed", "dropped"}
    /\ tapState = "starting" => objects \in {<<"tap">>, <<"tap", "aggregate">>, <<"tap", "aggregate", "io_proc">>}
    /\ tapState = "running" => objects = <<"tap", "aggregate", "io_proc">>
    /\ tapState \in {"off", "failed", "dropped"} => objects = <<>>

\* As long as every chunk has a time, the expectation is where the last chunk ended.
ClockFollows ==
    ~untimed =>
      \/ nextSample = -1 /\ sunk = 0 /\ delivered = 0
      \/ nextSample = delivered /\ sunk - nextSample = skew /\ skew \in 0..MaxChunk

TapInv == TapClock /\ TapFollows /\ ClockFollows

\* Before the first chunk no time has passed.
LEMMA TapStart == TapInit => TapInv
<1> SUFFICES ASSUME TapInit PROVE TapInv
    OBVIOUS
<1>1. TapClock
    BY DEF TapInit, TapClock
<1>2. TapFollows
    BY DEF TapInit, TapFollows
<1>3. ClockFollows
    BY DEF TapInit, ClockFollows
<1> QED
    BY <1>1, <1>2, <1>3 DEF TapInv

\* A chunk that is timed, after a gap that can be believed.
LEMMA ChunkInTime ==
    ASSUME TapInv, NEW n \in 1..MaxChunk, NEW timed \in BOOLEAN, deviceTime - n >= delivered,
           delivered' = deviceTime, deviceTime' = deviceTime,
           sunk' = sunk + Padding(GapBefore(deviceTime - n, timed)) + n,
           nextSample' = IF timed THEN deviceTime ELSE nextSample,
           skew' = IF nextSample = -1 THEN sunk' - deviceTime ELSE skew,
           untimed' = (untimed \/ ~timed \/ GapBefore(deviceTime - n, timed) > MaxGapFrames)
    PROVE  TapClock' /\ ClockFollows'
<1>1. /\ MaxChunk \in Nat /\ MaxGapFrames \in Nat /\ n \in Nat /\ n >= 1 /\ n <= MaxChunk
      /\ deviceTime \in Nat /\ delivered \in Nat /\ sunk \in Nat /\ nextSample \in Int /\ skew \in Int
    BY TapAssumption DEF TapInv, TapClock, TapAssumption
<1> DEFINE gap == GapBefore(deviceTime - n, timed)
<1>2. gap \in Int /\ Padding(gap) \in Nat
    BY <1>1 DEF GapBefore, Padding
<1>3. TapClock'
    BY <1>1, <1>2 DEF TapClock
<1>4. ASSUME ~untimed' PROVE nextSample' = delivered' /\ sunk' - nextSample' = skew' /\ skew' \in 0..MaxChunk
    <2>1. ~untimed /\ timed /\ ~(gap > MaxGapFrames)
        BY <1>4, Zenon
    <2>2. nextSample' = deviceTime /\ delivered' = deviceTime /\ sunk' = sunk + Padding(gap) + n
          /\ skew' = IF nextSample = -1 THEN sunk' - deviceTime ELSE skew
        BY <2>1
    <2> HIDE DEF gap
    <2>3. gap <= MaxGapFrames
        <3>1. ~(gap > MaxGapFrames)
            BY <2>1
        <3> QED
            BY <1>1, <1>2, <3>1
    <2>4. gap = IF nextSample = -1 THEN deviceTime ELSE deviceTime - n - nextSample
        BY <2>1 DEF GapBefore, gap
    <2>5. deviceTime >= n
        BY <1>1
    <2>6. deviceTime - n >= delivered
        OBVIOUS
    <2>7. CASE nextSample = -1 /\ sunk = 0
        <3>1. gap = deviceTime /\ gap >= 1
            BY <1>1, <2>4, <2>5, <2>7
        <3>2. Padding(gap) = deviceTime
            BY <1>1, <2>3, <3>1 DEF Padding
        <3> QED
            BY <1>1, <2>2, <2>7, <3>2
    <2>8. CASE nextSample = delivered /\ sunk - nextSample = skew /\ skew \in 0..MaxChunk
        <3>1. nextSample # -1
            BY <1>1, <2>8
        <3>2. gap = deviceTime - n - nextSample /\ gap >= 0
            BY <1>1, <2>4, <2>6, <2>8, <3>1
        <3>3. Padding(gap) = gap
            BY <1>1, <2>3, <3>2 DEF Padding
        <3> QED
            BY <1>1, <2>2, <2>8, <3>1, <3>2, <3>3
    <2> QED
        BY <2>1, <2>7, <2>8 DEF TapInv, ClockFollows
<1> QED
    BY <1>3, <1>4 DEF ClockFollows

\* Each chunk, timed or not, lost or padded, keeps the invariant.
LEMMA TapKeep ==
    ASSUME TapInv, TapNext
    PROVE  TapInv'
<1> USE DEF clockVars
<1>1. CASE CreateTap \/ CreateAggregate \/ CreateIOProc \/ StartDevice \/ DropTap
    <2>1. UNCHANGED clockVars
        BY <1>1 DEF CreateTap, CreateAggregate, CreateIOProc, StartDevice, DropTap
    <2>2. TapClock' /\ ClockFollows'
        <3>1. TapClock'
            BY <2>1 DEF TapInv, TapClock
        <3>2. ClockFollows'
            BY <2>1 DEF TapInv, ClockFollows
        <3> QED
            BY <3>1, <3>2
    <2>3. TapFollows'
        <3>1. TapFollows
            BY DEF TapInv
        <3>2. CASE CreateTap
            BY <3>1, <3>2 DEF CreateTap, TapFollows
        <3>3. CASE CreateAggregate
            BY <3>1, <3>3 DEF CreateAggregate, FailStart, TapFollows
        <3>4. CASE CreateIOProc
            BY <3>1, <3>4 DEF CreateIOProc, FailStart, TapFollows
        <3>5. CASE StartDevice
            BY <3>1, <3>5 DEF StartDevice, FailStart, TapFollows
        <3>6. CASE DropTap
            BY <3>1, <3>6 DEF DropTap, TapFollows
        <3> QED
            BY <1>1, <3>2, <3>3, <3>4, <3>5, <3>6
    <2> QED
        BY <2>2, <2>3 DEF TapInv
<1>2. CASE FramePasses
    BY <1>2 DEF FramePasses, TapInv, TapClock, TapFollows, ClockFollows
<1>3. CASE Chunk
    <2>1. PICK n \in 1..MaxChunk, timed \in BOOLEAN :
              /\ deviceTime - n >= delivered /\ delivered' = deviceTime
              /\ sunk' = sunk + Padding(GapBefore(deviceTime - n, timed)) + n
              /\ nextSample' = IF timed THEN deviceTime ELSE nextSample
              /\ skew' = IF nextSample = -1 THEN sunk' - deviceTime ELSE skew
              /\ untimed' = (untimed \/ ~timed \/ GapBefore(deviceTime - n, timed) > MaxGapFrames)
        BY <1>3 DEF Chunk
    <2>2. UNCHANGED <<objects, tapState, deviceTime>>
        BY <1>3 DEF Chunk
    <2>3. TapClock' /\ ClockFollows'
        BY <2>1, <2>2, ChunkInTime
    <2> QED
        BY <2>2, <2>3 DEF TapInv, TapFollows
<1> QED
    BY <1>1, <1>2, <1>3 DEF TapNext

\* The same for a step that may stutter.
LEMMA TapStep == TapInv /\ [TapNext]_tapVars => TapInv'
<1>1. TapInv /\ UNCHANGED tapVars => TapInv'
    BY DEF tapVars, TapInv, TapClock, TapFollows, ClockFollows
<1> QED
    BY <1>1, TapKeep

\* The sink keeps the time of the device, by the invariant.
LEMMA TapKeeps == TapInv => TapKeepsTime
<1>1. ASSUME TapInv PROVE TimelineIsKept
    BY <1>1 DEF TapInv, ClockFollows, TimelineIsKept
<1>2. ASSUME TapInv PROVE NothingLeftInServer
    BY <1>2 DEF TapInv, TapFollows, NothingLeftInServer
<1> QED
    BY <1>1, <1>2 DEF TapKeepsTime

\* TapKeepsTime: of the tap by itself.
THEOREM TapIsInTime == TapSpec => []TapKeepsTime
BY TapStart, TapStep, TapKeeps, PTL DEF TapSpec

-----------------------------------------------------------------------------
(* The speech segmenter: the inductive invariant.                          *)

CutOff == [start : Nat, flags : Seq(BOOLEAN), sent : BOOLEAN]

\* s is a piece of the stream fr, from after its frame `first` on.
Matches(fr, first, s) ==
    first + Len(s) <= Len(fr) /\ \A i \in 1..Len(s) : s[i] = fr[first + i]

\* A segment is a piece of the stream, no longer than the limit, judged by its speech.
Faithful(fr, g) ==
    /\ Matches(fr, g.start, g.flags)
    /\ Len(g.flags) <= MaxSegmentFrames
    /\ g.sent => VoicedIn(g.flags) >= MinVoicedFrames
    /\ ~g.sent => VoicedIn(g.flags) < MinVoicedFrames + PreRollFrames

LastEnd == IF segments = <<>> THEN 0 ELSE EndOf(segments[Len(segments)])

SegmenterTypes ==
    /\ frames \in Seq(BOOLEAN) /\ preRoll \in Seq(BOOLEAN) /\ flags \in Seq(BOOLEAN)
    /\ run \in Nat /\ start \in Nat /\ voiced \in Nat /\ silence \in Nat /\ inSpeech \in BOOLEAN
    /\ segments \in Seq(CutOff)

\* The ring holds the last frames since the last segment, and the run ends it.
RingFollows ==
    ~inSpeech =>
      /\ Len(preRoll) <= PreRollFrames + 1 /\ run < OpenFrames /\ run <= Len(preRoll)
      /\ Matches(frames, Len(frames) - Len(preRoll), preRoll)
      /\ LastEnd + Len(preRoll) <= Len(frames)
      /\ \A j \in 1..Len(preRoll) : Len(preRoll) - run < j => preRoll[j]

\* The run is as long as it can be: before it there is nothing, a silent frame or a segment.
RunIsWhole ==
    ~inSpeech =>
      \/ run = Len(frames)
      \/ ~frames[Len(frames) - run]
      \/ \E i \in 1..Len(segments) : EndOf(segments[i]) = Len(frames) - run

\* The open segment is the end of the stream, and its count is right but for the pre-roll.
SpeechFollows ==
    inSpeech =>
      /\ Matches(frames, start, flags) /\ start + Len(flags) = Len(frames)
      /\ Len(flags) < MaxSegmentFrames
      /\ voiced <= VoicedIn(flags) /\ VoicedIn(flags) <= voiced + PreRollFrames
      /\ start >= LastEnd - OverlapFrames

SegmentsFollow ==
    \A i \in 1..Len(segments) :
      /\ Faithful(frames, segments[i])
      /\ i > 1 => segments[i].start >= EndOf(segments[i-1]) - OverlapFrames

\* The run of voiced frames that ends with k is in a segment, or in the open one.
InSegment(k) ==
    \/ inSpeech /\ k > start
    \/ \E i \in 1..Len(segments) :
          segments[i].start < k /\ k - OpenFrames < EndOf(segments[i])

RunsAreInSegments ==
    \A k \in OpenFrames..Len(frames) :
       (\A j \in k - OpenFrames + 1..k : frames[j]) => InSegment(k)

SegmenterInv ==
    /\ SegmenterTypes /\ RingFollows /\ RunIsWhole /\ SpeechFollows
    /\ SegmentsFollow /\ RunsAreInSegments

\* What SegmenterAssumption says of the numbers of frames.
LEMMA SegmenterBounds ==
    /\ OpenFrames \in Nat /\ OpenFrames >= 1 /\ CloseFrames \in Nat /\ CloseFrames >= 1
    /\ MaxSegmentFrames \in Nat /\ MinVoicedFrames \in Nat /\ PreRollFrames \in Nat
    /\ OverlapFrames \in Nat /\ OverlapFrames < MaxSegmentFrames
    /\ OpenFrames <= PreRollFrames + 1 /\ PreRollFrames + 1 < MaxSegmentFrames
BY SegmenterAssumption DEF SegmenterAssumption

\* Voiced frames are counted like this.
LEMMA VoicedCount ==
    /\ VoicedIn(<<>>) = 0
    /\ \A s \in Seq(BOOLEAN) : VoicedIn(s) \in Nat /\ VoicedIn(s) <= Len(s)
    /\ \A s \in Seq(BOOLEAN), v \in BOOLEAN :
          VoicedIn(Append(s, v)) = IF v THEN VoicedIn(s) + 1 ELSE VoicedIn(s)
<1> DEFINE V(s) == {i \in DOMAIN s : s[i]}
<1>1. V(<<>>) = {}
    OBVIOUS
<1>2. ASSUME NEW s \in Seq(BOOLEAN)
      PROVE  IsFiniteSet(V(s)) /\ VoicedIn(s) \in Nat /\ VoicedIn(s) <= Len(s)
    <2>1. DOMAIN s = 1..Len(s) /\ Len(s) \in Nat
        BY QueueOps
    <2>2. IsFiniteSet(1..Len(s)) /\ Cardinality(1..Len(s)) = Len(s)
        BY <2>1, FS_Interval
    <2>3. V(s) \in SUBSET (1..Len(s))
        BY <2>1
    <2> HIDE DEF V
    <2>4. IsFiniteSet(V(s)) /\ Cardinality(V(s)) <= Len(s) /\ Cardinality(V(s)) \in Nat
        BY <2>2, <2>3, FS_Subset, FS_CardinalityType
    <2> QED
        BY <2>4 DEF V, VoicedIn
<1>3. ASSUME NEW s \in Seq(BOOLEAN), NEW v \in BOOLEAN
      PROVE  VoicedIn(Append(s, v)) = IF v THEN VoicedIn(s) + 1 ELSE VoicedIn(s)
    <2> DEFINE t == Append(s, v)
    <2>1. /\ DOMAIN s = 1..Len(s) /\ Len(s) \in Nat /\ DOMAIN t = 1..Len(s) + 1
          /\ t[Len(s) + 1] = v /\ \A i \in 1..Len(s) : t[i] = s[i]
        BY QueueOps
    <2> HIDE DEF t
    <2>2. CASE v
        <3>1. Len(s) + 1 \notin V(s)
            BY <2>1
        <3>2. ASSUME NEW i PROVE i \in V(t) <=> i \in V(s) \cup {Len(s) + 1}
            <4>1. CASE i = Len(s) + 1
                <5>1. Len(s) + 1 \in DOMAIN t
                    BY <2>1
                <5>2. t[Len(s) + 1]
                    BY <2>1, <2>2, Zenon
                <5> QED
                    BY <4>1, <5>1, <5>2
            <4>2. CASE i # Len(s) + 1
                BY <2>1, <4>2
            <4> QED
                BY <4>1, <4>2
        <3>3. V(t) = V(s) \cup {Len(s) + 1}
            BY <3>2
        <3> HIDE DEF V
        <3>4. Cardinality(V(t)) = Cardinality(V(s)) + 1
            BY <1>2, <3>1, <3>3, FS_AddElement
        <3> QED
            BY <2>2, <3>4 DEF V, VoicedIn, t
    <2>3. CASE ~v
        <3>1. V(t) = V(s)
            BY <2>1, <2>3
        <3> QED
            BY <2>3, <3>1 DEF VoicedIn, t
    <2> QED
        BY <2>2, <2>3
<1> QED
    BY <1>1, <1>2, <1>3, FS_EmptySet DEF VoicedIn

\* The last frames of a piece.
LEMMA LastFrames ==
    ASSUME NEW s \in Seq(BOOLEAN), NEW n \in Nat
    PROVE  /\ LastOf(s, n) \in Seq(BOOLEAN)
           /\ Len(LastOf(s, n)) = IF Len(s) > n THEN n ELSE Len(s)
           /\ \A i \in 1..Len(LastOf(s, n)) : LastOf(s, n)[i] = s[Len(s) - Len(LastOf(s, n)) + i]
<1>1. Len(s) \in Nat /\ \A i \in 1..Len(s) : s[i] \in BOOLEAN
    BY QueueOps
<1> DEFINE m == IF Len(s) > n THEN Len(s) - n + 1 ELSE 1
<1>2. m \in 1..Len(s) + 1
    BY <1>1
<1>3. \A i \in m..Len(s) : s[i] \in BOOLEAN
    BY <1>1, <1>2
<1>4. /\ SubSeq(s, m, Len(s)) \in Seq(BOOLEAN)
      /\ Len(SubSeq(s, m, Len(s))) = IF m <= Len(s) THEN Len(s) - m + 1 ELSE 0
      /\ \A i \in 1..Len(s) - m + 1 : SubSeq(s, m, Len(s))[i] = s[m + i - 1]
    BY <1>1, <1>2, SubSeqProperties
<1>5. LastOf(s, n) = SubSeq(s, m, Len(s))
    BY DEF LastOf
<1> DEFINE r == SubSeq(s, m, Len(s))
<1>6. CASE Len(s) > n
    <2>1. m = Len(s) - n + 1 /\ Len(s) - m + 1 = n
        BY <1>1, <1>6
    <2> HIDE DEF m
    <2>2. Len(r) = n
        BY <1>1, <1>4, <1>6, <2>1
    <2>3. \A i \in 1..n : r[i] = s[Len(s) - n + i]
        BY <1>1, <1>4, <1>6, <2>1
    <2> HIDE DEF r
    <2> QED
        BY <1>4, <1>5, <1>6, <2>2, <2>3 DEF r
<1>7. CASE ~(Len(s) > n)
    <2>1. m = 1
        BY <1>7
    <2> HIDE DEF m
    <2>2. Len(r) = Len(s)
        BY <1>1, <1>4, <2>1
    <2>3. \A i \in 1..Len(s) : r[i] = s[i]
        BY <1>1, <1>4, <2>1
    <2>4. \A i \in 1..Len(s) : Len(s) - Len(s) + i = i
        BY <1>1
    <2> HIDE DEF r
    <2> QED
        BY <1>1, <1>4, <1>5, <1>7, <2>2, <2>3, <2>4 DEF r
<1> QED
    BY <1>6, <1>7

\* A frame more at the end of the stream changes nothing of what was cut from it.
LEMMA StreamGrows ==
    ASSUME SegmenterInv, NEW v \in BOOLEAN, frames' = Append(frames, v)
    PROVE  /\ Len(frames) \in Nat /\ Len(frames') = Len(frames) + 1 /\ frames' \in Seq(BOOLEAN)
           /\ frames'[Len(frames) + 1] = v /\ \A i \in 1..Len(frames) : frames'[i] = frames[i]
           /\ \A first \in Nat, s \in Seq(BOOLEAN) : Matches(frames, first, s) => Matches(frames', first, s)
           /\ \A i \in 1..Len(segments) : Faithful(frames', segments[i])
<1>1. frames \in Seq(BOOLEAN) /\ segments \in Seq(CutOff) /\ SegmentsFollow
    BY DEF SegmenterInv, SegmenterTypes
<1>2. /\ Len(frames) \in Nat /\ Len(frames') = Len(frames) + 1 /\ frames' \in Seq(BOOLEAN)
      /\ frames'[Len(frames) + 1] = v /\ \A i \in 1..Len(frames) : frames'[i] = frames[i]
    BY <1>1, QueueOps
<1>3. ASSUME NEW first \in Nat, NEW s \in Seq(BOOLEAN), Matches(frames, first, s)
      PROVE  Matches(frames', first, s)
    <2>1. Len(s) \in Nat
        BY QueueOps
    <2>2. first + Len(s) <= Len(frames) /\ \A i \in 1..Len(s) : s[i] = frames[first + i]
        BY <1>3 DEF Matches
    <2>3. ASSUME NEW i \in 1..Len(s) PROVE s[i] = frames'[first + i]
        <3>1. first + i \in 1..Len(frames)
            BY <1>2, <2>1, <2>2
        <3> QED
            BY <1>2, <2>2, <3>1
    <2>4. first + Len(s) <= Len(frames')
        BY <1>2, <2>1, <2>2
    <2> QED
        BY <2>3, <2>4 DEF Matches
<1>4. ASSUME NEW i \in 1..Len(segments) PROVE Faithful(frames', segments[i])
    <2>1. segments[i] \in CutOff
        BY <1>1, QueueOps
    <2>2. segments[i].start \in Nat /\ segments[i].flags \in Seq(BOOLEAN)
        BY <2>1 DEF CutOff
    <2>3. Faithful(frames, segments[i])
        BY <1>1 DEF SegmentsFollow
    <2> QED
        BY <1>3, <2>2, <2>3 DEF Faithful
<1> QED
    BY <1>2, <1>3, <1>4

\* A segment is cut off at the end of the stream.
LEMMA SegmentEnds ==
    ASSUME SegmenterInv, inSpeech, NEW s \in Seq(BOOLEAN), NEW n \in Nat, Finished(s, start, n),
           frames' \in Seq(BOOLEAN), Len(frames') >= Len(frames),
           \A i \in 1..Len(frames) : frames'[i] = frames[i],
           \A i \in 1..Len(segments) : Faithful(frames', segments[i]),
           Matches(frames', start, s), start + Len(s) = Len(frames'), Len(s) <= MaxSegmentFrames,
           n <= VoicedIn(s), VoicedIn(s) <= n + PreRollFrames
    PROVE  /\ segments' \in Seq(CutOff) /\ SegmentsFollow'
           /\ LastEnd' = Len(frames')
           /\ \E i \in 1..Len(segments') : EndOf(segments'[i]) = Len(frames')
           /\ RunsAreInSegments'
<1> DEFINE g == [start |-> start, flags |-> s, sent |-> n >= MinVoicedFrames]
<1>1. /\ start \in Nat /\ frames \in Seq(BOOLEAN) /\ segments \in Seq(CutOff)
      /\ SpeechFollows /\ SegmentsFollow /\ RunsAreInSegments
    BY DEF SegmenterInv, SegmenterTypes
<1>2. segments' = Append(segments, g)
    BY DEF Finished
<1>3. (n >= MinVoicedFrames) \in BOOLEAN
    OBVIOUS
<1>4. g \in CutOff
    BY <1>1, <1>3 DEF CutOff
<1>5. g.start = start /\ g.flags = s /\ g.sent = (n >= MinVoicedFrames)
    OBVIOUS
<1>6. Len(s) \in Nat /\ VoicedIn(s) \in Nat /\ Len(frames) \in Nat /\ Len(frames') \in Nat
    BY <1>1, QueueOps, VoicedCount
<1>7. EndOf(g) = Len(frames')
    BY <1>5 DEF EndOf
<1> HIDE DEF g
<1>8. /\ segments' \in Seq(CutOff) /\ Len(segments) \in Nat /\ Len(segments') = Len(segments) + 1
      /\ segments'[Len(segments) + 1] = g /\ \A i \in 1..Len(segments) : segments'[i] = segments[i]
    BY <1>1, <1>2, <1>4, QueueOps
<1>9. LastEnd' = Len(frames')
    <2>1. segments' # <<>>
        BY <1>8
    <2> QED
        BY <1>7, <1>8, <2>1 DEF LastEnd, EndOf
<1>10. Faithful(frames', g)
    <2>1. g.sent => VoicedIn(g.flags) >= MinVoicedFrames
        <3>1. n >= MinVoicedFrames => VoicedIn(s) >= MinVoicedFrames
            BY <1>6, SegmenterBounds
        <3> QED
            BY <1>5, <3>1
    <2>2. ~g.sent => VoicedIn(g.flags) < MinVoicedFrames + PreRollFrames
        <3>1. ~(n >= MinVoicedFrames) => VoicedIn(s) < MinVoicedFrames + PreRollFrames
            BY <1>6, SegmenterBounds
        <3> QED
            BY <1>5, <3>1
    <2> QED
        BY <1>5, <2>1, <2>2 DEF Faithful
<1>11. start >= LastEnd - OverlapFrames
    BY <1>1 DEF SpeechFollows
<1>12. SegmentsFollow'
    <2> SUFFICES ASSUME NEW i \in 1..Len(segments')
                 PROVE  /\ Faithful(frames', segments'[i])
                        /\ i > 1 => segments'[i].start >= EndOf(segments'[i-1]) - OverlapFrames
        BY DEF SegmentsFollow, EndOf
    <2>1. CASE i \in 1..Len(segments)
        <3>1. i > 1 => i - 1 \in 1..Len(segments)
            BY <1>8, <2>1
        <3> QED
            BY <1>1, <1>8, <2>1, <3>1 DEF SegmentsFollow
    <2>2. CASE i = Len(segments) + 1
        <3>1. Faithful(frames', segments'[i])
            BY <1>8, <1>10, <2>2
        <3>2. ASSUME i > 1 PROVE segments'[i].start >= EndOf(segments'[i-1]) - OverlapFrames
            <4>1. Len(segments) >= 1 /\ i - 1 = Len(segments) /\ Len(segments) \in 1..Len(segments)
                BY <1>8, <2>2, <3>2
            <4>2. segments # <<>>
                BY <4>1
            <4>3. LastEnd = EndOf(segments[Len(segments)])
                BY <4>2 DEF LastEnd
            <4>4. segments'[i - 1] = segments[Len(segments)] /\ segments'[i].start = start
                BY <1>5, <1>8, <2>2, <4>1
            <4> QED
                BY <1>11, <4>3, <4>4
        <3> QED
            BY <3>1, <3>2
    <2> QED
        BY <1>8, <2>1, <2>2
<1>13. RunsAreInSegments'
    <2> SUFFICES ASSUME NEW k \in OpenFrames..Len(frames'),
                        \A j \in k - OpenFrames + 1..k : frames'[j]
                 PROVE  \E i \in 1..Len(segments') :
                           segments'[i].start < k /\ k - OpenFrames < EndOf(segments'[i])
        BY DEF RunsAreInSegments, InSegment, EndOf
    <2>1. k \in Nat /\ OpenFrames \in Nat /\ OpenFrames >= 1 /\ k >= OpenFrames /\ k <= Len(frames')
        BY <1>6, SegmenterBounds
    <2>2. CASE k > start
        <3>1. segments'[Len(segments) + 1].start < k
            BY <1>1, <1>5, <1>8, <2>1, <2>2
        <3>2. k - OpenFrames < EndOf(segments'[Len(segments) + 1])
            BY <1>6, <1>7, <1>8, <2>1
        <3>3. Len(segments) + 1 \in 1..Len(segments')
            BY <1>8
        <3> QED
            BY <3>1, <3>2, <3>3
    <2>3. CASE ~(k > start)
        <3>1. start + Len(flags) = Len(frames) /\ Len(flags) \in Nat
            <4>1. flags \in Seq(BOOLEAN)
                BY DEF SegmenterInv, SegmenterTypes
            <4> QED
                BY <1>1, <4>1, QueueOps DEF SpeechFollows
        <3>2. k \in OpenFrames..Len(frames)
            BY <1>1, <1>6, <2>1, <2>3, <3>1
        <3>3. \A j \in k - OpenFrames + 1..k : frames[j]
            <4>1. \A j \in k - OpenFrames + 1..k : j \in 1..Len(frames)
                BY <1>6, <2>1, <3>2
            <4> QED
                BY <4>1
        <3>4. PICK i \in 1..Len(segments) : segments[i].start < k /\ k - OpenFrames < EndOf(segments[i])
            BY <1>1, <2>3, <3>2, <3>3 DEF RunsAreInSegments, InSegment
        <3>5. i \in 1..Len(segments') /\ segments'[i] = segments[i]
            BY <1>8
        <3> QED
            BY <3>4, <3>5
    <2> QED
        BY <2>2, <2>3
<1>14. \E i \in 1..Len(segments') : EndOf(segments'[i]) = Len(frames')
    <2>1. Len(segments) + 1 \in 1..Len(segments')
        BY <1>8
    <2> QED
        BY <1>7, <1>8, <2>1
<1> QED
    BY <1>8, <1>9, <1>12, <1>13, <1>14

\* The last n frames are voiced, so there are n voiced frames.
LEMMA VoicedTail ==
    ASSUME NEW s \in Seq(BOOLEAN), NEW n \in Nat, n <= Len(s),
           \A j \in 1..Len(s) : Len(s) - n < j => s[j]
    PROVE  n <= VoicedIn(s)
<1> DEFINE V == {i \in DOMAIN s : s[i]}
           W == Len(s) - n + 1..Len(s)
<1>1. DOMAIN s = 1..Len(s) /\ Len(s) \in Nat
    BY QueueOps
<1>2. IsFiniteSet(V)
    <2>1. IsFiniteSet(1..Len(s)) /\ V \in SUBSET (1..Len(s))
        BY <1>1, FS_Interval
    <2> QED
        BY <2>1, FS_Subset
<1>3. IsFiniteSet(W) /\ Cardinality(W) = n
    BY <1>1, FS_Interval
<1>4. W \in SUBSET V
    <2>1. ASSUME NEW j \in W PROVE j \in 1..Len(s) /\ Len(s) - n < j
        BY <1>1
    <2>2. ASSUME NEW j \in W PROVE s[j]
        BY <2>1
    <2> QED
        BY <1>1, <2>1, <2>2
<1> HIDE DEF V, W
<1>5. Cardinality(W) <= Cardinality(V)
    BY <1>2, <1>4, FS_Subset
<1> QED
    BY <1>3, <1>5 DEF V, VoicedIn

\* A frame enters the ring.
LEMMA RingTurns ==
    ASSUME SegmenterInv, ~inSpeech, NEW v \in BOOLEAN, frames' = Append(frames, v),
           NEW lead, lead = LastOf(Append(preRoll, v), PreRollFrames + 1),
           NEW spoken, spoken = IF v THEN run + 1 ELSE 0
    PROVE  /\ lead \in Seq(BOOLEAN) /\ Len(lead) \in Nat /\ 1 <= Len(lead) /\ Len(lead) <= PreRollFrames + 1
           /\ spoken \in Nat /\ spoken <= OpenFrames /\ spoken <= Len(lead)
           /\ LastEnd \in Nat /\ LastEnd + Len(lead) <= Len(frames')
           /\ Matches(frames', Len(frames') - Len(lead), lead)
           /\ \A j \in 1..Len(lead) : Len(lead) - spoken < j => lead[j]
<1> DEFINE p == Append(preRoll, v)
<1>1. /\ preRoll \in Seq(BOOLEAN) /\ run \in Nat /\ segments \in Seq(CutOff)
      /\ Len(preRoll) <= PreRollFrames + 1 /\ run < OpenFrames /\ run <= Len(preRoll)
      /\ Matches(frames, Len(frames) - Len(preRoll), preRoll)
      /\ LastEnd + Len(preRoll) <= Len(frames)
      /\ \A j \in 1..Len(preRoll) : Len(preRoll) - run < j => preRoll[j]
    BY DEF SegmenterInv, SegmenterTypes, RingFollows
<1>2. /\ Len(preRoll) \in Nat /\ p \in Seq(BOOLEAN) /\ Len(p) = Len(preRoll) + 1
      /\ p[Len(preRoll) + 1] = v /\ \A i \in 1..Len(preRoll) : p[i] = preRoll[i]
    BY <1>1, QueueOps
<1>3. /\ Len(frames) \in Nat /\ Len(frames') = Len(frames) + 1
      /\ frames'[Len(frames) + 1] = v /\ \A i \in 1..Len(frames) : frames'[i] = frames[i]
    BY StreamGrows
<1>4. /\ OpenFrames \in Nat /\ PreRollFrames \in Nat /\ OpenFrames <= PreRollFrames + 1 /\ OpenFrames >= 1
      /\ PreRollFrames + 1 \in Nat
    BY SegmenterBounds
<1>5. LastEnd \in Nat
    <2>1. ASSUME segments # <<>> PROVE EndOf(segments[Len(segments)]) \in Nat
        <3>1. Len(segments) \in 1..Len(segments)
            BY <1>1, <2>1, QueueOps
        <3>2. segments[Len(segments)] \in CutOff
            BY <1>1, <3>1, QueueOps
        <3>3. segments[Len(segments)].start \in Nat /\ segments[Len(segments)].flags \in Seq(BOOLEAN)
            BY <3>2 DEF CutOff
        <3>4. Len(segments[Len(segments)].flags) \in Nat
            BY <3>3, QueueOps
        <3> QED
            BY <3>3, <3>4 DEF EndOf
    <2> QED
        BY <2>1 DEF LastEnd
<1>6. lead = LastOf(p, PreRollFrames + 1)
    OBVIOUS
<1> HIDE DEF p
<1>7. /\ lead \in Seq(BOOLEAN)
      /\ Len(lead) = IF Len(p) > PreRollFrames + 1 THEN PreRollFrames + 1 ELSE Len(p)
      /\ \A i \in 1..Len(lead) : lead[i] = p[Len(p) - Len(lead) + i]
    <2> DEFINE n == PreRollFrames + 1
    <2>1. n \in Nat /\ lead = LastOf(p, n)
        BY <1>4, <1>6
    <2> HIDE DEF n
    <2>2. /\ lead \in Seq(BOOLEAN)
          /\ Len(lead) = IF Len(p) > n THEN n ELSE Len(p)
          /\ \A i \in 1..Len(lead) : lead[i] = p[Len(p) - Len(lead) + i]
        <3>1. p \in Seq(BOOLEAN) /\ n \in Nat
            BY <1>2, <2>1
        <3>2. /\ LastOf(p, n) \in Seq(BOOLEAN)
              /\ Len(LastOf(p, n)) = IF Len(p) > n THEN n ELSE Len(p)
              /\ \A i \in 1..Len(LastOf(p, n)) : LastOf(p, n)[i] = p[Len(p) - Len(LastOf(p, n)) + i]
            BY <3>1, LastFrames
        <3> QED
            BY <2>1, <3>2, Zenon
    <2> QED
        BY <2>2 DEF n
<1>8. Len(lead) \in Nat /\ 1 <= Len(lead) /\ Len(lead) <= PreRollFrames + 1 /\ Len(lead) <= Len(p)
    BY <1>2, <1>4, <1>7
<1>9. spoken \in Nat /\ spoken <= run + 1
    BY <1>1
<1>10. spoken <= OpenFrames /\ spoken <= Len(lead)
    BY <1>1, <1>2, <1>4, <1>7, <1>9
<1>11. LastEnd + Len(lead) <= Len(frames')
    BY <1>1, <1>2, <1>3, <1>5, <1>8
<1>12. \A i \in 1..Len(p) : p[i] = frames'[Len(frames') - Len(p) + i]
    <2> SUFFICES ASSUME NEW i \in 1..Len(p) PROVE p[i] = frames'[Len(frames') - Len(p) + i]
        OBVIOUS
    <2>1. CASE i = Len(preRoll) + 1
        <3>1. Len(frames') - Len(p) + i = Len(frames) + 1
            BY <1>2, <1>3, <2>1
        <3> QED
            BY <1>2, <1>3, <2>1, <3>1
    <2>2. CASE i # Len(preRoll) + 1
        <3>1. i \in 1..Len(preRoll) /\ i \in Nat
            BY <1>2, <2>2
        <3>2. Len(frames') - Len(p) + i = Len(frames) - Len(preRoll) + i
            BY <1>2, <1>3, <3>1
        <3>3. Len(frames) - Len(preRoll) + i \in 1..Len(frames)
            BY <1>1, <1>2, <1>3, <1>5, <3>1
        <3>4. preRoll[i] = frames[Len(frames) - Len(preRoll) + i]
            BY <1>1, <3>1 DEF Matches
        <3> QED
            BY <1>2, <1>3, <3>1, <3>2, <3>3, <3>4
    <2> QED
        BY <2>1, <2>2
<1>13. Matches(frames', Len(frames') - Len(lead), lead)
    <2>1. ASSUME NEW i \in 1..Len(lead) PROVE lead[i] = frames'[Len(frames') - Len(lead) + i]
        <3>1. Len(p) - Len(lead) + i \in 1..Len(p)
            BY <1>2, <1>8
        <3>2. Len(frames') - Len(p) + (Len(p) - Len(lead) + i) = Len(frames') - Len(lead) + i
            BY <1>2, <1>3, <1>8
        <3> QED
            BY <1>7, <1>12, <3>1, <3>2
    <2>2. Len(frames') - Len(lead) + Len(lead) <= Len(frames')
        BY <1>3, <1>8
    <2> QED
        BY <2>1, <2>2 DEF Matches
<1>14. \A j \in 1..Len(lead) : Len(lead) - spoken < j => lead[j]
    <2> SUFFICES ASSUME NEW j \in 1..Len(lead), Len(lead) - spoken < j PROVE lead[j]
        OBVIOUS
    <2>1. v /\ spoken = run + 1
        <3>1. CASE ~v
            <4>1. spoken = 0
                BY <3>1
            <4> QED
                BY <1>8, <4>1
        <3> QED
            BY <3>1
    <2>2. /\ Len(p) - Len(lead) + j \in 1..Len(p) /\ Len(p) - Len(lead) + j \in Int
          /\ Len(preRoll) - run < Len(p) - Len(lead) + j
        <3>1. spoken = run + 1
            BY <2>1
        <3>2. run \in Nat /\ Len(preRoll) \in Nat /\ Len(p) = Len(preRoll) + 1
            BY <1>1, <1>2
        <3>3. Len(lead) - (run + 1) < j
            BY <3>1
        <3> QED
            BY <1>8, <3>2, <3>3
    <2>3. PICK m \in 1..Len(p) : m = Len(p) - Len(lead) + j /\ Len(preRoll) - run < m
        BY <2>2
    <2>4. CASE m = Len(preRoll) + 1
        <3>1. lead[j] = p[Len(p) - Len(lead) + j]
            BY <1>7
        <3>2. lead[j] = p[Len(preRoll) + 1]
            BY <2>3, <2>4, <3>1
        <3>3. p[Len(preRoll) + 1] = v /\ v
            BY <1>2, <2>1
        <3> QED
            BY <3>2, <3>3
    <2>5. CASE m # Len(preRoll) + 1
        <3>1. m \in 1..Len(preRoll)
            BY <1>2, <2>5
        <3>2. preRoll[m] /\ p[m] = preRoll[m]
            BY <1>1, <1>2, <2>3, <3>1
        <3> QED
            BY <1>7, <2>3, <3>2
    <2> QED
        BY <2>4, <2>5
<1> QED
    BY <1>5, <1>7, <1>8, <1>9, <1>10, <1>11, <1>13, <1>14

\* A frame outside of speech: the ring takes it, or a run of voiced frames opens a segment.
LEMMA IdleKeeps ==
    ASSUME SegmenterInv, NEW v \in BOOLEAN, frames' = Append(frames, v), IdleFrame(v)
    PROVE  SegmenterInv'
<1> DEFINE lead == LastOf(Append(preRoll, v), PreRollFrames + 1)
           spoken == IF v THEN run + 1 ELSE 0
<1>1. ~inSpeech /\ segments' = segments
    BY DEF IdleFrame
<1>2. \/ /\ spoken < OpenFrames /\ preRoll' = lead /\ run' = spoken
         /\ UNCHANGED <<inSpeech, start, flags, voiced, silence>>
      \/ /\ ~(spoken < OpenFrames) /\ inSpeech' = TRUE
         /\ flags' = lead /\ start' = Len(frames) + 1 - Len(lead)
         /\ voiced' = spoken /\ silence' = 0 /\ preRoll' = <<>> /\ run' = 0
    BY DEF IdleFrame
<1>3. /\ lead \in Seq(BOOLEAN) /\ Len(lead) \in Nat /\ 1 <= Len(lead) /\ Len(lead) <= PreRollFrames + 1
      /\ spoken \in Nat /\ spoken <= OpenFrames /\ spoken <= Len(lead)
      /\ LastEnd \in Nat /\ LastEnd + Len(lead) <= Len(frames')
      /\ Matches(frames', Len(frames') - Len(lead), lead)
      /\ \A j \in 1..Len(lead) : Len(lead) - spoken < j => lead[j]
    BY <1>1, RingTurns
<1>4. spoken = IF v THEN run + 1 ELSE 0
    OBVIOUS
<1> HIDE DEF lead, spoken
<1>5. /\ Len(frames) \in Nat /\ Len(frames') = Len(frames) + 1 /\ frames' \in Seq(BOOLEAN)
      /\ frames'[Len(frames) + 1] = v /\ \A i \in 1..Len(frames) : frames'[i] = frames[i]
      /\ \A i \in 1..Len(segments) : Faithful(frames', segments[i])
    BY StreamGrows
<1>6. /\ SegmenterTypes /\ RingFollows /\ RunIsWhole /\ SegmentsFollow /\ RunsAreInSegments
      /\ run \in Nat /\ run < OpenFrames /\ run <= Len(preRoll) /\ Len(preRoll) \in Nat
      /\ LastEnd + Len(preRoll) <= Len(frames)
    <2>1. SegmenterTypes /\ RingFollows /\ RunIsWhole /\ SegmentsFollow /\ RunsAreInSegments
        BY DEF SegmenterInv
    <2>2. preRoll \in Seq(BOOLEAN) /\ run \in Nat
        BY <2>1 DEF SegmenterTypes
    <2> QED
        BY <1>1, <2>1, <2>2, QueueOps DEF RingFollows
<1>7. SegmenterTypes'
    <2>1. CASE inSpeech' = inSpeech
        BY <1>1, <1>2, <1>3, <1>5, <1>6, <2>1 DEF SegmenterTypes
    <2>2. CASE start' = Len(frames) + 1 - Len(lead) /\ inSpeech' = TRUE
        <3>1. start' \in Nat
            BY <1>3, <1>5, <2>2
        <3>2. /\ flags' = lead /\ voiced' = spoken /\ silence' = 0 /\ preRoll' = <<>> /\ run' = 0
            BY <1>1, <1>2, <2>2
        <3>3. preRoll' \in Seq(BOOLEAN)
            BY <3>2
        <3>4. segments' \in Seq(CutOff) /\ inSpeech' \in BOOLEAN
            BY <1>1, <1>6, <2>2 DEF SegmenterTypes
        <3> QED
            BY <1>3, <1>5, <3>1, <3>2, <3>3, <3>4 DEF SegmenterTypes
    <2> QED
        BY <1>2, <2>1, <2>2
<1>8. SegmentsFollow'
    BY <1>1, <1>5, <1>6 DEF SegmentsFollow, EndOf
<1>9. LastEnd' = LastEnd
    BY <1>1 DEF LastEnd, EndOf
\* What was in a segment still is.
<1>10. ASSUME NEW k \in OpenFrames..Len(frames), \A j \in k - OpenFrames + 1..k : frames'[j]
       PROVE  InSegment(k)'
    <2>1. \A j \in k - OpenFrames + 1..k : j \in 1..Len(frames)
        BY <1>5, SegmenterBounds
    <2>2. \A j \in k - OpenFrames + 1..k : frames[j]
        BY <1>5, <1>10, <2>1
    <2>3. InSegment(k)
        BY <1>6, <2>2 DEF RunsAreInSegments
    <2> QED
        BY <1>1, <2>3 DEF InSegment, EndOf
<1>11. \A i \in 1..Len(segments) : segments[i].start \in Nat /\ segments[i].start <= EndOf(segments[i])
                                   /\ EndOf(segments[i]) \in Nat
    <2>1. ASSUME NEW i \in 1..Len(segments)
          PROVE  segments[i].start \in Nat /\ segments[i].flags \in Seq(BOOLEAN)
        <3>1. segments[i] \in CutOff
            BY <1>6, QueueOps DEF SegmenterTypes
        <3> QED
            BY <3>1 DEF CutOff
    <2>2. ASSUME NEW i \in 1..Len(segments) PROVE Len(segments[i].flags) \in Nat
        BY <2>1, QueueOps
    <2> QED
        BY <2>1, <2>2 DEF EndOf
<1>12. CASE spoken < OpenFrames
    <2>1. preRoll' = lead /\ run' = spoken /\ UNCHANGED <<inSpeech, start, flags, voiced, silence>>
        BY <1>2, <1>12
    <2>2. RingFollows'
        BY <1>3, <1>9, <1>12, <2>1 DEF RingFollows
    <2>3. SpeechFollows'
        BY <1>1, <2>1 DEF SpeechFollows
    <2>4. RunIsWhole'
        <3>1. CASE v
            <4>1. spoken = run + 1 /\ Len(frames') - run' = Len(frames) - run
                BY <1>4, <1>5, <1>6, <2>1, <3>1
            <4>2. CASE run = Len(frames)
                <5>1. run' = Len(frames')
                    BY <1>5, <2>1, <4>1, <4>2
                <5> QED
                    BY <5>1 DEF RunIsWhole
            <4>3. CASE run # Len(frames) /\ ~frames[Len(frames) - run]
                <5>1. Len(frames) - run \in 1..Len(frames)
                    BY <1>3, <1>5, <1>6, <4>3
                <5>2. ~frames'[Len(frames') - run']
                    BY <1>5, <4>1, <4>3, <5>1
                <5> QED
                    BY <5>2 DEF RunIsWhole
            <4>4. CASE \E i \in 1..Len(segments) : EndOf(segments[i]) = Len(frames) - run
                <5>1. \E i \in 1..Len(segments') : EndOf(segments'[i]) = Len(frames') - run'
                    BY <1>1, <4>1, <4>4
                <5> QED
                    BY <5>1 DEF RunIsWhole, EndOf
            <4> QED
                BY <1>1, <1>6, <4>2, <4>3, <4>4 DEF RunIsWhole
        <3>2. CASE ~v
            <4>1. run' = 0 /\ Len(frames') - run' = Len(frames) + 1
                BY <1>4, <1>5, <2>1, <3>2
            <4>2. ~frames'[Len(frames') - run']
                BY <1>5, <3>2, <4>1
            <4> QED
                BY <4>2 DEF RunIsWhole
        <3> QED
            BY <3>1, <3>2
    <2>5. RunsAreInSegments'
        <3> SUFFICES ASSUME NEW k \in OpenFrames..Len(frames'), \A j \in k - OpenFrames + 1..k : frames'[j]
                     PROVE  InSegment(k)'
            BY DEF RunsAreInSegments
        <3>1. CASE k \in OpenFrames..Len(frames)
            BY <1>10, <3>1
        <3>2. CASE k \notin OpenFrames..Len(frames)
            <4>1. k = Len(frames) + 1 /\ OpenFrames \in Nat /\ OpenFrames >= 1 /\ OpenFrames <= k
                BY <1>5, <3>2, SegmenterBounds
            <4>2. frames'[k]
                <5>1. k \in k - OpenFrames + 1..k
                    BY <1>5, <4>1
                <5> QED
                    BY <5>1
            <4>3. v
                BY <1>5, <4>1, <4>2
            <4>4. run + 1 < OpenFrames
                BY <1>4, <1>12, <4>3
            <4>5. run # Len(frames)
                BY <1>5, <1>6, <4>1, <4>4
            <4>6. frames[Len(frames) - run]
                <5>1. Len(frames) - run \in k - OpenFrames + 1..k /\ Len(frames) - run \in 1..Len(frames)
                    BY <1>3, <1>5, <1>6, <4>1, <4>4, <4>5
                <5>2. frames'[Len(frames) - run]
                    BY <5>1
                <5> QED
                    BY <1>5, <5>1, <5>2
            <4>7. PICK i \in 1..Len(segments) : EndOf(segments[i]) = Len(frames) - run
                BY <1>1, <1>6, <4>5, <4>6 DEF RunIsWhole
            <4>8. segments[i].start < k /\ k - OpenFrames < EndOf(segments[i])
                BY <1>5, <1>6, <1>11, <4>1, <4>4, <4>7
            <4> QED
                BY <1>1, <4>8 DEF InSegment, EndOf
        <3> QED
            BY <3>1, <3>2
    <2> QED
        BY <1>7, <1>8, <2>2, <2>3, <2>4, <2>5 DEF SegmenterInv
<1>13. CASE ~(spoken < OpenFrames)
    <2>1. /\ inSpeech' = TRUE /\ flags' = lead /\ start' = Len(frames) + 1 - Len(lead) /\ voiced' = spoken
        BY <1>2, <1>13
    <2>2. start' = Len(frames') - Len(lead) /\ start' \in Nat /\ start' >= LastEnd /\ start' < Len(frames')
        BY <1>3, <1>5, <2>1
    <2>3. VoicedIn(lead) \in Nat /\ spoken <= VoicedIn(lead) /\ VoicedIn(lead) <= Len(lead)
        BY <1>3, VoicedCount, VoicedTail
    <2>4. spoken >= 1
        BY <1>3, <1>13, SegmenterBounds
    <2>5. SpeechFollows'
        <3>1. Matches(frames', start', flags')
            BY <1>3, <2>1, <2>2
        <3>2. start' + Len(flags') = Len(frames')
            BY <1>3, <1>5, <2>1
        <3>3. Len(flags') < MaxSegmentFrames
            BY <1>3, <2>1, SegmenterBounds
        <3>4. voiced' <= VoicedIn(flags') /\ VoicedIn(flags') <= voiced' + PreRollFrames
            BY <1>3, <2>1, <2>3, <2>4, SegmenterBounds
        <3>5. start' >= LastEnd' - OverlapFrames
            BY <1>3, <1>9, <2>2, SegmenterBounds
        <3> QED
            BY <3>1, <3>2, <3>3, <3>4, <3>5 DEF SpeechFollows
    <2>6. RingFollows' /\ RunIsWhole'
        BY <2>1 DEF RingFollows, RunIsWhole
    <2>7. RunsAreInSegments'
        <3> SUFFICES ASSUME NEW k \in OpenFrames..Len(frames'), \A j \in k - OpenFrames + 1..k : frames'[j]
                     PROVE  InSegment(k)'
            BY DEF RunsAreInSegments
        <3>1. CASE k \in OpenFrames..Len(frames)
            BY <1>10, <3>1
        <3>2. CASE k \notin OpenFrames..Len(frames)
            <4>1. k = Len(frames')
                BY <1>5, <3>2, SegmenterBounds
            <4> QED
                BY <2>1, <2>2, <4>1 DEF InSegment
        <3> QED
            BY <3>1, <3>2
    <2> QED
        BY <1>7, <1>8, <2>5, <2>6, <2>7 DEF SegmenterInv
<1> QED
    BY <1>12, <1>13

\* Nothing is open: the ring is empty and nothing runs.
LEMMA IdleAgain ==
    ASSUME Idle, frames' \in Seq(BOOLEAN), LastEnd' = Len(frames'), segments' \in Seq(CutOff),
           SegmentsFollow', RunsAreInSegments',
           \/ run' = Len(frames')
           \/ \E i \in 1..Len(segments') : EndOf(segments'[i]) = Len(frames')
    PROVE  SegmenterInv'
<1>1. /\ preRoll' = <<>> /\ run' = 0 /\ inSpeech' = FALSE
      /\ start' = 0 /\ flags' = <<>> /\ voiced' = 0 /\ silence' = 0
    BY DEF Idle
<1>2. Len(frames') \in Nat /\ Len(preRoll') = 0 /\ <<>> \in Seq(BOOLEAN)
    BY <1>1, QueueOps
<1>3. SegmenterTypes'
    BY <1>1, <1>2 DEF SegmenterTypes
<1>4. RingFollows'
    <2>1. Matches(frames', Len(frames') - Len(preRoll'), preRoll')
        BY <1>2 DEF Matches
    <2> QED
        BY <1>1, <1>2, <2>1, SegmenterBounds DEF RingFollows
<1>5. RunIsWhole'
    <2>1. Len(frames') - run' = Len(frames')
        BY <1>1, <1>2
    <2> QED
        BY <2>1 DEF RunIsWhole, EndOf
<1>6. SpeechFollows'
    BY <1>1 DEF SpeechFollows
<1> QED
    BY <1>3, <1>4, <1>5, <1>6 DEF SegmenterInv

\* A frame inside a segment: it grows, closes after silence, or is cut at its limit.
LEMMA ActiveKeeps ==
    ASSUME SegmenterInv, NEW v \in BOOLEAN, frames' = Append(frames, v), ActiveFrame(v)
    PROVE  SegmenterInv'
<1> DEFINE s == Append(flags, v)
           heard == IF v THEN voiced + 1 ELSE voiced
           quiet == IF v THEN 0 ELSE silence + 1
<1>1. inSpeech
    BY DEF ActiveFrame
<1>2. /\ SegmenterTypes /\ SpeechFollows /\ SegmentsFollow /\ RunsAreInSegments
      /\ flags \in Seq(BOOLEAN) /\ start \in Nat /\ voiced \in Nat /\ silence \in Nat
      /\ segments \in Seq(CutOff) /\ preRoll \in Seq(BOOLEAN) /\ run \in Nat
    BY DEF SegmenterInv, SegmenterTypes
<1>3. \/ quiet >= CloseFrames /\ Finished(s, start, heard) /\ Idle
      \/ /\ quiet < CloseFrames /\ Len(s) >= MaxSegmentFrames
         /\ Finished(s, start, heard) /\ CarryOver(s)
      \/ /\ quiet < CloseFrames /\ Len(s) < MaxSegmentFrames
         /\ flags' = s /\ voiced' = heard /\ silence' = quiet
         /\ UNCHANGED <<preRoll, run, inSpeech, start, segments>>
    BY DEF ActiveFrame
<1>4. /\ Len(flags) \in Nat /\ s \in Seq(BOOLEAN) /\ Len(s) = Len(flags) + 1
      /\ s[Len(flags) + 1] = v /\ \A i \in 1..Len(flags) : s[i] = flags[i]
    BY <1>2, QueueOps
<1>5. VoicedIn(flags) \in Nat /\ VoicedIn(s) = IF v THEN VoicedIn(flags) + 1 ELSE VoicedIn(flags)
    BY <1>2, VoicedCount
<1>6. /\ heard = IF v THEN voiced + 1 ELSE voiced
      /\ heard \in Nat /\ quiet \in Nat
    BY <1>2
<1> HIDE DEF s, heard, quiet
<1>7. /\ Len(frames) \in Nat /\ Len(frames') = Len(frames) + 1 /\ frames' \in Seq(BOOLEAN)
      /\ frames'[Len(frames) + 1] = v /\ \A i \in 1..Len(frames) : frames'[i] = frames[i]
      /\ \A first \in Nat, t \in Seq(BOOLEAN) : Matches(frames, first, t) => Matches(frames', first, t)
      /\ \A i \in 1..Len(segments) : Faithful(frames', segments[i])
    BY StreamGrows
<1>8. /\ Matches(frames', start, flags) /\ start + Len(flags) = Len(frames)
      /\ Len(flags) < MaxSegmentFrames
      /\ voiced <= VoicedIn(flags) /\ VoicedIn(flags) <= voiced + PreRollFrames
      /\ start >= LastEnd - OverlapFrames
    BY <1>1, <1>2, <1>7 DEF SpeechFollows
<1>9. heard <= VoicedIn(s) /\ VoicedIn(s) <= heard + PreRollFrames
    <2>1. voiced \in Nat /\ PreRollFrames \in Nat
        BY <1>2, SegmenterBounds
    <2>2. CASE v
        <3>1. heard = voiced + 1 /\ VoicedIn(s) = VoicedIn(flags) + 1 /\ VoicedIn(flags) \in Nat
            BY <1>5, <1>6, <2>2
        <3> QED
            BY <1>8, <2>1, <3>1
    <2>3. CASE ~v
        <3>1. heard = voiced /\ VoicedIn(s) = VoicedIn(flags)
            BY <1>5, <1>6, <2>3
        <3> QED
            BY <1>8, <3>1
    <2> QED
        BY <2>2, <2>3
<1>10. start + Len(s) = Len(frames') /\ Len(s) <= MaxSegmentFrames
       /\ start + (Len(flags) + 1) = Len(frames) + 1
    <2>1. start \in Nat /\ Len(flags) \in Nat /\ Len(s) = Len(flags) + 1 /\ Len(frames) \in Nat
          /\ Len(frames') = Len(frames) + 1
        BY <1>2, <1>4, <1>7
    <2> QED
        BY <1>8, <2>1, SegmenterBounds
<1>11. Matches(frames', start, s)
    <2>1. ASSUME NEW i \in 1..Len(s) PROVE s[i] = frames'[start + i]
        <3>1. CASE i = Len(flags) + 1
            <4>1. start + i = Len(frames) + 1
                BY <1>10, <3>1
            <4> QED
                BY <1>4, <1>7, <3>1, <4>1
        <3>2. CASE i # Len(flags) + 1
            <4>1. i \in 1..Len(flags)
                BY <1>4, <3>2
            <4> QED
                BY <1>4, <1>8, <4>1 DEF Matches
        <3> QED
            BY <3>1, <3>2
    <2>2. start + Len(s) <= Len(frames')
        BY <1>7, <1>10
    <2> QED
        BY <2>1, <2>2 DEF Matches
<1>12. ASSUME Finished(s, start, heard)
       PROVE  /\ segments' \in Seq(CutOff) /\ SegmentsFollow'
              /\ LastEnd' = Len(frames')
              /\ \E i \in 1..Len(segments') : EndOf(segments'[i]) = Len(frames')
              /\ RunsAreInSegments'
    <2>1. Len(frames') >= Len(frames)
        BY <1>7
    <2> QED
        BY <1>1, <1>4, <1>6, <1>7, <1>9, <1>10, <1>11, <1>12, <2>1, SegmentEnds
<1>13. CASE Finished(s, start, heard) /\ Idle
    BY <1>7, <1>12, <1>13, IdleAgain
<1>14. CASE Finished(s, start, heard) /\ CarryOver(s)
    <2> DEFINE tail == LastOf(s, OverlapFrames)
    <2>1. /\ start' = start + Len(s) - Len(tail) /\ flags' = tail
          /\ voiced' = VoicedIn(tail) /\ silence' = 0
          /\ preRoll' = preRoll /\ run' = run /\ inSpeech' = inSpeech
        BY <1>14 DEF CarryOver
    <2>2. /\ tail \in Seq(BOOLEAN)
          /\ Len(tail) = IF Len(s) > OverlapFrames THEN OverlapFrames ELSE Len(s)
          /\ \A i \in 1..Len(tail) : tail[i] = s[Len(s) - Len(tail) + i]
        BY <1>4, SegmenterBounds, LastFrames
    <2> HIDE DEF tail
    <2>3. Len(tail) \in Nat /\ Len(tail) <= OverlapFrames /\ Len(tail) <= Len(s)
        BY <1>4, <2>2, SegmenterBounds
    <2>4. start' \in Nat /\ start' + Len(tail) = Len(frames') /\ start' = Len(frames') - Len(tail)
        BY <1>2, <1>4, <1>7, <1>10, <2>1, <2>3
    <2>5. VoicedIn(tail) \in Nat
        BY <2>2, VoicedCount
    <2>6. Matches(frames', start', tail)
        <3>1. ASSUME NEW i \in 1..Len(tail) PROVE tail[i] = frames'[start' + i]
            <4>1. Len(s) - Len(tail) + i \in 1..Len(s)
                BY <1>4, <2>3
            <4>2. start + (Len(s) - Len(tail) + i) = start' + i
                BY <1>2, <1>4, <2>1, <2>3
            <4> QED
                BY <1>11, <2>2, <4>1, <4>2 DEF Matches
        <3>2. start' + Len(tail) <= Len(frames')
            BY <1>7, <2>4
        <3> QED
            BY <3>1, <3>2 DEF Matches
    <2>7. SegmenterTypes'
        <3>1. inSpeech' \in BOOLEAN /\ preRoll' \in Seq(BOOLEAN) /\ run' \in Nat /\ silence' \in Nat
            BY <1>1, <1>2, <2>1 DEF SegmenterTypes
        <3> QED
            BY <1>7, <1>12, <1>14, <2>1, <2>2, <2>4, <2>5, <3>1 DEF SegmenterTypes
    <2>8. SpeechFollows'
        <3>1. Len(flags') < MaxSegmentFrames
            BY <2>1, <2>3, SegmenterBounds
        <3>2. voiced' <= VoicedIn(flags') /\ VoicedIn(flags') <= voiced' + PreRollFrames
            BY <2>1, <2>5, SegmenterBounds
        <3>3. start' >= LastEnd' - OverlapFrames
            BY <1>7, <1>12, <1>14, <2>3, <2>4, SegmenterBounds
        <3> QED
            BY <2>1, <2>4, <2>6, <3>1, <3>2, <3>3 DEF SpeechFollows
    <2>9. RingFollows' /\ RunIsWhole'
        BY <1>1, <2>1 DEF RingFollows, RunIsWhole
    <2> QED
        BY <1>12, <1>14, <2>7, <2>8, <2>9 DEF SegmenterInv
<1>15. CASE /\ Len(s) < MaxSegmentFrames
            /\ flags' = s /\ voiced' = heard /\ silence' = quiet
            /\ UNCHANGED <<preRoll, run, inSpeech, start, segments>>
    <2>1. SegmenterTypes'
        BY <1>2, <1>4, <1>6, <1>7, <1>15 DEF SegmenterTypes
    <2>2. LastEnd' = LastEnd
        BY <1>15 DEF LastEnd, EndOf
    <2>3. SpeechFollows'
        BY <1>8, <1>9, <1>10, <1>11, <1>15, <2>2 DEF SpeechFollows
    <2>4. RingFollows' /\ RunIsWhole'
        BY <1>1, <1>15 DEF RingFollows, RunIsWhole
    <2>5. SegmentsFollow'
        BY <1>2, <1>7, <1>15 DEF SegmentsFollow, EndOf
    <2>6. RunsAreInSegments'
        <3> SUFFICES ASSUME NEW k \in OpenFrames..Len(frames'), \A j \in k - OpenFrames + 1..k : frames'[j]
                     PROVE  InSegment(k)'
            BY DEF RunsAreInSegments
        <3>1. CASE k \in OpenFrames..Len(frames)
            <4>1. \A j \in k - OpenFrames + 1..k : j \in 1..Len(frames)
                BY <1>7, <3>1, SegmenterBounds
            <4>2. InSegment(k)
                BY <1>2, <1>7, <3>1, <4>1 DEF RunsAreInSegments
            <4> QED
                BY <1>15, <4>2 DEF InSegment, EndOf
        <3>2. CASE k \notin OpenFrames..Len(frames)
            <4>1. k > start
                BY <1>2, <1>4, <1>7, <1>8, <3>2, SegmenterBounds
            <4> QED
                BY <1>1, <1>15, <4>1 DEF InSegment
        <3> QED
            BY <3>1, <3>2
    <2> QED
        BY <2>1, <2>3, <2>4, <2>5, <2>6 DEF SegmenterInv
<1> QED
    BY <1>3, <1>13, <1>14, <1>15

\* The end of the stream closes what is open.
LEMMA FlushKeeps ==
    ASSUME SegmenterInv, Flush
    PROVE  SegmenterInv'
<1>1. inSpeech /\ Finished(flags, start, voiced) /\ Idle /\ frames' = frames
    BY DEF Flush
<1>2. /\ frames \in Seq(BOOLEAN) /\ flags \in Seq(BOOLEAN) /\ voiced \in Nat
      /\ SpeechFollows /\ SegmentsFollow
    BY DEF SegmenterInv, SegmenterTypes
<1>3. Len(frames) \in Nat /\ Len(flags) \in Nat
    BY <1>2, QueueOps
<1>4. /\ Matches(frames', start, flags) /\ start + Len(flags) = Len(frames')
      /\ Len(flags) <= MaxSegmentFrames
      /\ voiced <= VoicedIn(flags) /\ VoicedIn(flags) <= voiced + PreRollFrames
    BY <1>1, <1>2, <1>3, SegmenterBounds DEF SpeechFollows
<1>5. \A i \in 1..Len(segments) : Faithful(frames', segments[i])
    BY <1>1, <1>2 DEF SegmentsFollow
<1>6. Len(frames') >= Len(frames) /\ \A i \in 1..Len(frames) : frames'[i] = frames[i]
    BY <1>1, <1>3
<1>7. /\ segments' \in Seq(CutOff) /\ SegmentsFollow'
      /\ LastEnd' = Len(frames')
      /\ \E i \in 1..Len(segments') : EndOf(segments'[i]) = Len(frames')
      /\ RunsAreInSegments'
    BY <1>1, <1>2, <1>4, <1>5, <1>6, SegmentEnds
<1> QED
    BY <1>1, <1>2, <1>7, IdleAgain

\* A stream without frames.
LEMMA FreshStream ==
    ASSUME frames' = <<>>, segments' = <<>>, Idle
    PROVE  SegmenterInv'
<1>1. Len(frames') = 0 /\ Len(segments') = 0 /\ frames' \in Seq(BOOLEAN) /\ segments' \in Seq(CutOff)
    OBVIOUS
<1>2. SegmentsFollow'
    BY <1>1 DEF SegmentsFollow
<1>3. RunsAreInSegments'
    BY <1>1, SegmenterBounds DEF RunsAreInSegments
<1>4. LastEnd' = Len(frames')
    BY <1>1 DEF LastEnd
<1>5. run' = Len(frames')
    BY <1>1 DEF Idle
<1> QED
    BY <1>1, <1>2, <1>3, <1>4, <1>5, IdleAgain

\* No frame, no segment.
LEMMA SegmenterStart == SegmenterInit => SegmenterInv
<1> SUFFICES ASSUME SegmenterInit PROVE SegmenterInv
    OBVIOUS
<1>1. /\ frames = <<>> /\ preRoll = <<>> /\ run = 0 /\ inSpeech = FALSE
      /\ start = 0 /\ flags = <<>> /\ voiced = 0 /\ silence = 0 /\ segments = <<>>
    BY DEF SegmenterInit
<1>2. Len(frames) = 0 /\ Len(preRoll) = 0 /\ Len(segments) = 0
    BY <1>1
<1>3. SegmenterTypes
    <2>1. <<>> \in Seq(BOOLEAN) /\ <<>> \in Seq(CutOff)
        OBVIOUS
    <2>2. 0 \in Nat /\ FALSE \in BOOLEAN
        OBVIOUS
    <2> QED
        BY <1>1, <2>1, <2>2, Zenon DEF SegmenterTypes
<1>4. RingFollows
    <2>1. LastEnd = 0
        BY <1>1 DEF LastEnd
    <2>2. Matches(frames, Len(frames) - Len(preRoll), preRoll)
        BY <1>2 DEF Matches
    <2> QED
        BY <1>1, <1>2, <2>1, <2>2, SegmenterBounds DEF RingFollows
<1>5. RunIsWhole /\ SpeechFollows /\ SegmentsFollow
    BY <1>1, <1>2 DEF RunIsWhole, SpeechFollows, SegmentsFollow
<1>6. RunsAreInSegments
    BY <1>2, SegmenterBounds DEF RunsAreInSegments
<1> QED
    BY <1>3, <1>4, <1>5, <1>6 DEF SegmenterInv

\* Every frame, and the flush, keeps the invariant.
LEMMA SegmenterStep == SegmenterInv /\ [SegmenterNext]_segmenterVars => SegmenterInv'
<1>1. ASSUME SegmenterInv, NEW v \in BOOLEAN, ConsumeFrame(v) PROVE SegmenterInv'
    <2>1. frames' = Append(frames, v) /\ (IdleFrame(v) \/ ActiveFrame(v))
        BY <1>1 DEF ConsumeFrame
    <2> QED
        BY <1>1, <2>1, IdleKeeps, ActiveKeeps
<1>2. ASSUME SegmenterInv, ResetStream PROVE SegmenterInv'
    BY <1>2, FreshStream DEF ResetStream
<1>3. ASSUME SegmenterInv, UNCHANGED segmenterVars PROVE SegmenterInv'
    <2>1. UNCHANGED <<frames, preRoll, run, inSpeech, start, flags, voiced, silence, segments>>
        BY <1>3 DEF segmenterVars
    <2>2. LastEnd' = LastEnd
        BY <2>1 DEF LastEnd, EndOf
    <2> QED
        BY <1>3, <2>1, <2>2 DEF SegmenterInv, SegmenterTypes, RingFollows, RunIsWhole, SpeechFollows,
           SegmentsFollow, RunsAreInSegments, InSegment, EndOf
<1> QED
    BY <1>1, <1>2, <1>3, FlushKeeps DEF SegmenterNext

\* A piece of the stream is that subsequence of it.
LEMMA PieceOfTheStream ==
    ASSUME NEW fr \in Seq(BOOLEAN), NEW first \in Nat, NEW s \in Seq(BOOLEAN), Matches(fr, first, s)
    PROVE  s = SubSeq(fr, first + 1, first + Len(s))
<1>1. Len(s) \in Nat /\ Len(fr) \in Nat /\ first + Len(s) <= Len(fr) /\ DOMAIN s = 1..Len(s)
      /\ \A i \in 1..Len(s) : s[i] = fr[first + i]
    BY QueueOps DEF Matches
<1> DEFINE t == SubSeq(fr, first + 1, first + Len(s))
<1>2. \A i \in first + 1..first + Len(s) : fr[i] \in BOOLEAN
    <2>1. \A i \in first + 1..first + Len(s) : i \in 1..Len(fr)
        BY <1>1
    <2> QED
        BY <2>1, QueueOps
<1>3. first + 1 \in Int /\ first + Len(s) \in Int /\ first + Len(s) - (first + 1) + 1 = Len(s)
      /\ (first + 1 <= first + Len(s) <=> Len(s) # 0)
    BY <1>1
<1>4. /\ t \in Seq(BOOLEAN)
      /\ Len(t) = IF first + 1 <= first + Len(s) THEN first + Len(s) - (first + 1) + 1 ELSE 0
      /\ \A i \in 1..first + Len(s) - (first + 1) + 1 : t[i] = fr[first + 1 + i - 1]
    BY <1>2, <1>3, SubSeqProperties
<1> HIDE DEF t
<1>5. Len(t) = Len(s)
    BY <1>1, <1>3, <1>4
<1>6. ASSUME NEW i \in 1..Len(s) PROVE t[i] = s[i]
    <2>1. first + 1 + i - 1 = first + i
        BY <1>1
    <2> QED
        BY <1>1, <1>3, <1>4, <2>1
<1>7. t = s
    BY <1>4, <1>5, <1>6, SeqEqual
<1> QED
    BY <1>7 DEF t

\* Segments are faithful to the stream, by the invariant.
LEMMA SegmenterFaithful == SegmenterInv => SegmentsAreFaithful
<1> SUFFICES ASSUME SegmenterInv PROVE SegmentsAreFaithful
    OBVIOUS
<1>1. SegmenterTypes /\ SpeechFollows /\ SegmentsFollow /\ RunsAreInSegments
    BY DEF SegmenterInv
<1>2. frames \in Seq(BOOLEAN) /\ flags \in Seq(BOOLEAN) /\ start \in Nat /\ segments \in Seq(CutOff)
    BY <1>1 DEF SegmenterTypes
<1>3. ASSUME NEW i \in 1..Len(segments)
      PROVE  segments[i].flags = SubSeq(frames, segments[i].start + 1, EndOf(segments[i]))
    <2>1. segments[i] \in CutOff
        BY <1>2, QueueOps
    <2>2. segments[i].start \in Nat /\ segments[i].flags \in Seq(BOOLEAN)
        BY <2>1 DEF CutOff
    <2>3. Matches(frames, segments[i].start, segments[i].flags)
        BY <1>1 DEF SegmentsFollow, Faithful
    <2> QED
        BY <1>2, <2>2, <2>3, PieceOfTheStream DEF EndOf
<1>4. inSpeech => flags = SubSeq(frames, start + 1, start + Len(flags))
    BY <1>1, <1>2, PieceOfTheStream DEF SpeechFollows
<1>5. inSpeech /\ segments # <<>> => start >= EndOf(segments[Len(segments)]) - OverlapFrames
    BY <1>1 DEF SpeechFollows, LastEnd
<1>6. NoSpeechLost
    BY <1>1, <1>5 DEF NoSpeechLost, SegmentsFollow, Faithful, RunsAreInSegments, InSegment
<1> QED
    BY <1>3, <1>4, <1>6 DEF SegmentsAreFaithful, FlagsMatchTheStream

\* SegmentsAreFaithful: of the segmenter by itself.
THEOREM SegmenterIsFaithful == SegmenterSpec => []SegmentsAreFaithful
BY SegmenterStart, SegmenterStep, SegmenterFaithful, PTL DEF SegmenterSpec

-----------------------------------------------------------------------------
(* Snapshots of the screen: the inductive invariant.                       *)

HeldWindows == {w \in Windows : cache[w] # NoTree}

Entries == [tree : Trees \cup {-1}, at : Int]

HopsOfWindows ==
    /\ shown \in [Windows -> Trees] /\ inFocus \in Windows
    /\ hops \in Seq(Windows)
    /\ walked = NoWalk \/ (walked.window \in Windows /\ walked.tree \in Trees)
    /\ ttls \in Nat

\* The cache is of the past and agrees with the rows, except for a row that was lost.
CacheFollows ==
    /\ cache \in [Windows -> Entries] /\ rows \in [Windows -> Entries]
    /\ \A w \in Windows : cache[w].at <= ttls
    /\ \A w \in Windows : cache[w] # NoTree /\ w \notin rowLost => cache[w] = rows[w]

CacheHasRoom == IsFiniteSet(HeldWindows) /\ Cardinality(HeldWindows) <= CacheEntries

ScreensInv == HopsOfWindows /\ CacheFollows /\ CacheHasRoom /\ ~overlooked

\* Before the first trigger the cache is empty.
LEMMA ScreensStart == SnapshotInit => ScreensInv
<1> SUFFICES ASSUME SnapshotInit PROVE ScreensInv
    OBVIOUS
<1>1. HopsOfWindows
    BY SnapshotAssumption DEF SnapshotInit, HopsOfWindows, Trees, SnapshotAssumption
<1>2. CacheFollows
    BY DEF SnapshotInit, CacheFollows, Entries, NoTree
<1>3. HeldWindows = {}
    BY DEF SnapshotInit, HeldWindows
<1>4. CacheHasRoom
    BY <1>3, FS_EmptySet, SnapshotAssumption DEF CacheHasRoom, SnapshotAssumption
<1> QED
    BY <1>1, <1>2, <1>4 DEF SnapshotInit, ScreensInv

\* A tree is skipped only if a fresh row looks like it.
LEMMA SkippedIsFresh ==
    ASSUME ScreensInv, NEW w \in Windows, NEW tree, ~ShouldStore(w, tree)
    PROVE  HasFreshRow(w, tree)
<1>1. cache[w] # NoTree /\ Alike(cache[w].tree, tree) /\ ~(ttls - cache[w].at >= 1)
    BY DEF ShouldStore
<1>2. ttls \in Nat /\ cache[w].at \in Int /\ cache[w].at <= ttls
    BY DEF ScreensInv, HopsOfWindows, CacheFollows, Entries
<1>3. cache[w].at = ttls
    BY <1>1, <1>2
<1>4. w \notin rowLost => cache[w] = rows[w]
    BY <1>1 DEF ScreensInv, CacheFollows
<1> QED
    BY <1>1, <1>3, <1>4 DEF HasFreshRow

\* One entry more, and one less when there are too many.
LEMMA EvictionMakesRoom ==
    ASSUME ScreensInv, NEW w \in Windows, NEW e \in Entries, e.at <= ttls,
           NEW c \in Evictions([cache EXCEPT ![w] = e])
    PROVE  /\ c \in [Windows -> Entries]
           /\ \A x \in Windows : c[x] = NoTree \/ c[x] = IF x = w THEN e ELSE cache[x]
           /\ IsFiniteSet({x \in Windows : c[x] # NoTree})
           /\ Cardinality({x \in Windows : c[x] # NoTree}) <= CacheEntries
<1> DEFINE d == [cache EXCEPT ![w] = e]
           H == {x \in Windows : d[x] # NoTree}
<1>1. cache \in [Windows -> Entries] /\ NoTree \in Entries
    BY DEF ScreensInv, CacheFollows, Entries, NoTree
<1>2. d \in [Windows -> Entries] /\ \A x \in Windows : d[x] = IF x = w THEN e ELSE cache[x]
    BY <1>1
<1>3. c \in Evictions(d)
    OBVIOUS
<1> HIDE DEF d
<1>4. H \in SUBSET (HeldWindows \cup {w})
    BY <1>2 DEF HeldWindows
<1>5. IsFiniteSet(HeldWindows) /\ Cardinality(HeldWindows) <= CacheEntries /\ CacheEntries \in Nat
    <2>1. CacheHasRoom
        BY DEF ScreensInv
    <2> QED
        BY <2>1, SnapshotAssumption DEF CacheHasRoom, SnapshotAssumption
<1>6. IsFiniteSet(HeldWindows \cup {w}) /\ Cardinality(HeldWindows \cup {w}) <= CacheEntries + 1
    <2>1. Cardinality(HeldWindows) \in Nat
        BY <1>5, FS_CardinalityType
    <2>2. /\ IsFiniteSet(HeldWindows \cup {w})
          /\ Cardinality(HeldWindows \cup {w}) =
                IF w \in HeldWindows THEN Cardinality(HeldWindows) ELSE Cardinality(HeldWindows) + 1
        BY <1>5, FS_AddElement, Zenon
    <2> QED
        BY <1>5, <2>1, <2>2
<1>7. IsFiniteSet(H) /\ Cardinality(H) <= CacheEntries + 1 /\ Cardinality(H) \in Nat
    BY <1>4, <1>5, <1>6, FS_Subset, FS_CardinalityType
<1>8. CASE Cardinality(H) <= CacheEntries
    <2>1. c = d
        BY <1>3, <1>8 DEF Evictions
    <2> QED
        BY <1>2, <1>7, <1>8, <2>1
<1>9. CASE ~(Cardinality(H) <= CacheEntries)
    <2>1. PICK y \in H : c = [d EXCEPT ![y] = NoTree]
        BY <1>3, <1>9 DEF Evictions
    <2>2. \A x \in Windows : c[x] = IF x = y THEN NoTree ELSE d[x]
        BY <1>2, <2>1
    <2>3. {x \in Windows : c[x] # NoTree} = H \ {y}
        BY <2>2
    <2>4. IsFiniteSet(H \ {y}) /\ Cardinality(H \ {y}) = Cardinality(H) - 1
        BY <1>7, FS_RemoveElement
    <2>5. c \in [Windows -> Entries]
        BY <1>1, <1>2, <2>1
    <2>6. Cardinality(H \ {y}) <= CacheEntries
        BY <1>5, <1>7, <2>4
    <2>7. \A x \in Windows : c[x] = NoTree \/ c[x] = IF x = w THEN e ELSE cache[x]
        BY <1>2, <2>2
    <2> QED
        BY <2>3, <2>4, <2>5, <2>6, <2>7
<1> QED
    BY <1>8, <1>9

\* Each trigger, snapshot, expiry and row keeps the invariant.
LEMMA ScreensKeep ==
    ASSUME ScreensInv, SnapshotNext
    PROVE  ScreensInv'
<1>1. CASE Redraw
    BY <1>1 DEF Redraw, ScreensInv, HopsOfWindows, CacheFollows, CacheHasRoom, HeldWindows
<1>2. CASE TtlPasses
    <2>1. CacheHasRoom'
        BY <1>2 DEF TtlPasses, ScreensInv, CacheHasRoom, HeldWindows
    <2>2. HopsOfWindows' /\ ~overlooked'
        BY <1>2 DEF TtlPasses, ScreensInv, HopsOfWindows
    <2>3. ttls \in Nat /\ ttls' = ttls + 1 /\ UNCHANGED <<cache, rows, rowLost>>
        BY <1>2 DEF TtlPasses, ScreensInv, HopsOfWindows
    <2>4. \A n \in Int : n <= ttls => n <= ttls'
        BY <2>3
    <2>5. CacheFollows'
        BY <2>3, <2>4 DEF ScreensInv, CacheFollows, Entries
    <2> QED
        BY <2>1, <2>2, <2>5 DEF ScreensInv
<1>3. CASE FocusHop
    <2>1. hops' \in Seq(Windows)
        BY <1>3 DEF FocusHop, ScreensInv, HopsOfWindows
    <2> QED
        BY <1>3, <2>1 DEF FocusHop, ScreensInv, HopsOfWindows, CacheFollows, CacheHasRoom, HeldWindows
<1>4. CASE Walk
    <2>1. Head(hops) \in Windows /\ Tail(hops) \in Seq(Windows)
        BY <1>4, QueueOps DEF Walk, ScreensInv, HopsOfWindows
    <2>2. FocusedTree \in Trees
        BY DEF FocusedTree, ScreensInv, HopsOfWindows
    <2>3. HopsOfWindows'
        BY <1>4, <2>1, <2>2 DEF Walk, ScreensInv, HopsOfWindows
    <2> QED
        BY <1>4, <2>3 DEF Walk, ScreensInv, CacheFollows, CacheHasRoom, HeldWindows
<1>5. CASE Skip
    <2>1. walked.window \in Windows
        BY <1>5 DEF Skip, ScreensInv, HopsOfWindows
    <2>2. HasFreshRow(walked.window, walked.tree)
        BY <1>5, <2>1, SkippedIsFresh DEF Skip
    <2> QED
        BY <1>5, <2>2 DEF Skip, ScreensInv, HopsOfWindows, CacheFollows, CacheHasRoom, HeldWindows
<1>6. CASE Store
    <2> DEFINE w == walked.window
               e == [tree |-> walked.tree, at |-> ttls]
    <2>1. w \in Windows /\ ttls \in Nat
        BY <1>6 DEF Store, ScreensInv, HopsOfWindows
    <2>2. /\ walked' = NoWalk
          /\ cache' \in Evictions([cache EXCEPT ![w] = e])
          /\ \/ rows' = [rows EXCEPT ![w] = e] /\ rowLost' = rowLost \ {w}
             \/ rowLost' = rowLost \cup {w} /\ rows' = rows
          /\ UNCHANGED <<shown, inFocus, hops, overlooked, ttls>>
        BY <1>6 DEF Store
    <2>3. walked.tree \in Trees
        BY <1>6 DEF Store, ScreensInv, HopsOfWindows
    <2>4. e \in Entries /\ e.at <= ttls /\ e.at = ttls
        BY <2>1, <2>3 DEF Entries
    <2> HIDE DEF w, e
    <2>5. /\ cache' \in [Windows -> Entries]
          /\ \A x \in Windows : cache'[x] = NoTree \/ cache'[x] = IF x = w THEN e ELSE cache[x]
          /\ IsFiniteSet({x \in Windows : cache'[x] # NoTree})
          /\ Cardinality({x \in Windows : cache'[x] # NoTree}) <= CacheEntries
        BY <2>1, <2>2, <2>4, EvictionMakesRoom
    <2>6. CacheHasRoom'
        BY <2>5 DEF CacheHasRoom, HeldWindows
    <2>7. HopsOfWindows' /\ ~overlooked'
        BY <2>2 DEF ScreensInv, HopsOfWindows
    <2>8. CacheFollows
        BY DEF ScreensInv
    <2>9. rows' \in [Windows -> Entries]
        BY <2>1, <2>2, <2>4, <2>8 DEF CacheFollows
    <2>10. \A x \in Windows : cache'[x].at <= ttls'
        <3>1. NoTree.at = 0
            BY DEF NoTree
        <3> QED
            BY <2>1, <2>2, <2>4, <2>5, <2>8, <3>1 DEF CacheFollows
    <2>11. \A x \in Windows : cache'[x] # NoTree /\ x \notin rowLost' => cache'[x] = rows'[x]
        BY <2>1, <2>2, <2>5, <2>8 DEF CacheFollows
    <2>12. CacheFollows'
        BY <2>5, <2>9, <2>10, <2>11 DEF CacheFollows
    <2> QED
        BY <2>6, <2>7, <2>12 DEF ScreensInv
<1> QED
    BY <1>1, <1>2, <1>3, <1>4, <1>5, <1>6 DEF SnapshotNext

\* The same for a step that may stutter.
LEMMA ScreensStep == ScreensInv /\ [SnapshotNext]_snapshotVars => ScreensInv'
<1>1. ScreensInv /\ UNCHANGED snapshotVars => ScreensInv'
    BY DEF snapshotVars, ScreensInv, HopsOfWindows, CacheFollows, CacheHasRoom, HeldWindows
<1> QED
    BY <1>1, ScreensKeep

\* What the cache skips is in a row that landed, by the invariant.
LEMMA ScreensSampled == ScreensInv => ScreensAreSampled
BY DEF ScreensInv, CacheFollows, CacheHasRoom, HeldWindows, ScreensAreSampled

\* ScreensAreSampled: of the snapshots by themselves.
THEOREM SnapshotsAreSampled == SnapshotSpec => []ScreensAreSampled
BY ScreensStart, ScreensStep, ScreensSampled, PTL DEF SnapshotSpec


-----------------------------------------------------------------------------
(* What is typed: the line of the inputs.                                  *)

\* The inputs in line: written in order, all written, buffered, the click in hand, raw;
\* up to input n.
InputsInLine(K, W, B, C, R, n) ==
  /\ K \in Seq(Nat) /\ W \in Seq(Nat) /\ B \in Seq(Nat) /\ R \in Seq(Nat) /\ C \subseteq Nat /\ n \in Nat
  /\ Up(K) /\ Up(B) /\ Up(R)
  /\ Before(ToSet(K), ToSet(B) \cup C \cup ToSet(R))
  /\ Before(ToSet(B), C \cup ToSet(R)) /\ Before(C, ToSet(R))
  /\ IsInjective(W) /\ ToSet(W) \cap (ToSet(B) \cup C \cup ToSet(R)) = {}
  /\ \A x \in ToSet(K) \cup ToSet(W) \cup ToSet(B) \cup C \cup ToSet(R) : x <= n

\* The types of an input line, taken out of its definition.
LEMMA LineOfNumbers ==
  ASSUME NEW K, NEW W, NEW B, NEW C, NEW R, NEW n, InputsInLine(K, W, B, C, R, n)
  PROVE  /\ K \in Seq(Nat) /\ W \in Seq(Nat) /\ B \in Seq(Nat) /\ R \in Seq(Nat) /\ n \in Nat /\ C \subseteq Nat
         /\ ToSet(K) \subseteq Nat /\ ToSet(W) \subseteq Nat /\ ToSet(B) \subseteq Nat /\ ToSet(R) \subseteq Nat
<1>1. K \in Seq(Nat) /\ W \in Seq(Nat) /\ B \in Seq(Nat) /\ R \in Seq(Nat) /\ n \in Nat /\ C \subseteq Nat
    BY DEF InputsInLine
<1>2. \A q \in Seq(Nat) : ToSet(q) \subseteq Nat
    BY NumberQueue
<1> QED
    BY <1>1, <1>2

\* A new input goes to the end of the line, or is lost.
LEMMA InputArrives ==
  ASSUME NEW K, NEW W, NEW B, NEW C, NEW R, NEW n, InputsInLine(K, W, B, C, R, n)
  PROVE  InputsInLine(K, W, B, C, Append(R, n + 1), n + 1) /\ InputsInLine(K, W, B, C, R, n + 1)
<1> DEFINE A == Append(R, n + 1)
<1>1. /\ A \in Seq(Nat) /\ ToSet(A) = ToSet(R) \cup {n + 1}
      /\ Up(A) <=> Up(R) /\ Before(ToSet(R), {n + 1})
    <2>1. n + 1 \in Nat /\ R \in Seq(Nat)
        BY DEF InputsInLine
    <2> QED
        BY <2>1, NumberAdded
<1>2. /\ ToSet(K) \subseteq Nat /\ ToSet(W) \subseteq Nat /\ ToSet(B) \subseteq Nat /\ ToSet(R) \subseteq Nat
      /\ C \subseteq Nat /\ n \in Nat
    BY LineOfNumbers
<1>3. \A x \in ToSet(K) \cup ToSet(W) \cup ToSet(B) \cup C \cup ToSet(R) : x < n + 1 /\ x <= n + 1
    <2>1. \A x \in ToSet(K) \cup ToSet(W) \cup ToSet(B) \cup C \cup ToSet(R) : x <= n /\ x \in Nat
        BY <1>2 DEF InputsInLine
    <2> HIDE DEF A
    <2> QED
        BY <1>2, <2>1
<1> HIDE DEF A
<1>4. Up(A)
    BY <1>1, <1>3 DEF InputsInLine, Before
<1>5. /\ Before(ToSet(K), ToSet(B) \cup C \cup ToSet(A)) /\ Before(ToSet(B), C \cup ToSet(A)) /\ Before(C, ToSet(A))
      /\ ToSet(W) \cap (ToSet(B) \cup C \cup ToSet(A)) = {}
    <2>1. n + 1 \notin ToSet(W)
        BY <1>2, <1>3
    <2> QED
        BY <1>1, <1>3, <2>1 DEF InputsInLine, Before
<1>6. \A x \in ToSet(K) \cup ToSet(W) \cup ToSet(B) \cup C \cup ToSet(A) : x <= n + 1
    BY <1>1, <1>2, <1>3
<1>7. n + 1 \in Nat
    BY <1>2
<1> QED
    BY <1>1, <1>3, <1>4, <1>5, <1>6, <1>7 DEF InputsInLine, A

\* The buffer, flushed or dropped.
LEMMA BufferFlushed ==
  ASSUME NEW K, NEW W, NEW B, NEW C, NEW R, NEW n, InputsInLine(K, W, B, C, R, n)
  PROVE  /\ InputsInLine(K \o B, W \o B, <<>>, C, R, n)
         /\ InputsInLine(K, W, <<>>, C, R, n)
<1>1. /\ K \in Seq(Nat) /\ W \in Seq(Nat) /\ B \in Seq(Nat) /\ R \in Seq(Nat) /\ <<>> \in Seq(Nat)
    BY DEF InputsInLine
<1>2. /\ K \o B \in Seq(Nat) /\ W \o B \in Seq(Nat) /\ ToSet(<<>>) = {} /\ Up(<<>>)
      /\ ToSet(K \o B) = ToSet(K) \cup ToSet(B) /\ ToSet(W \o B) = ToSet(W) \cup ToSet(B)
    <2>1. K \o B \in Seq(Nat) /\ ToSet(K \o B) = ToSet(K) \cup ToSet(B)
        BY <1>1, NumbersJoined
    <2>2. W \o B \in Seq(Nat) /\ ToSet(W \o B) = ToSet(W) \cup ToSet(B)
        BY <1>1, NumbersJoined
    <2> QED
        BY <2>1, <2>2, NoNumber
<1>3. Up(K \o B) <=> Up(K) /\ Up(B) /\ Before(ToSet(K), ToSet(B))
    BY <1>1, NumbersJoined
<1>4. IsInjective(W \o B)
    <2>1. IsInjective(B) /\ IsInjective(W) /\ ToSet(W) \cap ToSet(B) = {}
        BY <1>1, Injective DEF InputsInLine
    <2> QED
        BY <1>1, <2>1, NumbersJoined
<1>5. Before(ToSet(K), ToSet(B))
    BY DEF InputsInLine, Before
<1>6. InputsInLine(K, W, <<>>, C, R, n)
    BY <1>1, <1>2 DEF InputsInLine, Before
<1>7. /\ Before(ToSet(K) \cup ToSet(B), {} \cup C \cup ToSet(R))
      /\ (ToSet(W) \cup ToSet(B)) \cap ({} \cup C \cup ToSet(R)) = {}
    <2>1. ToSet(B) \cap (C \cup ToSet(R)) = {}
        <3>1. \A x \in ToSet(B), y \in C \cup ToSet(R) : x < y /\ x \in Nat /\ y \in Nat
            <4>1. \A x \in ToSet(B), y \in C \cup ToSet(R) : x < y
                BY DEF InputsInLine, Before
            <4> QED
                BY <4>1, LineOfNumbers
        <3>2. \A x \in ToSet(B), y \in C \cup ToSet(R) : x # y
            BY <3>1
        <3> QED
            BY <3>2
    <2> QED
        BY <2>1 DEF InputsInLine, Before
<1> QED
    BY <1>1, <1>2, <1>3, <1>4, <1>5, <1>6, <1>7 DEF InputsInLine, Before

\* The first raw input, dropped; or buffered, or a click, or written at once if nothing
\* is in hand before it; or a scroll, written whatever is.
LEMMA InputTaken ==
  ASSUME NEW K, NEW W, NEW B, NEW R, NEW n, InputsInLine(K, W, B, {}, R, n), R # <<>>
  PROVE  /\ InputsInLine(K, W, B, {}, Tail(R), n)
         /\ InputsInLine(K, W, Append(B, Head(R)), {}, Tail(R), n)
         /\ B = <<>> => InputsInLine(K, W, B, {Head(R)}, Tail(R), n)
         /\ B = <<>> => InputsInLine(K \o <<Head(R)>>, W \o <<Head(R)>>, B, {}, Tail(R), n)
         /\ InputsInLine(K, W \o <<Head(R)>>, B, {}, Tail(R), n)
<1> DEFINE h == Head(R)
           T == Tail(R)
<1>1. /\ K \in Seq(Nat) /\ W \in Seq(Nat) /\ B \in Seq(Nat) /\ R \in Seq(Nat) /\ n \in Nat
      /\ ToSet(K) \subseteq Nat /\ ToSet(W) \subseteq Nat /\ ToSet(B) \subseteq Nat /\ ToSet(R) \subseteq Nat
    BY LineOfNumbers
<1>2. /\ h \in Nat /\ T \in Seq(Nat) /\ ToSet(R) = {h} \cup ToSet(T)
      /\ Up(R) <=> Up(T) /\ Before({h}, ToSet(T))
    BY <1>1, NumberQueue
<1>3. /\ <<h>> \in Seq(Nat) /\ ToSet(<<h>>) = {h} /\ Up(<<h>>) /\ IsInjective(<<h>>)
    BY <1>2, OneNumber
<1>4. /\ Up(K) /\ Up(B) /\ Up(T) /\ IsInjective(W)
      /\ Before({h}, ToSet(T))
      /\ \A x \in ToSet(K) : x < h /\ \A y \in ToSet(B) \cup ToSet(T) : x < y
      /\ \A x \in ToSet(B) : x < h /\ \A y \in ToSet(T) : x < y
      /\ h \notin ToSet(W) /\ ToSet(W) \cap (ToSet(B) \cup ToSet(T)) = {}
      /\ \A x \in ToSet(K) \cup ToSet(W) \cup ToSet(B) \cup ToSet(T) \cup {h} : x <= n
    BY <1>2 DEF InputsInLine, Before
<1> HIDE DEF h, T
<1>5. InputsInLine(K, W, B, {}, T, n)
    BY <1>1, <1>2, <1>4 DEF InputsInLine, Before
<1>6. InputsInLine(K, W, Append(B, h), {}, T, n)
    <2>1. /\ Append(B, h) \in Seq(Nat) /\ ToSet(Append(B, h)) = ToSet(B) \cup {h}
          /\ Up(Append(B, h)) <=> Up(B) /\ Before(ToSet(B), {h})
        BY <1>1, <1>2, NumberAdded
    <2>2. Up(Append(B, h))
        BY <1>4, <2>1 DEF Before
    <2>3. /\ Before(ToSet(K), ToSet(B) \cup {h} \cup {} \cup ToSet(T)) /\ Before(ToSet(B) \cup {h}, {} \cup ToSet(T))
          /\ Before({}, ToSet(T))
          /\ ToSet(W) \cap (ToSet(B) \cup {h} \cup {} \cup ToSet(T)) = {}
          /\ \A x \in ToSet(K) \cup ToSet(W) \cup (ToSet(B) \cup {h}) \cup {} \cup ToSet(T) : x <= n
        BY <1>4 DEF Before
    <2> QED
        BY <1>1, <1>2, <1>4, <2>1, <2>2, <2>3 DEF InputsInLine
<1>7. ASSUME B = <<>> PROVE InputsInLine(K, W, B, {h}, T, n)
    <2>1. ToSet(B) = {}
        BY <1>7, NoNumber
    <2>2. /\ Before(ToSet(K), ToSet(B) \cup {h} \cup ToSet(T)) /\ Before(ToSet(B), {h} \cup ToSet(T))
          /\ Before({h}, ToSet(T))
          /\ ToSet(W) \cap (ToSet(B) \cup {h} \cup ToSet(T)) = {}
          /\ \A x \in ToSet(K) \cup ToSet(W) \cup ToSet(B) \cup {h} \cup ToSet(T) : x <= n
        BY <1>4, <2>1 DEF Before
    <2> QED
        BY <1>1, <1>2, <1>4, <2>2 DEF InputsInLine
<1>8. W \o <<h>> \in Seq(Nat) /\ ToSet(W \o <<h>>) = ToSet(W) \cup {h} /\ IsInjective(W \o <<h>>)
    BY <1>1, <1>2, <1>4, OneJoined
<1>9. /\ h \notin ToSet(T) /\ h \notin ToSet(B)
    <2>1. \A x \in ToSet(T) : h < x /\ x \in Nat
        BY <1>1, <1>2, <1>4 DEF Before
    <2>2. \A x \in ToSet(B) : x < h /\ x \in Nat
        BY <1>1, <1>4
    <2> QED
        BY <1>2, <2>1, <2>2
<1>10. InputsInLine(K, W \o <<h>>, B, {}, T, n)
    <2>1. /\ Before(ToSet(K), ToSet(B) \cup {} \cup ToSet(T)) /\ Before(ToSet(B), {} \cup ToSet(T)) /\ Before({}, ToSet(T))
          /\ (ToSet(W) \cup {h}) \cap (ToSet(B) \cup {} \cup ToSet(T)) = {}
          /\ \A x \in ToSet(K) \cup (ToSet(W) \cup {h}) \cup ToSet(B) \cup {} \cup ToSet(T) : x <= n
        BY <1>4, <1>9 DEF Before
    <2> QED
        BY <1>1, <1>2, <1>4, <1>8, <2>1 DEF InputsInLine
<1>11. ASSUME B = <<>> PROVE InputsInLine(K \o <<h>>, W \o <<h>>, B, {}, T, n)
    <2>1. ToSet(B) = {}
        BY <1>11, NoNumber
    <2>2. /\ K \o <<h>> \in Seq(Nat) /\ ToSet(K \o <<h>>) = ToSet(K) \cup {h}
          /\ Up(K \o <<h>>) <=> Up(K) /\ Before(ToSet(K), {h})
        BY <1>1, <1>2, OneJoined
    <2>3. Up(K \o <<h>>)
        BY <1>3, <1>4, <2>2 DEF Before
    <2>4. /\ Before(ToSet(K) \cup {h}, ToSet(B) \cup {} \cup ToSet(T)) /\ Before(ToSet(B), {} \cup ToSet(T)) /\ Before({}, ToSet(T))
          /\ (ToSet(W) \cup {h}) \cap (ToSet(B) \cup {} \cup ToSet(T)) = {}
          /\ \A x \in (ToSet(K) \cup {h}) \cup (ToSet(W) \cup {h}) \cup ToSet(B) \cup {} \cup ToSet(T) : x <= n
        BY <1>4, <1>9, <2>1 DEF Before
    <2> QED
        BY <1>1, <1>2, <1>4, <1>8, <2>2, <2>3, <2>4 DEF InputsInLine
<1> QED
    BY <1>5, <1>6, <1>7, <1>10, <1>11 DEF h, T

\* The click, recorded or lost.
LEMMA ClickDone ==
  ASSUME NEW K, NEW W, NEW R, NEW n, NEW c, InputsInLine(K, W, <<>>, {c}, R, n)
  PROVE  /\ InputsInLine(K, W, <<>>, {}, R, n)
         /\ InputsInLine(K \o <<c>>, W \o <<c>>, <<>>, {}, R, n)
<1>1. /\ K \in Seq(Nat) /\ W \in Seq(Nat) /\ R \in Seq(Nat) /\ n \in Nat /\ c \in Nat /\ <<>> \in Seq(Nat)
    BY DEF InputsInLine
<1>2. InputsInLine(K, W, <<>>, {}, R, n)
    BY DEF InputsInLine, Before
<1>3. InputsInLine(K, W, <<>>, {}, <<c>> \o R, n)
    <2>1. <<c>> \in Seq(Nat) /\ ToSet(<<c>>) = {c} /\ Up(<<c>>)
        BY <1>1, OneNumber
    <2>2. /\ <<c>> \o R \in Seq(Nat) /\ ToSet(<<c>> \o R) = {c} \cup ToSet(R)
          /\ Up(<<c>> \o R) <=> Up(R) /\ Before({c}, ToSet(R))
        BY <1>1, OneJoined
    <2>3. Up(<<c>> \o R)
        BY <2>1, <2>2 DEF InputsInLine
    <2>4. ToSet(<<>>) \cup {} \cup ToSet(<<c>> \o R) = ToSet(<<>>) \cup {c} \cup ToSet(R)
          /\ {} \cup ToSet(<<c>> \o R) = {c} \cup ToSet(R)
        BY <2>2
    <2>5. /\ Before(ToSet(K), ToSet(<<>>) \cup {} \cup ToSet(<<c>> \o R))
          /\ Before(ToSet(<<>>), {} \cup ToSet(<<c>> \o R)) /\ Before({}, ToSet(<<c>> \o R))
          /\ ToSet(W) \cap (ToSet(<<>>) \cup {} \cup ToSet(<<c>> \o R)) = {}
        BY <2>4 DEF InputsInLine, Before
    <2>6. \A x \in ToSet(K) \cup ToSet(W) \cup ToSet(<<>>) \cup {} \cup ToSet(<<c>> \o R) : x <= n
        BY <2>2 DEF InputsInLine
    <2>7. Up(K) /\ Up(<<>>) /\ IsInjective(W)
        BY DEF InputsInLine
    <2> QED
        BY <1>1, <2>2, <2>3, <2>5, <2>6, <2>7 DEF InputsInLine
<1>4. <<c>> \o R # <<>> /\ Head(<<c>> \o R) = c /\ Tail(<<c>> \o R) = R
    BY <1>1
<1>5. InputsInLine(K \o <<c>>, W \o <<c>>, <<>>, {}, R, n)
    BY <1>3, <1>4, InputTaken
<1> QED
    BY <1>2, <1>5

-----------------------------------------------------------------------------
(* What is typed: the inductive invariant.                                 *)

RawInputs == [id : Nat, kind : {"char", "key", "click", "scroll"}]
TypedChars == Nat \X Snapshots
Rows == [kind : {"text", "key", "scroll", "click", "focus", "clipboard"}, ids : Seq(Nat), app : Apps,
         masked : BOOLEAN, pushed : SUBSET TypedChars]

KeptOfOne(e) == IF e.kind = "scroll" THEN <<>> ELSE e.ids
KeptIds(r) == FlattenSeq([i \in DOMAIN r |-> IF r[i].kind = "scroll" THEN <<>> ELSE r[i].ids])
IdsIn(r) == FlattenSeq([i \in DOMAIN r |-> r[i].ids])
RawIds(q) == [i \in DOMAIN q |-> q[i].id]

NormalizerTypes ==
  /\ front \in Apps /\ focus \in Snapshots /\ update \in Snapshots
  /\ raw \in Seq(RawInputs) /\ buffer \in Seq(TypedChars) /\ masked \in BOOLEAN /\ inputRows \in Seq(Rows)
  /\ normalizerStage \in {"run", "update", "resolve", "stopped"}
  /\ resolver \in Snapshots \cup {NoStore}
  /\ inputs \in Nat /\ typed \subseteq Nat /\ clobbered \in BOOLEAN

\* The inputs that rows r, buffer b and channel q hold, in line; c is the click in hand.
Line(r, b, C, q, n) == InputsInLine(KeptIds(r), IdsIn(r), Ids(b), C, RawIds(q), n)

ClickHeld == IF normalizerStage = "resolve" THEN {click} ELSE {}

\* What is buffered was typed into the app of the snapshot, none of the excluded, and
\* remembers that a field was secure; with what is written it is all that was typed.
BufferFollows ==
  /\ normalizerStage \in {"resolve", "stopped"} => buffer = <<>>
  /\ \A c \in ToSet(buffer) : c[2].app \notin Excluded /\ (c[2].secure => masked)
  /\ ~clobbered => /\ \A c \in ToSet(buffer) : c[2].app = focus.app
                   /\ normalizerStage = "update" => update.app = focus.app \/ buffer = <<>>
                   /\ typed \subseteq ToSet(IdsIn(inputRows)) \cup ToSet(Ids(buffer))

RowIsFaithful(t, c) ==
  /\ (\E p \in t.pushed : p[2].secure) => t.masked
  /\ t.app \notin Excluded
  /\ c \/ \A p \in t.pushed : p[2].app = t.app

RowsFollow(r, c) == \A t \in ToSet(r) : t.kind = "text" => RowIsFaithful(t, c)

InputInv ==
  /\ NormalizerTypes /\ Line(inputRows, buffer, ClickHeld, raw, inputs) /\ BufferFollows
  /\ RowsFollow(inputRows, clobbered)

IdsOfRows == [e \in Rows |-> e.ids]
KeptOfRows == [e \in Rows |-> KeptOfOne(e)]
IdsOfRaw == [e \in RawInputs |-> e.id]
IdsOfChars == [e \in TypedChars |-> e[1]]

\* The inputs of a queue of rows are those of each row, joined in order.
LEMMA RowsAreMapped ==
  /\ IdsOfRows \in Maps(Rows, Seq(Nat)) /\ KeptOfRows \in Maps(Rows, Seq(Nat))
  /\ \A e \in Rows : IdsOfRows[e] = e.ids /\ KeptOfRows[e] = KeptOfOne(e) /\ e.ids \in Seq(Nat) /\ KeptOfOne(e) \in Seq(Nat)
  /\ \A r \in Seq(Rows) : IdsIn(r) = FlattenSeq(Mapped(r, IdsOfRows)) /\ KeptIds(r) = FlattenSeq(Mapped(r, KeptOfRows))
<1>1. ASSUME NEW e \in Rows PROVE e.ids \in Seq(Nat) /\ KeptOfOne(e) \in Seq(Nat)
    <2>1. e.ids \in Seq(Nat) /\ <<>> \in Seq(Nat)
        BY DEF Rows
    <2> QED
        BY <2>1 DEF KeptOfOne
<1>2. /\ IdsOfRows \in Maps(Rows, Seq(Nat)) /\ KeptOfRows \in Maps(Rows, Seq(Nat))
      /\ \A e \in Rows : IdsOfRows[e] = e.ids /\ KeptOfRows[e] = KeptOfOne(e)
    BY <1>1 DEF Maps, IdsOfRows, KeptOfRows
<1>3. ASSUME NEW r \in Seq(Rows)
      PROVE  IdsIn(r) = FlattenSeq(Mapped(r, IdsOfRows)) /\ KeptIds(r) = FlattenSeq(Mapped(r, KeptOfRows))
    <2>1. \A i \in DOMAIN r : r[i] \in Rows
        BY QueueOps
    <2>2. \A i \in DOMAIN r : IdsOfRows[r[i]] = r[i].ids
        BY <1>2, <2>1
    <2>3. \A i \in DOMAIN r : KeptOfRows[r[i]] = IF r[i].kind = "scroll" THEN <<>> ELSE r[i].ids
        BY <1>2, <2>1 DEF KeptOfOne
    <2>4. Mapped(r, IdsOfRows) = [i \in DOMAIN r |-> r[i].ids]
        BY <2>2 DEF Mapped
    <2>5. Mapped(r, KeptOfRows) = [i \in DOMAIN r |-> IF r[i].kind = "scroll" THEN <<>> ELSE r[i].ids]
        BY <2>3 DEF Mapped
    <2> QED
        BY <2>4, <2>5 DEF IdsIn, KeptIds
<1> QED
    BY <1>1, <1>2, <1>3

\* One row more.
LEMMA OneRow ==
  ASSUME NEW r \in Seq(Rows), NEW e \in Rows, NEW p, p = r \o <<e>> \/ p = Append(r, e)
  PROVE  /\ p \in Seq(Rows) /\ ToSet(p) = ToSet(r) \cup {e}
         /\ IdsIn(p) = IdsIn(r) \o e.ids /\ KeptIds(p) = KeptIds(r) \o KeptOfOne(e)
         /\ IdsIn(r) \in Seq(Nat) /\ KeptIds(r) \in Seq(Nat)
<1>1. p = Append(r, e)
    BY AppendIsConcat
<1>2. p \in Seq(Rows) /\ ToSet(p) = ToSet(r) \cup {e}
    BY <1>1, Elements
<1>3. IdsIn(p) = IdsIn(r) \o e.ids /\ IdsIn(r) \in Seq(Nat)
    <2>1. Mapped(p, IdsOfRows) = Append(Mapped(r, IdsOfRows), e.ids)
        <3>1. Mapped(p, IdsOfRows) = Append(Mapped(r, IdsOfRows), IdsOfRows[e])
            BY <1>1, RowsAreMapped, MappedAppend
        <3> QED
            BY <3>1, RowsAreMapped
    <2>2. Mapped(r, IdsOfRows) \in Seq(Seq(Nat)) /\ e.ids \in Seq(Nat)
        BY RowsAreMapped, MappedQueue
    <2>3. FlattenSeq(Mapped(p, IdsOfRows)) = FlattenSeq(Mapped(r, IdsOfRows)) \o e.ids
        BY <2>1, <2>2, FlattenAppend
    <2>4. FlattenSeq(Mapped(r, IdsOfRows)) \in Seq(Nat)
        BY <2>2, FlattenKind
    <2> QED
        BY <1>2, <2>3, <2>4, RowsAreMapped
<1>4. KeptIds(p) = KeptIds(r) \o KeptOfOne(e) /\ KeptIds(r) \in Seq(Nat)
    <2>1. Mapped(p, KeptOfRows) = Append(Mapped(r, KeptOfRows), KeptOfOne(e))
        <3>1. Mapped(p, KeptOfRows) = Append(Mapped(r, KeptOfRows), KeptOfRows[e])
            BY <1>1, RowsAreMapped, MappedAppend
        <3> QED
            BY <3>1, RowsAreMapped
    <2>2. Mapped(r, KeptOfRows) \in Seq(Seq(Nat)) /\ KeptOfOne(e) \in Seq(Nat)
        BY RowsAreMapped, MappedQueue
    <2>3. FlattenSeq(Mapped(p, KeptOfRows)) = FlattenSeq(Mapped(r, KeptOfRows)) \o KeptOfOne(e)
        BY <2>1, <2>2, FlattenAppend
    <2>4. FlattenSeq(Mapped(r, KeptOfRows)) \in Seq(Nat)
        BY <2>2, FlattenKind
    <2> QED
        BY <1>2, <2>3, <2>4, RowsAreMapped
<1> QED
    BY <1>2, <1>3, <1>4

\* The numbers in the channel and in the buffer.
LEMMA NumbersInHand ==
  /\ \A q \in Seq(RawInputs) :
        /\ RawIds(q) \in Seq(Nat)
        /\ q # <<>> => RawIds(q) # <<>> /\ Head(RawIds(q)) = Head(q).id /\ Tail(RawIds(q)) = RawIds(Tail(q))
        /\ \A e \in RawInputs : RawIds(Append(q, e)) = Append(RawIds(q), e.id)
  /\ \A b \in Seq(TypedChars) :
        /\ Ids(b) \in Seq(Nat)
        /\ \A e \in TypedChars : Ids(Append(b, e)) = Append(Ids(b), e[1])
  /\ Ids(<<>>) = <<>> /\ RawIds(<<>>) = <<>>
<1>1. IdsOfRaw \in Maps(RawInputs, Nat) /\ \A e \in RawInputs : IdsOfRaw[e] = e.id
    BY DEF Maps, RawInputs, IdsOfRaw
<1>2. IdsOfChars \in Maps(TypedChars, Nat) /\ \A e \in TypedChars : IdsOfChars[e] = e[1]
    BY DEF Maps, TypedChars, IdsOfChars
<1>3. ASSUME NEW q \in Seq(RawInputs) PROVE RawIds(q) = Mapped(q, IdsOfRaw)
    <2>1. \A i \in DOMAIN q : q[i] \in RawInputs
        BY QueueOps
    <2>2. \A i \in DOMAIN q : q[i].id = IdsOfRaw[q[i]]
        BY <1>1, <2>1
    <2> QED
        BY <2>2 DEF RawIds, Mapped
<1>4. ASSUME NEW b \in Seq(TypedChars) PROVE Ids(b) = Mapped(b, IdsOfChars)
    <2>1. \A i \in DOMAIN b : b[i] \in TypedChars
        BY QueueOps
    <2>2. \A i \in DOMAIN b : b[i][1] = IdsOfChars[b[i]]
        BY <1>2, <2>1
    <2> QED
        BY <2>2 DEF Ids, Mapped
<1>5. ASSUME NEW q \in Seq(RawInputs)
      PROVE  /\ RawIds(q) \in Seq(Nat)
             /\ q # <<>> => RawIds(q) # <<>> /\ Head(RawIds(q)) = Head(q).id /\ Tail(RawIds(q)) = RawIds(Tail(q))
             /\ \A e \in RawInputs : RawIds(Append(q, e)) = Append(RawIds(q), e.id)
    <2>1. RawIds(q) \in Seq(Nat)
        BY <1>1, <1>3, MappedQueue
    <2>2. ASSUME q # <<>>
          PROVE  RawIds(q) # <<>> /\ Head(RawIds(q)) = Head(q).id /\ Tail(RawIds(q)) = RawIds(Tail(q))
        <3>1. Head(q) \in RawInputs /\ Tail(q) \in Seq(RawInputs)
            BY <2>2, QueueOps
        <3>2. /\ Mapped(q, IdsOfRaw) # <<>> /\ Head(Mapped(q, IdsOfRaw)) = IdsOfRaw[Head(q)]
              /\ Tail(Mapped(q, IdsOfRaw)) = Mapped(Tail(q), IdsOfRaw)
            BY <1>1, <2>2, MappedTail
        <3> QED
            BY <1>1, <1>3, <3>1, <3>2
    <2>3. ASSUME NEW e \in RawInputs PROVE RawIds(Append(q, e)) = Append(RawIds(q), e.id)
        <3>1. Append(q, e) \in Seq(RawInputs)
            BY QueueOps
        <3>2. Mapped(Append(q, e), IdsOfRaw) = Append(Mapped(q, IdsOfRaw), IdsOfRaw[e])
            BY <1>1, MappedAppend
        <3> QED
            BY <1>1, <1>3, <3>1, <3>2
    <2> QED
        BY <2>1, <2>2, <2>3
<1>6. ASSUME NEW b \in Seq(TypedChars)
      PROVE  /\ Ids(b) \in Seq(Nat)
             /\ \A e \in TypedChars : Ids(Append(b, e)) = Append(Ids(b), e[1])
    <2>1. Ids(b) \in Seq(Nat)
        BY <1>2, <1>4, MappedQueue
    <2>3. ASSUME NEW e \in TypedChars PROVE Ids(Append(b, e)) = Append(Ids(b), e[1])
        <3>1. Append(b, e) \in Seq(TypedChars)
            BY QueueOps
        <3>2. Mapped(Append(b, e), IdsOfChars) = Append(Mapped(b, IdsOfChars), IdsOfChars[e])
            BY <1>2, MappedAppend
        <3> QED
            BY <1>2, <1>4, <3>1, <3>2
    <2> QED
        BY <2>1, <2>3
<1>7. Ids(<<>>) = <<>> /\ RawIds(<<>>) = <<>>
    BY DEF Ids, RawIds
<1> QED
    BY <1>5, <1>6, <1>7

\* A new input arrives, or is lost.
LEMMA RawArrives ==
  ASSUME NEW r, NEW b, NEW C, NEW q \in Seq(RawInputs), NEW n, Line(r, b, C, q, n),
         NEW e \in RawInputs, e.id = n + 1
  PROVE  Line(r, b, C, Append(q, e), n + 1) /\ Line(r, b, C, q, n + 1)
<1>1. RawIds(Append(q, e)) = Append(RawIds(q), n + 1)
    BY NumbersInHand
<1> QED
    BY <1>1, InputArrives DEF Line

\* The buffer is dropped, or written as a text.
LEMMA FlushInLine ==
  ASSUME NEW r \in Seq(Rows), NEW b, NEW C, NEW q, NEW n, Line(r, b, C, q, n)
  PROVE  /\ Line(r, <<>>, C, q, n)
         /\ \A t \in Rows : t.kind = "text" /\ t.ids = Ids(b) => Line(r \o <<t>>, <<>>, C, q, n)
<1>1. /\ InputsInLine(KeptIds(r) \o Ids(b), IdsIn(r) \o Ids(b), <<>>, C, RawIds(q), n)
      /\ InputsInLine(KeptIds(r), IdsIn(r), <<>>, C, RawIds(q), n)
    BY BufferFlushed DEF Line
<1>2. Ids(<<>>) = <<>>
    BY NumbersInHand
<1>3. ASSUME NEW t \in Rows, t.kind = "text", t.ids = Ids(b)
      PROVE  Line(r \o <<t>>, <<>>, C, q, n)
    <2> DEFINE p == r \o <<t>>
    <2>1. IdsIn(p) = IdsIn(r) \o t.ids /\ KeptIds(p) = KeptIds(r) \o KeptOfOne(t)
        BY OneRow
    <2>2. KeptOfOne(t) = Ids(b)
        BY <1>3 DEF KeptOfOne
    <2> HIDE DEF p
    <2>3. Line(p, <<>>, C, q, n)
        BY <1>1, <1>2, <1>3, <2>1, <2>2 DEF Line
    <2> QED
        BY <2>3 DEF p
<1> QED
    BY <1>1, <1>2, <1>3 DEF Line

\* A row that holds no input.
LEMMA EmptyRowInLine ==
  ASSUME NEW r \in Seq(Rows), NEW b, NEW C, NEW q, NEW n, Line(r, b, C, q, n),
         NEW t \in Rows, t.ids = <<>>, NEW p, p = r \o <<t>> \/ p = Append(r, t)
  PROVE  Line(p, b, C, q, n) /\ IdsIn(p) = IdsIn(r)
<1>1. /\ IdsIn(p) = IdsIn(r) \o t.ids /\ KeptIds(p) = KeptIds(r) \o KeptOfOne(t)
      /\ IdsIn(r) \in Seq(Nat) /\ KeptIds(r) \in Seq(Nat)
    BY OneRow
<1>2. KeptOfOne(t) = <<>>
    BY DEF KeptOfOne
<1>3. IdsIn(p) = IdsIn(r) /\ KeptIds(p) = KeptIds(r)
    BY <1>1, <1>2, ConcatEmptySeq
<1> QED
    BY <1>3 DEF Line

\* The next input is dropped, buffered, in hand as a click, or written; a scroll ahead of
\* what is buffered.
LEMMA NextInLine ==
  ASSUME NEW r \in Seq(Rows), NEW b \in Seq(TypedChars), NEW q \in Seq(RawInputs), NEW n, Line(r, b, {}, q, n),
         q # <<>>
  PROVE  /\ Line(r, b, {}, Tail(q), n)
         /\ \A s \in Snapshots : Line(r, Append(b, <<Head(q).id, s>>), {}, Tail(q), n)
         /\ b = <<>> => Line(r, b, {Head(q).id}, Tail(q), n)
         /\ \A t \in Rows : /\ t.ids = <<Head(q).id>>
                            /\ t.kind = "scroll" \/ b = <<>>
                            => Line(r \o <<t>>, b, {}, Tail(q), n)
<1> DEFINE h == Head(q).id
           K == KeptIds(r)
           W == IdsIn(r)
           B == Ids(b)
           R == RawIds(q)
<1>1. R # <<>> /\ Head(R) = h /\ Tail(R) = RawIds(Tail(q))
    BY NumbersInHand
<1>2. h \in Nat
    <2>1. Head(q) \in RawInputs
        BY QueueOps
    <2> QED
        BY <2>1 DEF RawInputs
<1>3. InputsInLine(K, W, B, {}, R, n)
    BY DEF Line
<1> HIDE DEF R, B, K, W
<1>4. /\ InputsInLine(K, W, B, {}, Tail(R), n)
      /\ InputsInLine(K, W, Append(B, h), {}, Tail(R), n)
      /\ B = <<>> => InputsInLine(K, W, B, {h}, Tail(R), n)
      /\ B = <<>> => InputsInLine(K \o <<h>>, W \o <<h>>, B, {}, Tail(R), n)
      /\ InputsInLine(K, W \o <<h>>, B, {}, Tail(R), n)
    BY <1>1, <1>3, InputTaken
<1>5. b = <<>> => B = <<>>
    BY NumbersInHand DEF B
<1> HIDE DEF h
<1>6. ASSUME NEW s \in Snapshots PROVE Line(r, Append(b, <<h, s>>), {}, Tail(q), n)
    <2> DEFINE e == <<h, s>>
    <2>1. e \in TypedChars /\ e[1] = h
        BY <1>2 DEF TypedChars
    <2> HIDE DEF e
    <2>2. Ids(Append(b, e)) = Append(B, h)
        BY <2>1, NumbersInHand DEF B
    <2> QED
        BY <1>1, <1>4, <2>2 DEF Line, e, K, W
<1>7. ASSUME NEW t \in Rows, t.ids = <<h>>, t.kind = "scroll" \/ b = <<>>
      PROVE  Line(r \o <<t>>, b, {}, Tail(q), n)
    <2> DEFINE p == r \o <<t>>
    <2>1. IdsIn(p) = W \o <<h>> /\ KeptIds(p) = K \o KeptOfOne(t) /\ K \in Seq(Nat)
        BY <1>7, OneRow DEF W, K
    <2> HIDE DEF p
    <2>2. CASE t.kind = "scroll"
        <3>1. KeptOfOne(t) = <<>>
            BY <2>2 DEF KeptOfOne
        <3>2. KeptIds(p) = K
            BY <2>1, <3>1, ConcatEmptySeq
        <3> QED
            BY <1>1, <1>4, <2>1, <3>2 DEF Line, p, B
    <2>3. CASE t.kind # "scroll"
        <3>1. KeptOfOne(t) = <<h>>
            BY <1>7, <2>3 DEF KeptOfOne
        <3>2. B = <<>>
            BY <1>5, <1>7, <2>3
        <3> QED
            BY <1>1, <1>4, <2>1, <3>1, <3>2 DEF Line, p, B
    <2> QED
        BY <2>2, <2>3
<1>8. Line(r, b, {}, Tail(q), n)
    BY <1>1, <1>4 DEF Line, K, W, B
<1>9. b = <<>> => Line(r, b, {h}, Tail(q), n)
    BY <1>1, <1>4, <1>5 DEF Line, K, W, B
<1> QED
    BY <1>6, <1>7, <1>8, <1>9 DEF h

\* The click in hand is written, or lost.
LEMMA ClickInLine ==
  ASSUME NEW r \in Seq(Rows), NEW q, NEW n, NEW c, Line(r, <<>>, {c}, q, n)
  PROVE  /\ Line(r, <<>>, {}, q, n)
         /\ \A t \in Rows : t.ids = <<c>> /\ t.kind = "click" => Line(r \o <<t>>, <<>>, {}, q, n)
<1>1. Ids(<<>>) = <<>>
    BY NumbersInHand
<1>2. /\ InputsInLine(KeptIds(r), IdsIn(r), <<>>, {}, RawIds(q), n)
      /\ InputsInLine(KeptIds(r) \o <<c>>, IdsIn(r) \o <<c>>, <<>>, {}, RawIds(q), n)
    BY <1>1, ClickDone DEF Line
<1>3. ASSUME NEW t \in Rows, t.ids = <<c>>, t.kind = "click"
      PROVE  Line(r \o <<t>>, <<>>, {}, q, n)
    <2> DEFINE p == r \o <<t>>
    <2>1. IdsIn(p) = IdsIn(r) \o t.ids /\ KeptIds(p) = KeptIds(r) \o KeptOfOne(t)
        BY OneRow
    <2>2. KeptOfOne(t) = <<c>>
        BY <1>3 DEF KeptOfOne
    <2> HIDE DEF p
    <2>3. Line(p, <<>>, {}, q, n)
        BY <1>1, <1>2, <1>3, <2>1, <2>2 DEF Line
    <2> QED
        BY <2>3 DEF p
<1> QED
    BY <1>1, <1>2, <1>3 DEF Line

\* A row that is no text leaves the texts as they are, and what is written written.
LEMMA OtherRow ==
  ASSUME NEW r \in Seq(Rows), NEW t \in Rows, t.kind # "text", NEW p, p = r \o <<t>> \/ p = Append(r, t)
  PROVE  /\ p \in Seq(Rows) /\ ToSet(IdsIn(r)) \subseteq ToSet(IdsIn(p))
         /\ \A c : RowsFollow(r, c) => RowsFollow(p, c)
<1>1. /\ p \in Seq(Rows) /\ ToSet(p) = ToSet(r) \cup {t} /\ IdsIn(p) = IdsIn(r) \o t.ids /\ IdsIn(r) \in Seq(Nat)
    BY OneRow
<1>2. t.ids \in Seq(Nat)
    BY DEF Rows
<1>3. ToSet(IdsIn(p)) = ToSet(IdsIn(r)) \cup ToSet(t.ids)
    BY <1>1, <1>2, NumbersJoined
<1> QED
    BY <1>1, <1>3 DEF RowsFollow

\* What flushing makes of the rows.
LEMMA Flushed ==
  ASSUME InputInv, NEW p, p = inputRows \o FlushedText
  PROVE  /\ p \in Seq(Rows) /\ Line(p, <<>>, ClickHeld, raw, inputs) /\ RowsFollow(p, clobbered)
         /\ ~clobbered => typed \subseteq ToSet(IdsIn(p))
<1> USE DEF InputInv
<1>1. /\ inputRows \in Seq(Rows) /\ buffer \in Seq(TypedChars) /\ focus \in Snapshots /\ masked \in BOOLEAN
    BY DEF NormalizerTypes
<1>2. CASE FlushedText = <<>>
    <2>1. p = inputRows
        BY <1>1, <1>2, ConcatEmptySeq
    <2>2. Line(p, <<>>, ClickHeld, raw, inputs)
        BY <1>1, <2>1, FlushInLine
    <2>3. ~clobbered => typed \subseteq ToSet(IdsIn(p))
        <3> SUFFICES ASSUME ~clobbered PROVE typed \subseteq ToSet(IdsIn(p))
            OBVIOUS
        <3>1. buffer = <<>>
            <4> SUFFICES ASSUME buffer # <<>> PROVE FALSE
                OBVIOUS
            <4>1. focus.app \in Excluded
                BY <1>2 DEF FlushedText
            <4>2. Head(buffer) \in ToSet(buffer)
                BY <1>1, Elements
            <4> QED
                BY <4>1, <4>2 DEF BufferFollows
        <3>2. ToSet(Ids(buffer)) = {}
            BY <3>1, NumbersInHand, NoNumber
        <3> QED
            BY <2>1, <3>2 DEF BufferFollows
    <2> QED
        BY <1>1, <2>1, <2>2, <2>3
<1>3. CASE FlushedText # <<>>
    <2> DEFINE t == TextOf(buffer, masked, focus)
    <2>1. focus.app \notin Excluded /\ p = inputRows \o <<t>>
        BY <1>3 DEF FlushedText
    <2>2. ToSet(buffer) \subseteq TypedChars /\ Ids(buffer) \in Seq(Nat)
        BY <1>1, Elements, NumbersInHand
    <2>3. /\ t \in Rows /\ t.kind = "text" /\ t.ids = Ids(buffer) /\ t.app = focus.app
          /\ t.masked = (masked \/ focus.secure) /\ t.pushed = ToSet(buffer)
        <3>1. focus.app \in Apps /\ (masked \/ focus.secure) \in BOOLEAN
            BY <1>1 DEF Snapshots
        <3> QED
            BY <2>2, <3>1 DEF TextOf, Rows
    <2> HIDE DEF t
    <2>4. RowIsFaithful(t, clobbered)
        BY <2>1, <2>3 DEF RowIsFaithful, BufferFollows
    <2>5. /\ p \in Seq(Rows) /\ ToSet(p) = ToSet(inputRows) \cup {t}
          /\ IdsIn(p) = IdsIn(inputRows) \o t.ids /\ IdsIn(inputRows) \in Seq(Nat)
        BY <1>1, <2>1, <2>3, OneRow
    <2>6. RowsFollow(p, clobbered)
        BY <2>4, <2>5 DEF RowsFollow
    <2>7. Line(p, <<>>, ClickHeld, raw, inputs)
        BY <1>1, <2>1, <2>3, FlushInLine
    <2>8. ToSet(IdsIn(p)) = ToSet(IdsIn(inputRows)) \cup ToSet(Ids(buffer))
        <3>1. IdsIn(p) = IdsIn(inputRows) \o Ids(buffer)
            BY <2>3, <2>5
        <3> QED
            BY <2>2, <2>5, <3>1, NumbersJoined
    <2> QED
        BY <2>5, <2>6, <2>7, <2>8 DEF BufferFollows
<1> QED
    BY <1>2, <1>3

\* Nothing is typed at first.
LEMMA InputStart == NormalizerInit => InputInv
<1> SUFFICES ASSUME NormalizerInit PROVE InputInv
    OBVIOUS
<1>1. <<>> \in Seq(RawInputs) /\ <<>> \in Seq(TypedChars) /\ <<>> \in Seq(Rows)
    OBVIOUS
<1>2. NormalizerTypes
    BY <1>1 DEF NormalizerTypes, NormalizerInit, Snapshots
<1>3. IdsIn(<<>>) = <<>> /\ KeptIds(<<>>) = <<>>
    BY FlatIs, EmptySeq DEF IdsIn, KeptIds, FlattenSeq
<1>4. Line(inputRows, buffer, ClickHeld, raw, inputs)
    <2>1. /\ Ids(buffer) = <<>> /\ RawIds(raw) = <<>> /\ IdsIn(inputRows) = <<>> /\ KeptIds(inputRows) = <<>>
          /\ ClickHeld = {} /\ inputs = 0
        BY <1>3, NumbersInHand DEF NormalizerInit, ClickHeld
    <2>2. IsInjective(<<>>)
        BY NoNumber, Injective
    <2> QED
        BY <2>1, <2>2, NoNumber DEF Line, InputsInLine, Before
<1>5. ToSet(buffer) = {} /\ ToSet(inputRows) = {}
    BY NoNumber DEF NormalizerInit
<1>6. BufferFollows /\ RowsFollow(inputRows, clobbered)
    BY <1>5 DEF BufferFollows, RowsFollow, NormalizerInit
<1> QED
    BY <1>2, <1>4, <1>6 DEF InputInv

\* The world, the resolver, the reports: nothing of the line moves.
LEMMA AroundTheLine ==
  ASSUME InputInv, RawInput \/ SwitchApp \/ ClipboardPolled \/ ResolverLoads \/ ResolverStores \/ ReportDrops
  PROVE  InputInv'
<1> USE DEF InputInv
<1>1. CASE RawInput
    <2>1. PICK kind \in {"char", "key", "click", "scroll"} :
             raw' = IF Len(raw) < RawCapacity THEN Append(raw, [id |-> inputs + 1, kind |-> kind]) ELSE raw
        BY <1>1 DEF RawInput
    <2> DEFINE e == [id |-> inputs + 1, kind |-> kind]
    <2>2. inputs \in Nat /\ raw \in Seq(RawInputs) /\ inputs' = inputs + 1
        BY <1>1 DEF NormalizerTypes, RawInput
    <2>3. e \in RawInputs /\ e.id = inputs + 1
        BY <2>2 DEF RawInputs
    <2>4. raw' = Append(raw, e) \/ raw' = raw
        BY <2>1
    <2> HIDE DEF e
    <2>5. Line(inputRows, buffer, ClickHeld, raw', inputs')
        BY <2>2, <2>3, <2>4, RawArrives
    <2>6. raw' \in Seq(RawInputs) /\ inputs' \in Nat
        BY <2>2, <2>3, <2>4, Elements
    <2>7. UNCHANGED <<front, focus, update, buffer, masked, inputRows, normalizerStage, resolver, typed, clobbered, click>>
        BY <1>1 DEF RawInput, typingVars
    <2>8. NormalizerTypes'
        BY <2>6, <2>7 DEF NormalizerTypes
    <2>9. BufferFollows' /\ RowsFollow(inputRows, clobbered)'
        BY <2>7 DEF BufferFollows, RowsFollow
    <2>10. Line(inputRows, buffer, ClickHeld, raw, inputs)'
        BY <2>5, <2>7 DEF ClickHeld
    <2> QED
        BY <2>8, <2>9, <2>10
<1>2. CASE ClipboardPolled
    <2>1. /\ inputs' = inputs + 1 /\ inputs \in Nat
          /\ UNCHANGED <<front, focus, update, buffer, masked, inputRows, normalizerStage, resolver, typed, clobbered,
                         click, raw>>
        BY <1>2 DEF ClipboardPolled, typingVars, NormalizerTypes
    <2>2. Line(inputRows, buffer, ClickHeld, raw, inputs + 1)
        BY InputArrives DEF Line
    <2>3. NormalizerTypes'
        BY <2>1 DEF NormalizerTypes
    <2>4. BufferFollows' /\ RowsFollow(inputRows, clobbered)'
        BY <2>1 DEF BufferFollows, RowsFollow
    <2> QED
        BY <2>1, <2>2, <2>3, <2>4 DEF ClickHeld
<1>3. CASE SwitchApp \/ ReportDrops \/ ResolverLoads
    <2>1. UNCHANGED <<focus, update, buffer, masked, inputRows, normalizerStage, typed, clobbered, click, raw, inputs>>
        BY <1>3 DEF SwitchApp, ReportDrops, ResolverLoads, typingVars, worldVars
    <2>2. front' \in Apps
        BY <1>3 DEF SwitchApp, ReportDrops, ResolverLoads, worldVars, NormalizerTypes
    <2>3. resolver' \in Snapshots \cup {NoStore}
        <3>1. focus.app \in Apps
            BY DEF NormalizerTypes, Snapshots
        <3> QED
            BY <1>3, <3>1 DEF SwitchApp, ReportDrops, ResolverLoads, worldVars, NormalizerTypes, Snapshots
    <2>4. NormalizerTypes'
        BY <2>1, <2>2, <2>3 DEF NormalizerTypes
    <2>5. BufferFollows' /\ RowsFollow(inputRows, clobbered)'
        BY <2>1 DEF BufferFollows, RowsFollow
    <2> QED
        BY <2>1, <2>4, <2>5 DEF ClickHeld
<1>4. CASE ResolverStores
    <2>1. UNCHANGED <<front, update, buffer, masked, inputRows, normalizerStage, typed, click, raw, inputs>>
        BY <1>4 DEF ResolverStores, typingVars, worldVars
    <2>2. focus' \in Snapshots /\ focus' = resolver /\ resolver' \in Snapshots \cup {NoStore}
        BY <1>4 DEF ResolverStores, NormalizerTypes
    <2>3. clobbered' \in BOOLEAN /\ (clobbered => clobbered') /\ (~clobbered' => focus'.app = focus.app)
        BY <1>4 DEF ResolverStores, NormalizerTypes
    <2>4. NormalizerTypes'
        BY <2>1, <2>2, <2>3 DEF NormalizerTypes
    <2>5. BufferFollows'
        BY <2>1, <2>3 DEF BufferFollows
    <2>6. RowsFollow(inputRows, clobbered)'
        BY <2>1, <2>3 DEF RowsFollow, RowIsFaithful
    <2> QED
        BY <2>1, <2>4, <2>5, <2>6 DEF ClickHeld
<1> QED
    BY <1>1, <1>2, <1>3, <1>4

\* The next input is taken.
LEMMA InputIsTaken ==
  ASSUME InputInv, HandleExcluded \/ HandleChar \/ HandleKey \/ HandleScroll \/ HandleClick
  PROVE  InputInv'
<1> USE DEF InputInv
<1>1. /\ raw # <<>> /\ raw \in Seq(RawInputs) /\ Head(raw) \in RawInputs /\ raw' = Tail(raw) /\ raw' \in Seq(RawInputs)
      /\ normalizerStage = "run" /\ ClickHeld = {}
      /\ UNCHANGED <<front, focus, inputs, resolver, clobbered>>
    <2>1. /\ raw # <<>> /\ raw' = Tail(raw) /\ normalizerStage = "run" /\ UNCHANGED <<front, focus, inputs, resolver, clobbered>>
        BY DEF HandleExcluded, HandleChar, HandleKey, HandleScroll, HandleClick, TakeInput, worldVars
    <2>2. raw \in Seq(RawInputs)
        BY DEF NormalizerTypes
    <2> QED
        BY <2>1, <2>2, QueueOps DEF ClickHeld
<1>2. /\ inputRows \in Seq(Rows) /\ buffer \in Seq(TypedChars) /\ <<>> \in Seq(TypedChars)
      /\ focus \in Snapshots /\ focus.app \in Apps /\ Head(raw).id \in Nat /\ <<Head(raw).id>> \in Seq(Nat)
    <2>1. inputRows \in Seq(Rows) /\ buffer \in Seq(TypedChars) /\ <<>> \in Seq(TypedChars) /\ focus \in Snapshots
        BY DEF NormalizerTypes
    <2>2. focus.app \in Apps /\ Head(raw).id \in Nat
        BY <1>1, <2>1 DEF Snapshots, RawInputs
    <2> QED
        BY <2>1, <2>2, OneNumber
<1>3. Line(inputRows, buffer, {}, raw, inputs)
    BY <1>1
<1>4. CASE HandleExcluded
    <2>1. /\ buffer' = <<>> /\ masked' = FALSE /\ focus.app \in Excluded
          /\ UNCHANGED <<update, inputRows, normalizerStage, typed, click>>
        BY <1>4 DEF HandleExcluded, ResetBuffer
    <2>2. Line(inputRows, <<>>, {}, raw, inputs)
        BY <1>2, <1>3, FlushInLine
    <2>3. Line(inputRows, <<>>, {}, Tail(raw), inputs)
        BY <1>1, <1>2, <2>2, NextInLine
    <2>4. NormalizerTypes'
        BY <1>1, <1>2, <2>1 DEF NormalizerTypes
    <2>5. RowsFollow(inputRows, clobbered)'
        BY <1>1, <2>1 DEF RowsFollow
    <2>6. BufferFollows'
        <3>1. ToSet(buffer') = {}
            BY <2>1, NoNumber
        <3>2. ~clobbered => buffer = <<>>
            <4>1. buffer # <<>> => Head(buffer) \in ToSet(buffer)
                BY <1>2, Elements
            <4> QED
                BY <2>1, <4>1 DEF BufferFollows
        <3>3. ~clobbered => typed \subseteq ToSet(IdsIn(inputRows)) \cup ToSet(Ids(buffer'))
            BY <2>1, <3>2 DEF BufferFollows
        <3> QED
            BY <1>1, <2>1, <3>1, <3>3 DEF BufferFollows
    <2> QED
        BY <1>1, <2>1, <2>3, <2>4, <2>5, <2>6 DEF ClickHeld
<1>5. CASE HandleChar
    <2> DEFINE e == <<Head(raw).id, focus>>
    <2>1. /\ buffer' = Append(buffer, e) /\ masked' = (masked \/ focus.secure) /\ focus.app \notin Excluded
          /\ typed' = typed \cup {Head(raw).id}
          /\ UNCHANGED <<update, inputRows, normalizerStage, click>>
        BY <1>5 DEF HandleChar
    <2>2. e \in TypedChars /\ e[1] = Head(raw).id /\ e[2] = focus
        BY <1>2 DEF TypedChars
    <2>3. Line(inputRows, buffer', {}, Tail(raw), inputs)
        BY <1>1, <1>2, <1>3, <2>1, NextInLine
    <2> HIDE DEF e
    <2>4. buffer' \in Seq(TypedChars) /\ ToSet(buffer') = ToSet(buffer) \cup {e}
        BY <1>2, <2>1, <2>2, Elements
    <2>5. ToSet(Ids(buffer')) = ToSet(Ids(buffer)) \cup {Head(raw).id}
        <3>1. Ids(buffer') = Append(Ids(buffer), Head(raw).id) /\ Ids(buffer) \in Seq(Nat)
            BY <1>2, <2>1, <2>2, NumbersInHand
        <3> QED
            BY <1>2, <3>1, NumberAdded
    <2>6. NormalizerTypes'
        <3>1. masked' \in BOOLEAN /\ typed' \subseteq Nat
            BY <1>2, <2>1 DEF NormalizerTypes
        <3> QED
            BY <1>1, <2>1, <2>4, <3>1 DEF NormalizerTypes
    <2>7. RowsFollow(inputRows, clobbered)'
        BY <1>1, <2>1 DEF RowsFollow
    <2>8. BufferFollows'
        <3>1. \A c \in ToSet(buffer') : c[2].app \notin Excluded /\ (c[2].secure => masked')
            BY <2>1, <2>2, <2>4 DEF BufferFollows
        <3>2. ~clobbered => \A c \in ToSet(buffer') : c[2].app = focus.app
            BY <2>2, <2>4 DEF BufferFollows
        <3>3. ~clobbered => typed' \subseteq ToSet(IdsIn(inputRows)) \cup ToSet(Ids(buffer'))
            BY <2>1, <2>5 DEF BufferFollows
        <3> QED
            BY <1>1, <2>1, <3>1, <3>2, <3>3 DEF BufferFollows
    <2> QED
        BY <1>1, <2>1, <2>3, <2>6, <2>7, <2>8 DEF ClickHeld
<1>6. CASE HandleKey \/ HandleClick
    <2> DEFINE p == inputRows \o FlushedText
    <2>1. /\ p \in Seq(Rows) /\ Line(p, <<>>, {}, raw, inputs) /\ RowsFollow(p, clobbered)
          /\ ~clobbered => typed \subseteq ToSet(IdsIn(p))
        BY <1>1, Flushed
    <2>2. buffer' = <<>> /\ masked' = FALSE /\ UNCHANGED typed
        BY <1>6 DEF HandleKey, HandleClick, ResetBuffer
    <2>3. CASE HandleKey
        <3>1. UNCHANGED <<update, normalizerStage, click>> /\ Lossy(p, "key", <<Head(raw).id>>, focus.app)
            BY <2>3 DEF HandleKey
        <3> HIDE DEF p
        <3>2. \/ inputRows' = p
              \/ \E t \in Rows : t.kind = "key" /\ t.ids = <<Head(raw).id>> /\ inputRows' = p \o <<t>>
            <4> DEFINE t == [kind |-> "key", ids |-> <<Head(raw).id>>, app |-> focus.app, masked |-> FALSE, pushed |-> {}]
            <4>1. t \in Rows /\ t.kind = "key" /\ t.ids = <<Head(raw).id>>
                BY <1>2, <2>1, <3>1 DEF Rows
            <4>2. inputRows' = p \/ inputRows' = p \o <<t>>
                BY <1>2, <2>1, <3>1 DEF Lossy
            <4> HIDE DEF t
            <4> QED
                BY <4>1, <4>2
        <3>3. /\ inputRows' \in Seq(Rows) /\ Line(inputRows', <<>>, {}, Tail(raw), inputs) /\ RowsFollow(inputRows', clobbered)
              /\ ToSet(IdsIn(p)) \subseteq ToSet(IdsIn(inputRows'))
            <4>1. CASE inputRows' = p
                BY <1>1, <1>2, <2>1, <4>1, NextInLine
            <4>2. CASE \E t \in Rows : t.kind = "key" /\ t.ids = <<Head(raw).id>> /\ inputRows' = p \o <<t>>
                <5>0. PICK t \in Rows : t.kind = "key" /\ t.ids = <<Head(raw).id>> /\ inputRows' = p \o <<t>>
                    BY <4>2
                <5>1. Line(p \o <<t>>, <<>>, {}, Tail(raw), inputs)
                    BY <1>1, <1>2, <2>1, <5>0, NextInLine
                <5>2. t.kind # "text"
                    BY <5>0
                <5> QED
                    BY <2>1, <5>0, <5>1, <5>2, OtherRow
            <4> QED
                BY <3>2, <4>1, <4>2
        <3>4. NormalizerTypes'
            BY <1>1, <1>2, <2>2, <3>1, <3>3 DEF NormalizerTypes
        <3>5. BufferFollows'
            <4>1. ToSet(buffer') = {}
                BY <2>2, NoNumber
            <4>2. ~clobbered => typed \subseteq ToSet(IdsIn(inputRows'))
                BY <2>1, <3>3
            <4> QED
                BY <1>1, <2>2, <3>1, <4>1, <4>2 DEF BufferFollows
        <3> QED
            BY <1>1, <2>2, <3>1, <3>3, <3>4, <3>5 DEF ClickHeld
    <2>4. CASE HandleClick
        <3>1. inputRows' = p /\ click' = Head(raw).id /\ update' = focus /\ normalizerStage' = "resolve"
            BY <2>4 DEF HandleClick
        <3> HIDE DEF p
        <3>2. Line(inputRows', <<>>, {Head(raw).id}, Tail(raw), inputs)
            BY <1>1, <1>2, <2>1, <3>1, NextInLine
        <3>3. NormalizerTypes'
            BY <1>1, <1>2, <2>1, <2>2, <3>1 DEF NormalizerTypes
        <3>4. BufferFollows'
            <4>1. ToSet(buffer') = {}
                BY <2>2, NoNumber
            <4> QED
                BY <1>1, <2>1, <2>2, <3>1, <4>1 DEF BufferFollows
        <3> QED
            BY <1>1, <2>1, <2>2, <3>1, <3>2, <3>3, <3>4 DEF ClickHeld
    <2> QED
        BY <1>6, <2>3, <2>4
<1>7. CASE HandleScroll
    <2>1. UNCHANGED <<buffer, masked, typed, update, normalizerStage, click>> /\ Lossy(inputRows, "scroll", <<Head(raw).id>>, focus.app)
        BY <1>7 DEF HandleScroll, typingVars
    <2>2. \/ inputRows' = inputRows
          \/ \E t \in Rows : t.kind = "scroll" /\ t.ids = <<Head(raw).id>> /\ inputRows' = inputRows \o <<t>>
        <3> DEFINE t == [kind |-> "scroll", ids |-> <<Head(raw).id>>, app |-> focus.app, masked |-> FALSE, pushed |-> {}]
        <3>1. t \in Rows /\ t.kind = "scroll" /\ t.ids = <<Head(raw).id>>
            BY <1>2, <2>1 DEF Rows
        <3>2. inputRows' = inputRows \/ inputRows' = inputRows \o <<t>>
            BY <1>2, <2>1 DEF Lossy
        <3> HIDE DEF t
        <3> QED
            BY <3>1, <3>2
    <2>3. /\ inputRows' \in Seq(Rows) /\ Line(inputRows', buffer, {}, Tail(raw), inputs) /\ RowsFollow(inputRows', clobbered)
          /\ ToSet(IdsIn(inputRows)) \subseteq ToSet(IdsIn(inputRows'))
        <3>1. CASE inputRows' = inputRows
            BY <1>1, <1>2, <1>3, <3>1, NextInLine
        <3>2. CASE \E t \in Rows : t.kind = "scroll" /\ t.ids = <<Head(raw).id>> /\ inputRows' = inputRows \o <<t>>
            <4>0. PICK t \in Rows : t.kind = "scroll" /\ t.ids = <<Head(raw).id>> /\ inputRows' = inputRows \o <<t>>
                BY <3>2
            <4>1. Line(inputRows \o <<t>>, buffer, {}, Tail(raw), inputs)
                BY <1>1, <1>2, <1>3, <4>0, NextInLine
            <4>2. t.kind # "text"
                BY <4>0
            <4> QED
                BY <1>2, <4>0, <4>1, <4>2, OtherRow
        <3> QED
            BY <2>2, <3>1, <3>2
    <2>4. NormalizerTypes'
        BY <1>1, <2>1, <2>3 DEF NormalizerTypes
    <2>5. BufferFollows'
        BY <1>1, <2>1, <2>3 DEF BufferFollows
    <2> QED
        BY <1>1, <2>1, <2>3, <2>4, <2>5 DEF ClickHeld
<1> QED
    BY <1>4, <1>5, <1>6, <1>7

\* The other moves of the task.
LEMMA TaskMoves ==
  ASSUME InputInv, ClickResolved \/ FocusTick \/ UpdateApp \/ TextTimeout \/ HandleClipboard \/ StopNormalizer
  PROVE  InputInv'
<1> USE DEF InputInv
<1>1. /\ inputRows \in Seq(Rows) /\ buffer \in Seq(TypedChars) /\ <<>> \in Seq(TypedChars)
      /\ focus \in Snapshots /\ focus.app \in Apps /\ update \in Snapshots /\ update.app \in Apps /\ front \in Apps
      /\ <<>> \in Seq(Nat)
    <2>1. focus \in Snapshots /\ update \in Snapshots
        BY DEF NormalizerTypes
    <2> QED
        BY <2>1 DEF NormalizerTypes, Snapshots
<1>2. UNCHANGED <<front, raw, inputs, resolver, typed>>
    BY DEF ClickResolved, FocusTick, UpdateApp, TextTimeout, HandleClipboard, StopNormalizer, worldVars, typingVars
<1>3. CASE ClickResolved
    <2>1. /\ normalizerStage = "resolve" /\ normalizerStage' = "run" /\ Lossy(inputRows, "click", <<click>>, update.app)
          /\ UNCHANGED <<focus, buffer, masked, update, clobbered>>
        BY <1>3 DEF ClickResolved, typingVars
    <2>2. buffer = <<>> /\ ClickHeld = {click} /\ Line(inputRows, <<>>, {click}, raw, inputs)
        BY <2>1 DEF BufferFollows, ClickHeld
    <2>3. <<click>> \in Seq(Nat)
        <3>1. click \in Nat
            BY <2>2 DEF Line, InputsInLine
        <3> QED
            BY <3>1, OneNumber
    <2>4. \/ inputRows' = inputRows
          \/ \E t \in Rows : t.kind = "click" /\ t.ids = <<click>> /\ inputRows' = inputRows \o <<t>>
        <3> DEFINE t == [kind |-> "click", ids |-> <<click>>, app |-> update.app, masked |-> FALSE, pushed |-> {}]
        <3>1. t \in Rows /\ t.kind = "click" /\ t.ids = <<click>>
            BY <1>1, <2>1, <2>3 DEF Rows
        <3>2. inputRows' = inputRows \/ inputRows' = inputRows \o <<t>>
            BY <1>1, <2>1, <2>3 DEF Lossy
        <3> HIDE DEF t
        <3> QED
            BY <3>1, <3>2
    <2>5. /\ inputRows' \in Seq(Rows) /\ Line(inputRows', <<>>, {}, raw, inputs) /\ RowsFollow(inputRows', clobbered)
          /\ ToSet(IdsIn(inputRows)) \subseteq ToSet(IdsIn(inputRows'))
        <3>1. CASE inputRows' = inputRows
            BY <1>1, <2>2, <3>1, ClickInLine
        <3>2. CASE \E t \in Rows : t.kind = "click" /\ t.ids = <<click>> /\ inputRows' = inputRows \o <<t>>
            <4>0. PICK t \in Rows : t.kind = "click" /\ t.ids = <<click>> /\ inputRows' = inputRows \o <<t>>
                BY <3>2
            <4>1. Line(inputRows \o <<t>>, <<>>, {}, raw, inputs)
                BY <1>1, <2>2, <4>0, ClickInLine
            <4>2. t.kind # "text"
                BY <4>0
            <4> QED
                BY <1>1, <4>0, <4>1, <4>2, OtherRow
        <3> QED
            BY <2>4, <3>1, <3>2
    <2>6. NormalizerTypes'
        BY <1>2, <2>1, <2>5 DEF NormalizerTypes
    <2>7. BufferFollows'
        BY <1>2, <2>1, <2>5 DEF BufferFollows
    <2> QED
        BY <1>2, <2>1, <2>2, <2>5, <2>6, <2>7 DEF ClickHeld
<1>4. CASE FocusTick \/ TextTimeout \/ StopNormalizer
    <2> DEFINE p == inputRows \o FlushedText
    <2>1. /\ p \in Seq(Rows) /\ Line(p, <<>>, {}, raw, inputs) /\ RowsFollow(p, clobbered)
          /\ ~clobbered => typed \subseteq ToSet(IdsIn(p))
        <3>1. ClickHeld = {}
            BY <1>4 DEF ClickHeld, FocusTick, TextTimeout, StopNormalizer
        <3> QED
            BY <3>1, Flushed
    <2>2. /\ normalizerStage = "run" /\ ClickHeld = {} /\ ClickHeld' = {} /\ UNCHANGED <<focus, clobbered>>
          /\ normalizerStage' \in {"run", "update", "stopped"}
        BY <1>4 DEF FocusTick, TextTimeout, StopNormalizer, ClickHeld
    <2>3. update' \in Snapshots /\ (normalizerStage' = "update" => update'.app = front)
        <3>1. [focus EXCEPT !.app = front] \in Snapshots /\ [focus EXCEPT !.app = front].app = front
            BY <1>1 DEF Snapshots
        <3> QED
            BY <1>1, <1>4, <2>2, <3>1 DEF FocusTick, TextTimeout, StopNormalizer, FrontmostApp
    <2>4. CASE buffer' = <<>> /\ masked' = FALSE /\ inputRows' = p
        <3> HIDE DEF p
        <3>1. NormalizerTypes'
            BY <1>1, <1>2, <2>1, <2>2, <2>3, <2>4 DEF NormalizerTypes
        <3>2. BufferFollows'
            <4>1. ToSet(buffer') = {}
                BY <2>4, NoNumber
            <4> QED
                BY <1>2, <2>1, <2>2, <2>4, <4>1 DEF BufferFollows
        <3> QED
            BY <1>2, <2>1, <2>2, <2>4, <3>1, <3>2
    <2>5. CASE UNCHANGED <<buffer, masked, inputRows>> /\ normalizerStage' = "update" /\ front = focus.app
        <3>1. NormalizerTypes'
            BY <1>1, <1>2, <2>2, <2>3, <2>5 DEF NormalizerTypes
        <3>2. BufferFollows'
            BY <1>2, <2>2, <2>3, <2>5 DEF BufferFollows
        <3> QED
            BY <1>2, <2>2, <2>5, <3>1, <3>2
    <2>6. \/ buffer' = <<>> /\ masked' = FALSE /\ inputRows' = p
          \/ UNCHANGED <<buffer, masked, inputRows>> /\ normalizerStage' = "update" /\ front = focus.app
        BY <1>4 DEF FocusTick, TextTimeout, StopNormalizer, ResetBuffer, FrontmostApp
    <2> QED
        BY <2>4, <2>5, <2>6
<1>5. CASE UpdateApp
    <2>1. /\ normalizerStage = "update" /\ normalizerStage' = "run" /\ focus' = update /\ ClickHeld = {} /\ ClickHeld' = {}
          /\ clobbered' = (clobbered \/ update.secure # focus.secure)
          /\ UNCHANGED <<buffer, masked, update>>
        BY <1>5 DEF UpdateApp, typingVars, ClickHeld
    <2> DEFINE t == [kind |-> "focus", ids |-> <<>>, app |-> update.app, masked |-> FALSE, pushed |-> {}]
    <2>2. inputRows' = inputRows \/ inputRows' = Append(inputRows, t)
        BY <1>5 DEF UpdateApp
    <2>3. t \in Rows /\ t.kind = "focus" /\ t.ids = <<>>
        BY <1>1 DEF Rows
    <2> HIDE DEF t
    <2>4. clobbered' \in BOOLEAN /\ (clobbered => clobbered')
        BY <2>1 DEF NormalizerTypes
    <2>5. RowsFollow(inputRows, clobbered')
        BY <2>4 DEF RowsFollow, RowIsFaithful
    <2>6. /\ inputRows' \in Seq(Rows) /\ Line(inputRows', buffer, {}, raw, inputs) /\ RowsFollow(inputRows', clobbered')
          /\ ToSet(IdsIn(inputRows)) \subseteq ToSet(IdsIn(inputRows'))
        <3>1. CASE inputRows' = inputRows
            BY <1>1, <2>1, <2>5, <3>1
        <3>2. CASE inputRows' = Append(inputRows, t)
            <4>1. Line(inputRows', buffer, {}, raw, inputs)
                BY <1>1, <2>1, <2>3, <3>2, EmptyRowInLine
            <4>2. t.kind # "text"
                BY <2>3
            <4> QED
                BY <1>1, <2>3, <2>5, <3>2, <4>1, <4>2, OtherRow
        <3> QED
            BY <2>2, <3>1, <3>2
    <2>7. NormalizerTypes'
        BY <1>1, <1>2, <2>1, <2>4, <2>6 DEF NormalizerTypes
    <2>8. BufferFollows'
        <3>1. \A c \in ToSet(buffer') : c[2].app \notin Excluded /\ (c[2].secure => masked')
            BY <2>1 DEF BufferFollows
        <3>2. ~clobbered' => (\A c \in ToSet(buffer') : c[2].app = focus'.app)
            <4>1. buffer = <<>> => ToSet(buffer) = {}
                BY NoNumber
            <4> QED
                BY <2>1, <2>4, <4>1 DEF BufferFollows
        <3>3. ~clobbered' => typed' \subseteq ToSet(IdsIn(inputRows')) \cup ToSet(Ids(buffer'))
            BY <1>2, <2>1, <2>4, <2>6 DEF BufferFollows
        <3> QED
            BY <2>1, <3>1, <3>2, <3>3 DEF BufferFollows
    <2> QED
        BY <1>2, <2>1, <2>6, <2>7, <2>8
<1>6. CASE HandleClipboard
    <2>1. /\ UNCHANGED <<focus, buffer, masked, update, clobbered, normalizerStage, click>>
          /\ UNCHANGED inputRows \/ Lossy(inputRows, "clipboard", <<>>, focus.app)
        BY <1>6 DEF HandleClipboard, typingVars
    <2>2. \/ inputRows' = inputRows
          \/ \E t \in Rows : t.kind = "clipboard" /\ t.ids = <<>> /\ inputRows' = inputRows \o <<t>>
        <3> DEFINE t == [kind |-> "clipboard", ids |-> <<>>, app |-> focus.app, masked |-> FALSE, pushed |-> {}]
        <3>1. t \in Rows /\ t.kind = "clipboard" /\ t.ids = <<>>
            BY <1>1, <2>1 DEF Rows
        <3>2. inputRows' = inputRows \/ inputRows' = inputRows \o <<t>>
            BY <1>1, <2>1 DEF Lossy
        <3> HIDE DEF t
        <3> QED
            BY <3>1, <3>2
    <2>3. /\ inputRows' \in Seq(Rows) /\ Line(inputRows', buffer, ClickHeld, raw, inputs) /\ RowsFollow(inputRows', clobbered)
          /\ ToSet(IdsIn(inputRows)) \subseteq ToSet(IdsIn(inputRows'))
        <3>1. CASE inputRows' = inputRows
            BY <1>1, <3>1
        <3>2. CASE \E t \in Rows : t.kind = "clipboard" /\ t.ids = <<>> /\ inputRows' = inputRows \o <<t>>
            <4>0. PICK t \in Rows : t.kind = "clipboard" /\ t.ids = <<>> /\ inputRows' = inputRows \o <<t>>
                BY <3>2
            <4>1. Line(inputRows', buffer, ClickHeld, raw, inputs)
                BY <1>1, <4>0, EmptyRowInLine
            <4>2. t.kind # "text"
                BY <4>0
            <4> QED
                BY <1>1, <4>0, <4>1, <4>2, OtherRow
        <3> QED
            BY <2>2, <3>1, <3>2
    <2>4. NormalizerTypes'
        BY <1>2, <2>1, <2>3 DEF NormalizerTypes
    <2>5. BufferFollows'
        BY <1>2, <2>1, <2>3 DEF BufferFollows
    <2> QED
        BY <1>2, <2>1, <2>3, <2>4, <2>5 DEF ClickHeld
<1> QED
    BY <1>3, <1>4, <1>5, <1>6

\* Every step keeps the line.
LEMMA InputStep == InputInv /\ [NormalizerNext]_normalizerVars => InputInv'
<1> SUFFICES ASSUME InputInv, [NormalizerNext]_normalizerVars PROVE InputInv'
    OBVIOUS
<1>1. CASE UNCHANGED normalizerVars
    BY <1>1 DEF normalizerVars, InputInv, NormalizerTypes, ClickHeld, BufferFollows
<1>2. CASE NormalizerNext
    BY <1>2, AroundTheLine, InputIsTaken, TaskMoves DEF NormalizerNext
<1> QED
    BY <1>1, <1>2

\* What is written is as it was typed.
LEMMA InputFaithful == InputInv => TypingIsRecordedFaithfully
<1> SUFFICES ASSUME InputInv PROVE TypingIsRecordedFaithfully
    OBVIOUS
<1> USE DEF InputInv
<1>1. inputRows \in Seq(Rows) /\ DOMAIN inputRows = 1 .. Len(inputRows)
    BY QueueOps DEF NormalizerTypes
<1>2. Up(KeptIds(inputRows)) /\ IsInjective(IdsIn(inputRows)) /\ KeptIds(inputRows) \in Seq(Nat)
    BY DEF Line, InputsInLine
<1>3. InputsKeepTheirOrder
    <2>1. DOMAIN KeptIds(inputRows) = 1 .. Len(KeptIds(inputRows))
        BY <1>2, QueueOps
    <2>2. \A i, j \in DOMAIN KeptIds(inputRows) : i < j => KeptIds(inputRows)[i] < KeptIds(inputRows)[j]
        BY <1>2, <2>1 DEF Up
    <2> QED
        BY <1>2, <2>2 DEF InputsKeepTheirOrder, KeptIds, IdsIn, WrittenIds
<1>4. \A t \in Texts : RowIsFaithful(t, clobbered)
    <2>1. \A t \in Texts : t \in ToSet(inputRows) /\ t.kind = "text"
        BY DEF Texts, ToSet
    <2> QED
        BY <2>1 DEF RowsFollow
<1>5. SecretsStayMasked
    BY <1>4 DEF SecretsStayMasked, RowIsFaithful
<1>6. TextBelongsToItsApp
    <2>1. \A t \in Texts : t.app \notin Excluded /\ (clobbered \/ \A p \in t.pushed : p[2].app = t.app)
        BY <1>4 DEF RowIsFaithful
    <2>2. normalizerStage = "stopped" /\ ~clobbered => typed \subseteq ToSet(WrittenIds)
        <3>1. buffer = <<>> => ToSet(Ids(buffer)) = {}
            BY NumbersInHand, NoNumber
        <3> QED
            BY <3>1 DEF BufferFollows, WrittenIds, IdsIn
    <2> QED
        BY <2>1, <2>2 DEF TextBelongsToItsApp
<1> QED
    BY <1>3, <1>5, <1>6 DEF TypingIsRecordedFaithfully

\* Inputs are written at most once and in their order, secrets masked, text under the app
\* it was typed into.
THEOREM InputIsFaithful == NormalizerSpec => []TypingIsRecordedFaithfully
<1> QED
    BY InputStart, InputStep, InputFaithful, PTL DEF NormalizerSpec

-----------------------------------------------------------------------------
(* Transcription: the inductive invariant.                                 *)

\* Who loads holds the lock, and what it loads is not cached; what is held was loaded in
\* a language of the settings.
LoadersFollow ==
    /\ \A u \in Users : user[u] = "loading" => loadLock = u /\ cached # KeyOf(u)
    /\ user["worker"] # "idle" => job # 0

\* A worker that has, or has asked for, an instance of another language is to let go of it.
ReloadIsDue ==
    /\ held["worker"] \notin {language, NoModel} => ReloadJob \in ToSet(jobs)
    /\ user["worker"] \in {"waiting", "loading"} /\ asked # language => ReloadJob \in ToSet(jobs)

ModelsInv == TranscriptionTypeOK /\ LoadersFollow /\ ReloadIsDue

\* A finite set of numbers has its elements in order.
LEMMA NumbersInOrder ==
    ASSUME NEW S \in SUBSET Nat, IsFiniteSet(S)
    PROVE  \E q \in Seq(Nat) : Len(q) = Cardinality(S) /\ Up(q) /\ ToSet(q) = S
<1> DEFINE T == {n \in Nat : \A A \in SUBSET Nat : IsFiniteSet(A) /\ Cardinality(A) = n =>
                   \E q \in Seq(Nat) : Len(q) = n /\ Up(q) /\ ToSet(q) = A}
<1>1. 0 \in T
    <2>1. ASSUME NEW A \in SUBSET Nat, IsFiniteSet(A), Cardinality(A) = 0
          PROVE  \E q \in Seq(Nat) : Len(q) = 0 /\ Up(q) /\ ToSet(q) = A
        <3>1. A = {}
            BY <2>1, FS_EmptySet
        <3> QED
            BY <3>1, NoNumber
    <2> QED
        BY <2>1
<1>2. ASSUME NEW n \in T PROVE n + 1 \in T
    <2>1. n \in Nat
        OBVIOUS
    <2>2. ASSUME NEW A \in SUBSET Nat, IsFiniteSet(A), Cardinality(A) = n + 1
          PROVE  \E q \in Seq(Nat) : Len(q) = n + 1 /\ Up(q) /\ ToSet(q) = A
        <3>1. A # {}
            BY <2>1, <2>2, FS_EmptySet
        <3>2. PICK e \in A : TRUE
            BY <3>1
        <3>3. IsFiniteSet(A \ {e}) /\ Cardinality(A \ {e}) = n
            <4>1. IsFiniteSet(A \ {e}) /\ Cardinality(A \ {e}) = Cardinality(A) - 1
                BY <2>2, <3>2, FS_RemoveElement
            <4> QED
                BY <2>1, <2>2, <4>1
        <3>4. PICK p \in Seq(Nat) : Len(p) = n /\ Up(p) /\ ToSet(p) = A \ {e}
            <4>1. A \ {e} \in SUBSET Nat
                OBVIOUS
            <4> QED
                BY <3>3, <4>1
        <3>5. e \in Nat /\ e \notin ToSet(p)
            BY <3>2, <3>4
        <3>6. PICK q \in Seq(Nat) : Len(q) = Len(p) + 1 /\ Up(q) /\ ToSet(q) = ToSet(p) \cup {e}
            BY <3>4, <3>5, PlaceInOrder
        <3> QED
            BY <3>2, <3>4, <3>6
    <2> QED
        BY <2>1, <2>2
<1>3. T = Nat
    <2>1. T \in SUBSET Nat
        OBVIOUS
    <2> HIDE DEF T
    <2> QED
        BY <1>1, <1>2, <2>1, Induction
<1>4. Cardinality(S) \in Nat
    BY FS_CardinalityType
<1> QED
    BY <1>3, <1>4

\* What a sweep finds is enqueued in order.
LEMMA SweptInOrder ==
    ASSUME NEW ids \in SUBSET Recordings
    PROVE  /\ OldestFirst(ids) \in Seq(Recordings) /\ ToSet(OldestFirst(ids)) = ids /\ Up(OldestFirst(ids))
<1>1. ids \in SUBSET Nat /\ IsFiniteSet(ids)
    BY TranscriptionAssumption, FS_Subset
<1>2. Cardinality(ids) \in Nat
    BY <1>1, FS_CardinalityType
<1>3. PICK r \in Seq(Nat) : Len(r) = Cardinality(ids) /\ Up(r) /\ ToSet(r) = ids
    BY <1>1, NumbersInOrder
<1>4. r \in [1 .. Cardinality(ids) -> ids]
    <2>1. r \in [1 .. Len(r) -> Nat] /\ DOMAIN r = 1 .. Len(r)
        BY LenProperties
    <2>2. \A i \in 1 .. Len(r) : r[i] \in ToSet(r)
        BY <2>1 DEF ToSet
    <2>3. r \in [1 .. Len(r) -> ToSet(r)]
        BY <2>1, <2>2
    <2> QED
        BY <1>3, <2>3
<1> DEFINE q == OldestFirst(ids)
<1>5. /\ q \in [1 .. Cardinality(ids) -> ids] /\ ToSet(q) = ids
      /\ \A i, j \in 1 .. Cardinality(ids) : i < j => q[i] < q[j]
    <2>1. \A i, j \in 1 .. Cardinality(ids) : i < j => r[i] < r[j]
        BY <1>3 DEF Up
    <2>2. \E x \in [1 .. Cardinality(ids) -> ids] :
             ToSet(x) = ids /\ \A i, j \in 1 .. Cardinality(ids) : i < j => x[i] < x[j]
        BY <1>3, <1>4, <2>1
    <2> QED
        BY <2>2, Zenon DEF OldestFirst
<1> HIDE DEF q
<1>6. q \in Seq(Recordings) /\ Len(q) = Cardinality(ids)
    <2>1. q \in [1 .. Cardinality(ids) -> Recordings]
        BY <1>5
    <2>2. q \in Seq(Recordings)
        BY <1>2, <2>1, SeqDef
    <2> QED
        BY <1>2, <2>1, <2>2, LenProperties
<1>7. Up(q)
    BY <1>5, <1>6 DEF Up
<1> QED
    BY <1>5, <1>6, <1>7 DEF q

\* The queue is of jobs, whatever is taken from it or added to it.
LEMMA JobsGoOn ==
    ASSUME jobs \in Seq(Jobs)
    PROVE  /\ \A j \in Jobs : Append(jobs, j) \in Seq(Jobs) /\ ToSet(Append(jobs, j)) = ToSet(jobs) \cup {j}
           /\ jobs # <<>> => Tail(jobs) \in Seq(Jobs) /\ ToSet(jobs) = {Head(jobs)} \cup ToSet(Tail(jobs))
           /\ <<SweepJob>> \in Seq(Jobs) /\ SweepJob \in Jobs /\ ReloadJob \in Jobs /\ Recordings \subseteq Jobs
           /\ SweepJob # ReloadJob /\ ReloadJob \notin Recordings
<1>1. SweepJob \in Jobs /\ ReloadJob \in Jobs /\ Recordings \subseteq Jobs
    BY DEF Jobs
<1>2. SweepJob # ReloadJob /\ ReloadJob \notin Recordings
    BY TranscriptionAssumption DEF SweepJob, ReloadJob
<1>3. \A j \in Jobs : Append(jobs, j) \in Seq(Jobs) /\ ToSet(Append(jobs, j)) = ToSet(jobs) \cup {j}
    BY Elements
<1>4. jobs # <<>> => Tail(jobs) \in Seq(Jobs) /\ ToSet(jobs) = {Head(jobs)} \cup ToSet(Tail(jobs))
    BY Elements
<1>5. <<SweepJob>> \in Seq(Jobs)
    BY <1>1
<1> QED
    BY <1>1, <1>2, <1>3, <1>4, <1>5

\* At launch no model is loaded and no job is due.
LEMMA ModelsStart == TranscriptionInit => ModelsInv
<1> SUFFICES ASSUME TranscriptionInit PROVE ModelsInv
    OBVIOUS
<1>1. <<SweepJob>> \in Seq(Jobs)
    BY DEF Jobs
<1>2. TranscriptionTypeOK
    <2>1. /\ jobs \in Seq(Jobs) /\ asked \in Languages /\ language \in Languages /\ events \in 0..MaxEvents
          /\ cached \in Languages \cup {NoModel} /\ job \in Recordings \cup {0}
        BY <1>1, TranscriptionAssumption DEF TranscriptionInit
    <2>2. /\ user \in [Users -> {"idle", "waiting", "loading", "using"}] /\ held \in [Users -> Languages \cup {NoModel}]
        BY DEF TranscriptionInit
    <2>3. /\ meeting \in [Recordings -> {"recording", "completed", "over"}]
          /\ transcript \in [Recordings -> {"none", "text", "error"}]
        BY DEF TranscriptionInit
    <2>4. loadLock \in Users \cup {"none"} /\ idleLong \in BOOLEAN /\ modelFile \in BOOLEAN /\ due = {} /\ passed = {}
        BY DEF TranscriptionInit
    <2> QED
        BY <2>1, <2>2, <2>3, <2>4 DEF TranscriptionTypeOK
<1>3. LoadersFollow /\ ReloadIsDue
    BY DEF TranscriptionInit, LoadersFollow, ReloadIsDue, Users
<1> QED
    BY <1>2, <1>3 DEF ModelsInv

\* The shared model: asked for, waited for, loaded.
LEMMA SharedModelStep ==
    ASSUME ModelsInv,
           \/ \E u \in Users : ModelStep(u)
           \/ RealtimeSegment \/ RealtimeDone \/ RealtimeIdle \/ IdleTimePasses
    PROVE  ModelsInv'
<1> USE DEF ModelsInv
<1>1. /\ UNCHANGED <<language, modelFile, jobs, rowVars, asked>>
      /\ UNCHANGED job \/ job' = 0
    BY DEF ModelStep, Acquire, Loaded, LoadFails, RealtimeSegment, RealtimeDone, RealtimeIdle, IdleTimePasses, Get
<1>2. /\ user \in [Users -> {"idle", "waiting", "loading", "using"}] /\ held \in [Users -> Languages \cup {NoModel}]
      /\ cached \in Languages \cup {NoModel} /\ NoModel \notin Languages
      /\ \A u \in Users : KeyOf(u) \in Languages /\ KeyOf(u)' = KeyOf(u)
      /\ "worker" \in Users /\ "realtime" \in Users /\ KeyOf("worker") = asked /\ "none" \notin Users
      /\ KeyOf("realtime") = RealtimeLanguage
    BY <1>1, TranscriptionAssumption DEF TranscriptionTypeOK, KeyOf, Users
<1>3. ASSUME NEW u \in Users, Acquire(u) PROVE ModelsInv'
    <2>1. /\ user[u] = "waiting" /\ loadLock = "none"
          /\ UNCHANGED <<cached, asked, language, modelFile, jobs, job, rowVars, passed, events>>
        BY <1>3 DEF Acquire
    <2>2. \/ /\ cached = KeyOf(u) /\ held' = [held EXCEPT ![u] = cached] /\ user' = [user EXCEPT ![u] = "using"]
             /\ idleLong' = FALSE /\ UNCHANGED loadLock
          \/ /\ cached # KeyOf(u) /\ loadLock' = u /\ user' = [user EXCEPT ![u] = "loading"] /\ UNCHANGED <<held, idleLong>>
        BY <1>3 DEF Acquire
    <2>3. \A v \in Users : user[v] # "loading"
        BY <1>2, <2>1 DEF LoadersFollow
    <2>4. TranscriptionTypeOK'
        BY <1>2, <2>1, <2>2 DEF TranscriptionTypeOK, rowVars
    <2>5. LoadersFollow'
        <3>1. \A v \in Users : user'[v] = "loading" => v = u /\ cached # KeyOf(u) /\ loadLock' = u
            BY <1>2, <2>2, <2>3
        <3>2. user'["worker"] # "idle" => user["worker"] # "idle"
            BY <1>2, <2>1, <2>2
        <3> QED
            BY <1>2, <2>1, <3>1, <3>2 DEF LoadersFollow
    <2>6. ReloadIsDue'
        <3>1. user'["worker"] \in {"waiting", "loading"} => user["worker"] \in {"waiting", "loading"}
            BY <1>2, <2>1, <2>2
        <3>2. held'["worker"] = held["worker"] \/ (held'["worker"] = asked /\ user["worker"] = "waiting")
            BY <1>2, <2>1, <2>2
        <3> QED
            BY <2>1, <3>1, <3>2 DEF ReloadIsDue
    <2> QED
        BY <2>4, <2>5, <2>6
<1>4. ASSUME NEW u \in Users, Loaded(u) PROVE ModelsInv'
    <2>1. /\ user[u] = "loading" /\ cached' = KeyOf(u) /\ held' = [held EXCEPT ![u] = KeyOf(u)]
          /\ user' = [user EXCEPT ![u] = "using"] /\ idleLong' = FALSE /\ loadLock' = "none"
          /\ UNCHANGED <<asked, language, modelFile, jobs, job, rowVars, passed, events>>
        BY <1>4 DEF Loaded
    <2>2. \A v \in Users : user[v] = "loading" => v = u
        BY <2>1 DEF LoadersFollow
    <2>3. TranscriptionTypeOK'
        BY <1>2, <2>1 DEF TranscriptionTypeOK, rowVars
    <2>4. LoadersFollow'
        <3>1. \A v \in Users : user'[v] # "loading"
            BY <1>2, <2>1, <2>2
        <3>2. user'["worker"] # "idle" => user["worker"] # "idle"
            BY <1>2, <2>1
        <3> QED
            BY <2>1, <3>1, <3>2 DEF LoadersFollow
    <2>5. ReloadIsDue'
        <3>1. user'["worker"] \in {"waiting", "loading"} => user["worker"] \in {"waiting", "loading"}
            BY <1>2, <2>1
        <3>2. held'["worker"] = held["worker"] \/ (held'["worker"] = asked /\ user["worker"] = "loading")
            BY <1>2, <2>1
        <3> QED
            BY <2>1, <3>1, <3>2 DEF ReloadIsDue
    <2> QED
        BY <2>3, <2>4, <2>5
<1>5. ASSUME NEW u \in Users, LoadFails(u) PROVE ModelsInv'
    <2>1. /\ user[u] = "loading" /\ loadLock' = "none" /\ user' = [user EXCEPT ![u] = "idle"]
          /\ job' = (IF u = "worker" THEN 0 ELSE job) /\ passed' = (IF u = "worker" THEN passed \cup {job} ELSE passed)
          /\ UNCHANGED <<cached, idleLong, asked, held, language, modelFile, jobs, rowVars>>
        BY <1>5 DEF LoadFails
    <2>2. \A v \in Users : user[v] = "loading" => v = u
        BY <2>1 DEF LoadersFollow
    <2>3. events' \in 0..MaxEvents
        BY <1>5, TranscriptionAssumption DEF LoadFails, Happens, TranscriptionTypeOK
    <2>4. passed' \subseteq Recordings /\ job' \in Recordings \cup {0}
        <3>1. u = "worker" => job \in Recordings
            BY <2>1 DEF LoadersFollow, TranscriptionTypeOK
        <3> QED
            BY <2>1, <3>1 DEF TranscriptionTypeOK
    <2>5. TranscriptionTypeOK'
        BY <1>2, <2>1, <2>3, <2>4 DEF TranscriptionTypeOK, rowVars
    <2>6. LoadersFollow'
        <3>1. \A v \in Users : user'[v] # "loading"
            BY <1>2, <2>1, <2>2
        <3>2. user'["worker"] # "idle" => user["worker"] # "idle" /\ u # "worker"
            BY <1>2, <2>1
        <3> QED
            BY <2>1, <3>1, <3>2 DEF LoadersFollow
    <2>7. ReloadIsDue'
        <3>1. user'["worker"] \in {"waiting", "loading"} => user["worker"] \in {"waiting", "loading"}
            BY <1>2, <2>1
        <3> QED
            BY <2>1, <3>1 DEF ReloadIsDue
    <2> QED
        BY <2>5, <2>6, <2>7
<1>6. CASE RealtimeSegment
    <2>1. /\ user["realtime"] = "idle" /\ UNCHANGED <<cached, loadLock, asked, language, modelFile, jobs, job, rowVars, passed, events>>
          /\ \/ /\ held' = [held EXCEPT !["realtime"] = cached] /\ user' = [user EXCEPT !["realtime"] = "using"]
                /\ idleLong' = FALSE
             \/ /\ user' = [user EXCEPT !["realtime"] = "waiting"] /\ UNCHANGED <<held, idleLong>>
        BY <1>6 DEF RealtimeSegment, Get
    <2>2. TranscriptionTypeOK'
        <3>1. /\ user' \in [Users -> {"idle", "waiting", "loading", "using"}] /\ held' \in [Users -> Languages \cup {NoModel}]
            BY <1>2, <2>1
        <3>2. idleLong' \in BOOLEAN
            BY <2>1 DEF TranscriptionTypeOK
        <3> QED
            BY <2>1, <3>1, <3>2 DEF TranscriptionTypeOK, rowVars
    <2>3. /\ \A v \in Users : user'[v] = "loading" => user[v] = "loading"
          /\ user'["worker"] = user["worker"] /\ held'["worker"] = held["worker"]
        BY <1>2, <2>1
    <2>4. LoadersFollow' /\ ReloadIsDue'
        BY <1>2, <2>1, <2>3 DEF LoadersFollow, ReloadIsDue
    <2> QED
        BY <2>2, <2>4
<1>7. CASE RealtimeDone
    <2>1. /\ user' = [user EXCEPT !["realtime"] = "idle"] /\ held' = [held EXCEPT !["realtime"] = NoModel]
          /\ UNCHANGED <<cached, idleLong, loadLock, asked, language, modelFile, jobs, job, rowVars, passed, events>>
        BY <1>7 DEF RealtimeDone
    <2>2. TranscriptionTypeOK'
        BY <1>2, <2>1 DEF TranscriptionTypeOK, rowVars
    <2>3. /\ \A v \in Users : user'[v] = "loading" => user[v] = "loading"
          /\ user'["worker"] = user["worker"] /\ held'["worker"] = held["worker"]
        BY <1>2, <2>1
    <2>4. LoadersFollow' /\ ReloadIsDue'
        BY <1>2, <2>1, <2>3 DEF LoadersFollow, ReloadIsDue
    <2> QED
        BY <2>2, <2>4
<1>8. CASE RealtimeIdle \/ IdleTimePasses
    <2>1. /\ cached' \in {cached, NoModel} /\ idleLong' \in {idleLong, TRUE}
          /\ UNCHANGED <<loadLock, user, asked, held, language, modelFile, jobs, job, rowVars, passed, events>>
        BY <1>8 DEF RealtimeIdle, IdleTimePasses, UnloadIfIdle
    <2>2. TranscriptionTypeOK'
        BY <2>1 DEF TranscriptionTypeOK, rowVars
    <2>3. LoadersFollow'
        BY <1>2, <2>1 DEF LoadersFollow
    <2>4. ReloadIsDue'
        BY <2>1 DEF ReloadIsDue
    <2> QED
        BY <2>2, <2>3, <2>4
<1> QED
    BY <1>3, <1>4, <1>5, <1>6, <1>7, <1>8 DEF ModelStep

\* The worker.
LEMMA WorkerMoves ==
    ASSUME ModelsInv,
           \/ ReloadModel \/ Sweep \/ FinishMeeting \/ WorkerIdle
           \/ \E m \in Recordings : SkipMeeting(m) \/ StartMeeting(m)
    PROVE  ModelsInv'
<1> USE DEF ModelsInv
<1>1. /\ user \in [Users -> {"idle", "waiting", "loading", "using"}] /\ held \in [Users -> Languages \cup {NoModel}]
      /\ cached \in Languages \cup {NoModel} /\ NoModel \notin Languages /\ language \in Languages
      /\ \A u \in Users : KeyOf(u) \in Languages
      /\ "worker" \in Users /\ "realtime" \in Users /\ jobs \in Seq(Jobs) /\ MaxEvents \in Nat /\ events \in 0..MaxEvents
    BY TranscriptionAssumption DEF TranscriptionTypeOK, KeyOf, Users
<1>2. CASE ReloadModel
    <2>1. /\ jobs # <<>> /\ jobs' = Tail(jobs) /\ held' = [held EXCEPT !["worker"] = NoModel] /\ cached' = NoModel
          /\ user["worker"] = "idle"
          /\ UNCHANGED <<idleLong, loadLock, user, asked, language, modelFile, job, rowVars, passed, events>>
        BY <1>2 DEF ReloadModel, NextJob, WorkerFree
    <2>2. TranscriptionTypeOK'
        BY <1>1, <2>1, JobsGoOn DEF TranscriptionTypeOK, rowVars
    <2>3. LoadersFollow'
        BY <1>1, <2>1 DEF LoadersFollow, KeyOf
    <2>4. held'["worker"] = NoModel
        BY <1>1, <2>1
    <2>5. ReloadIsDue'
        BY <2>1, <2>4 DEF ReloadIsDue
    <2> QED
        BY <2>2, <2>3, <2>5
<1>3. CASE Sweep
    <2> DEFINE ids == {m \in Recordings : Pending(m)}
    <2>1. /\ jobs # <<>> /\ Head(jobs) = SweepJob /\ UNCHANGED <<language, modelFile, modelVars, job, rowVars>>
          /\ jobs' = Tail(jobs) \o OldestFirst(ids) \/ jobs' = Tail(jobs)
          /\ passed' \in {passed, passed \cup ids} /\ (UNCHANGED events \/ Happens)
        BY <1>3 DEF Sweep
    <2>2. ids \in SUBSET Recordings
        OBVIOUS
    <2> HIDE DEF ids
    <2>3. /\ Tail(jobs) \in Seq(Jobs) /\ ToSet(jobs) = {SweepJob} \cup ToSet(Tail(jobs)) /\ SweepJob # ReloadJob
          /\ OldestFirst(ids) \in Seq(Jobs)
        <3>1. OldestFirst(ids) \in Seq(Recordings) /\ Recordings \subseteq Jobs
            BY <1>1, <2>2, SweptInOrder, JobsGoOn
        <3>2. OldestFirst(ids) \in Seq(Jobs)
            BY <3>1, LenProperties, SeqDef
        <3> QED
            BY <1>1, <2>1, <3>2, JobsGoOn
    <2>4. jobs' \in Seq(Jobs) /\ ToSet(Tail(jobs)) \subseteq ToSet(jobs')
        <3>1. CASE jobs' = Tail(jobs)
            BY <2>3, <3>1
        <3>2. CASE jobs' = Tail(jobs) \o OldestFirst(ids)
            <4>1. \A q, p \in Seq(Jobs) : q \o p \in Seq(Jobs) /\ ToSet(q \o p) = ToSet(q) \cup ToSet(p)
                BY Elements
            <4>2. /\ Tail(jobs) \o OldestFirst(ids) \in Seq(Jobs)
                  /\ ToSet(Tail(jobs) \o OldestFirst(ids)) = ToSet(Tail(jobs)) \cup ToSet(OldestFirst(ids))
                BY <2>3, <4>1, Zenon
            <4> QED
                BY <3>2, <4>2
        <3> QED
            BY <2>1, <3>1, <3>2
    <2>5. events' \in 0..MaxEvents /\ passed' \subseteq Recordings
        BY <1>1, <2>1, <2>2 DEF Happens, TranscriptionTypeOK
    <2>6. TranscriptionTypeOK'
        BY <2>1, <2>4, <2>5 DEF TranscriptionTypeOK, rowVars, modelVars
    <2>7. LoadersFollow'
        BY <2>1 DEF LoadersFollow, KeyOf, modelVars
    <2>8. ReloadIsDue'
        BY <2>1, <2>3, <2>4 DEF ReloadIsDue, modelVars
    <2> QED
        BY <2>6, <2>7, <2>8
<1>4. ASSUME NEW m \in Recordings, SkipMeeting(m) PROVE ModelsInv'
    <2>1. /\ jobs # <<>> /\ Head(jobs) = m /\ jobs' = Tail(jobs) /\ UNCHANGED <<language, modelFile, modelVars, job, rowVars>>
          /\ passed' \in {passed, passed \cup {m}} /\ (UNCHANGED events \/ Happens)
        BY <1>4 DEF SkipMeeting, NextJob
    <2>2. /\ Tail(jobs) \in Seq(Jobs) /\ ToSet(jobs) = {m} \cup ToSet(Tail(jobs)) /\ m # ReloadJob
        BY <1>1, <2>1, JobsGoOn
    <2>3. events' \in 0..MaxEvents /\ passed' \subseteq Recordings
        BY <1>1, <2>1 DEF Happens, TranscriptionTypeOK
    <2>4. TranscriptionTypeOK'
        BY <2>1, <2>2, <2>3 DEF TranscriptionTypeOK, rowVars, modelVars
    <2>5. LoadersFollow'
        BY <2>1 DEF LoadersFollow, KeyOf, modelVars
    <2>6. ReloadIsDue'
        BY <2>1, <2>2 DEF ReloadIsDue, modelVars
    <2> QED
        BY <2>4, <2>5, <2>6
<1>5. ASSUME NEW m \in Recordings, StartMeeting(m) PROVE ModelsInv'
    <2>1. /\ jobs # <<>> /\ Head(jobs) = m /\ jobs' = Tail(jobs) /\ UNCHANGED <<language, modelFile, rowVars, events>>
          /\ user["worker"] = "idle" /\ job = 0
        BY <1>5 DEF StartMeeting, NextJob, WorkerFree
    <2>2. /\ Tail(jobs) \in Seq(Jobs) /\ ToSet(jobs) = {m} \cup ToSet(Tail(jobs)) /\ m # ReloadJob /\ m # 0
        BY <1>1, <2>1, JobsGoOn, TranscriptionAssumption
    <2>3. /\ \/ /\ UNCHANGED <<cached, loadLock, asked, held, passed, idleLong>>
                /\ user' = [user EXCEPT !["worker"] = "using"] /\ job' = m
             \/ /\ cached = language /\ held' = [held EXCEPT !["worker"] = cached] /\ user' = [user EXCEPT !["worker"] = "using"]
                /\ idleLong' = FALSE /\ UNCHANGED <<cached, loadLock, asked, passed>> /\ job' = m
             \/ /\ user' = [user EXCEPT !["worker"] = "waiting"] /\ asked' = language /\ held["worker"] = NoModel
                /\ UNCHANGED <<cached, idleLong, loadLock, held, passed>> /\ job' = m
             \/ passed' = passed \cup {m} /\ UNCHANGED <<modelVars, job>>
        BY <1>5 DEF StartMeeting, Get
    <2>4. TranscriptionTypeOK'
        <3>1. CASE passed' = passed \cup {m} /\ UNCHANGED <<modelVars, job>>
            BY <2>1, <2>2, <3>1 DEF TranscriptionTypeOK, rowVars, modelVars
        <3>2. CASE job' = m /\ UNCHANGED <<cached, loadLock, passed>>
            <4>1. /\ user' \in [Users -> {"idle", "waiting", "loading", "using"}] /\ held' \in [Users -> Languages \cup {NoModel}]
                  /\ asked' \in Languages /\ idleLong' \in BOOLEAN
                <5>1. CASE passed' = passed \cup {m} /\ UNCHANGED <<modelVars, job>>
                    BY <5>1 DEF modelVars, TranscriptionTypeOK
                <5>2. \A x \in {"using", "waiting"} : [user EXCEPT !["worker"] = x] \in [Users -> {"idle", "waiting", "loading", "using"}]
                    BY <1>1
                <5>3. [held EXCEPT !["worker"] = cached] \in [Users -> Languages \cup {NoModel}]
                    BY <1>1
                <5>4. asked \in Languages /\ idleLong \in BOOLEAN
                    BY DEF TranscriptionTypeOK
                <5>5. user' \in [Users -> {"idle", "waiting", "loading", "using"}]
                    BY <2>3, <5>1, <5>2
                <5>6. held' \in [Users -> Languages \cup {NoModel}]
                    BY <1>1, <2>3, <5>1, <5>3
                <5>7. asked' \in Languages /\ idleLong' \in BOOLEAN
                    <6>1. asked' \in {asked, language}
                        BY <2>3 DEF modelVars
                    <6>2. idleLong' \in {idleLong, FALSE}
                        BY <2>3, <5>1, <5>4 DEF modelVars
                    <6> QED
                        BY <1>1, <5>4, <6>1, <6>2
                <5> QED
                    BY <5>5, <5>6, <5>7
            <4> QED
                BY <2>1, <2>2, <3>2, <4>1 DEF TranscriptionTypeOK, rowVars
        <3> QED
            BY <2>3, <3>1, <3>2
    <2>5. LoadersFollow'
        <3>1. \A v \in Users : user'[v] = "loading" => user[v] = "loading" /\ v = "realtime"
            BY <1>1, <2>1, <2>3 DEF modelVars, Users
        <3>2. cached' = cached /\ loadLock' = loadLock
            BY <2>3 DEF modelVars
        <3>3. KeyOf("realtime")' = KeyOf("realtime")
            BY DEF KeyOf
        <3>4. user'["worker"] # "idle" => job' # 0
            BY <1>1, <2>1, <2>2, <2>3 DEF modelVars
        <3> QED
            BY <3>1, <3>2, <3>3, <3>4 DEF LoadersFollow
    <2>6. ReloadIsDue'
        <3>1. ReloadJob \in ToSet(jobs) => ReloadJob \in ToSet(jobs')
            BY <2>1, <2>2
        <3>2. held'["worker"] \in {held["worker"], language}
            BY <1>1, <2>3 DEF modelVars
        <3>3. user'["worker"] \in {"waiting", "loading"} => asked' = language
            BY <1>1, <2>1, <2>3 DEF modelVars
        <3> QED
            BY <2>1, <3>1, <3>2, <3>3 DEF ReloadIsDue
    <2> QED
        BY <2>4, <2>5, <2>6
<1>6. CASE FinishMeeting
    <2>1. /\ user["worker"] = "using" /\ job # 0 /\ user' = [user EXCEPT !["worker"] = "idle"] /\ job' = 0
          /\ UNCHANGED <<cached, idleLong, loadLock, asked, held, language, modelFile, jobs, meeting, due>>
          /\ \E t \in {"text", "error"} : transcript' \in {transcript, [transcript EXCEPT ![job] = t]}
          /\ passed' \in {passed, passed \cup {job}} /\ (UNCHANGED events \/ Happens)
        BY <1>6 DEF FinishMeeting
    <2>2. job \in Recordings /\ transcript \in [Recordings -> {"none", "text", "error"}]
        BY <2>1 DEF TranscriptionTypeOK
    <2>3. transcript' \in [Recordings -> {"none", "text", "error"}]
        BY <2>1, <2>2
    <2>4. events' \in 0..MaxEvents /\ passed' \subseteq Recordings
        BY <1>1, <2>1, <2>2 DEF Happens, TranscriptionTypeOK
    <2>5. TranscriptionTypeOK'
        BY <1>1, <2>1, <2>3, <2>4 DEF TranscriptionTypeOK
    <2>6. \A v \in Users : user'[v] = "loading" => user[v] = "loading"
        BY <1>1, <2>1
    <2>7. user'["worker"] = "idle"
        BY <1>1, <2>1
    <2>8. LoadersFollow' /\ ReloadIsDue'
        BY <2>1, <2>6, <2>7 DEF LoadersFollow, ReloadIsDue, KeyOf
    <2> QED
        BY <2>5, <2>8
<1>7. CASE WorkerIdle
    <2>1. /\ held' = [held EXCEPT !["worker"] = NoModel] /\ cached' \in {cached, NoModel} /\ user["worker"] = "idle"
          /\ UNCHANGED <<idleLong, loadLock, user, asked, language, modelFile, jobs, job, rowVars, passed, events>>
        BY <1>7 DEF WorkerIdle, UnloadIfIdle, WorkerFree
    <2>2. TranscriptionTypeOK'
        BY <1>1, <2>1 DEF TranscriptionTypeOK, rowVars
    <2>3. LoadersFollow'
        BY <1>1, <2>1 DEF LoadersFollow, KeyOf
    <2>4. held'["worker"] = NoModel
        BY <1>1, <2>1
    <2>5. ReloadIsDue'
        BY <2>1, <2>4 DEF ReloadIsDue
    <2> QED
        BY <2>2, <2>3, <2>5
<1> QED
    BY <1>2, <1>3, <1>4, <1>5, <1>6, <1>7

\* Recordings end, settings change, the process dies.
LEMMA AroundTheModel ==
    ASSUME ModelsInv,
           \/ \E m \in Recordings : RecordingEnds(m) \/ OnRecordingStopped(m)
           \/ SetTranscriptionLanguage \/ DeleteModel \/ DownloadModel \/ AssistDownloadsModel
           \/ Relaunch
    PROVE  ModelsInv'
<1> USE DEF ModelsInv
<1>1. jobs \in Seq(Jobs) /\ MaxEvents \in Nat /\ events \in 0..MaxEvents
    BY TranscriptionAssumption DEF TranscriptionTypeOK
<1>2. ASSUME NEW m \in Recordings, RecordingEnds(m) PROVE ModelsInv'
    <2>1. /\ meeting' = [meeting EXCEPT ![m] = "completed"] /\ due' = due \cup {m}
          /\ UNCHANGED <<language, modelFile, modelVars, jobs, job, transcript, passed, events>>
        BY <1>2 DEF RecordingEnds
    <2>2. TranscriptionTypeOK'
        BY <2>1 DEF TranscriptionTypeOK, modelVars
    <2>3. LoadersFollow' /\ ReloadIsDue'
        BY <2>1 DEF LoadersFollow, ReloadIsDue, KeyOf, modelVars
    <2> QED
        BY <2>2, <2>3
<1>3. ASSUME NEW m \in Recordings, OnRecordingStopped(m) PROVE ModelsInv'
    <2>1. /\ due' = due \ {m} /\ jobs' = Append(jobs, m)
          /\ UNCHANGED <<language, modelFile, modelVars, job, meeting, transcript, passed, events>>
        BY <1>3 DEF OnRecordingStopped
    <2>2. jobs' \in Seq(Jobs) /\ ToSet(jobs) \subseteq ToSet(jobs')
        BY <1>1, <2>1, JobsGoOn
    <2>3. TranscriptionTypeOK'
        BY <2>1, <2>2 DEF TranscriptionTypeOK, modelVars
    <2>4. LoadersFollow' /\ ReloadIsDue'
        BY <2>1, <2>2 DEF LoadersFollow, ReloadIsDue, KeyOf, modelVars
    <2> QED
        BY <2>3, <2>4
<1>4. CASE SetTranscriptionLanguage
    <2>1. /\ Happens /\ language' \in Languages /\ jobs' = Append(jobs, ReloadJob)
          /\ UNCHANGED <<modelFile, modelVars, job, rowVars, passed>>
        BY <1>4 DEF SetTranscriptionLanguage
    <2>2. jobs' \in Seq(Jobs) /\ ReloadJob \in ToSet(jobs')
        BY <1>1, <2>1, JobsGoOn
    <2>3. events' \in 0..MaxEvents
        BY <1>1, <2>1 DEF Happens
    <2>4. TranscriptionTypeOK'
        BY <2>1, <2>2, <2>3 DEF TranscriptionTypeOK, modelVars, rowVars
    <2>5. LoadersFollow' /\ ReloadIsDue'
        BY <2>1, <2>2 DEF LoadersFollow, ReloadIsDue, KeyOf, modelVars
    <2> QED
        BY <2>4, <2>5
<1>5. CASE DeleteModel \/ DownloadModel \/ AssistDownloadsModel
    <2>1. /\ Happens /\ modelFile' \in BOOLEAN /\ passed' \in {passed, {}} /\ jobs' \in {jobs, Append(jobs, SweepJob)}
          /\ UNCHANGED <<language, modelVars, job, rowVars>>
        BY <1>5 DEF DeleteModel, DownloadModel, AssistDownloadsModel
    <2>2. jobs' \in Seq(Jobs) /\ ToSet(jobs) \subseteq ToSet(jobs')
        BY <1>1, <2>1, JobsGoOn
    <2>3. events' \in 0..MaxEvents
        BY <1>1, <2>1 DEF Happens
    <2>4. TranscriptionTypeOK'
        BY <2>1, <2>2, <2>3 DEF TranscriptionTypeOK, modelVars, rowVars
    <2>5. LoadersFollow' /\ ReloadIsDue'
        BY <2>1, <2>2 DEF LoadersFollow, ReloadIsDue, KeyOf, modelVars
    <2> QED
        BY <2>4, <2>5
<1>6. CASE Relaunch
    <2>1. /\ Happens /\ cached' = NoModel /\ idleLong' = FALSE /\ loadLock' = "none"
          /\ user' = [u \in Users |-> "idle"] /\ held' = [u \in Users |-> NoModel]
          /\ jobs' = <<SweepJob>> /\ job' = 0 /\ due' = {} /\ passed' = {}
          /\ meeting' = [m \in Recordings |-> IF meeting[m] = "recording" THEN "over" ELSE meeting[m]]
          /\ UNCHANGED <<language, modelFile, asked, transcript>>
        BY <1>6 DEF Relaunch
    <2>2. <<SweepJob>> \in Seq(Jobs)
        BY <1>1, JobsGoOn
    <2>3. events' \in 0..MaxEvents
        BY <1>1, <2>1 DEF Happens
    <2>4. meeting' \in [Recordings -> {"recording", "completed", "over"}]
        BY <2>1 DEF TranscriptionTypeOK
    <2>5. TranscriptionTypeOK'
        BY <2>1, <2>2, <2>3, <2>4 DEF TranscriptionTypeOK
    <2>6. "worker" \in Users /\ \A u \in Users : user'[u] = "idle" /\ held'[u] = NoModel
        BY <2>1 DEF Users
    <2>7. LoadersFollow' /\ ReloadIsDue'
        BY <2>6 DEF LoadersFollow, ReloadIsDue
    <2> QED
        BY <2>5, <2>7
<1> QED
    BY <1>2, <1>3, <1>4, <1>5, <1>6

\* Every step of the worker, the realtime user and the settings keeps the invariant.
LEMMA ModelsStep == ModelsInv /\ [TranscriptionNext]_transcriptionVars => ModelsInv'
<1> SUFFICES ASSUME ModelsInv, [TranscriptionNext]_transcriptionVars PROVE ModelsInv'
    OBVIOUS
<1>1. CASE UNCHANGED transcriptionVars
    BY <1>1 DEF transcriptionVars, modelVars, rowVars, ModelsInv, TranscriptionTypeOK, LoadersFollow, ReloadIsDue, KeyOf
<1>2. CASE TranscriptionNext
    <2>1. "worker" \in Users /\ "realtime" \in Users
        BY DEF Users
    <2> QED
        BY <1>2, <2>1, SharedModelStep, WorkerMoves, AroundTheModel DEF TranscriptionNext, WorkerStep, RealtimeStep
<1> QED
    BY <1>1, <1>2

\* A load that completes finds no instance of its key.
LEMMA NeverLoadedTwice ==
    ModelsInv => [\A u \in Users : user[u] = "loading" /\ user'[u] = "using" => cached # KeyOf(u)]_transcriptionVars
BY DEF ModelsInv, LoadersFollow

\* The worker lets go of a model of another language, and no model is loaded twice.
THEOREM ModelsAreOfTheSettings == TranscriptionSpec => ModelsFollowSettings
<1>1. ModelsInv => WarmModelFollowsLanguage
    BY DEF ModelsInv, ReloadIsDue, WarmModelFollowsLanguage
<1> QED
    BY <1>1, ModelsStart, ModelsStep, NeverLoadedTwice, PTL DEF TranscriptionSpec, ModelsFollowSettings, LoadedOnce
-----------------------------------------------------------------------------
(* The types of the services: what the invariants above do not bound.      *)

\* Types and places of the capture's sources, and the numbers of its streams.
CapturePlaces ==
    /\ stage \in StartStages \cup StopStages \cup {"live", "failed", "over"}
    /\ mic \in {"off", "on", "told"}
    /\ system \in {"off", "tap", "sck"}
    /\ watcher \in {"none", "sleeping", "building", "swapping", "gone"}
    /\ kept \subseteq {"mic", "system"} /\ fed \subseteq kept
    /\ mp4 \in {"none", "open", "broken", "silent", "muxed"}
    /\ wav \subseteq {"mic", "system", "written"}

CaptureFlags == {watcherStop, dead, delivers, stalled, windowThere, otherWindow, liveTap} \subseteq BOOLEAN

CaptureNumbers ==
    /\ streams \subseteq 0..MaxGenerations
    /\ accepts \in 0..MaxGenerations /\ lastFrame \in -1..MaxGenerations
    /\ watcher = "swapping" => accepts + 1 \in 0..MaxGenerations
    /\ faults \in 0..MaxFaults

CaptureTypes == CapturePlaces /\ CaptureFlags /\ CaptureNumbers

\* The sources and the files keep their types.
LEMMA CapturePlacesStep ==
    ASSUME CapturePlaces, CaptureNext
    PROVE  CapturePlaces'
<1> USE DEF healthVars, windowVars, bufferVars, fileVars, watchVars, CapturePlaces
<1>1. CASE StartStep
    <2>1. CASE OpenWriter \/ EnterSession
        BY <2>1 DEF OpenWriter, EnterSession, StartStages
    <2>2. CASE SpawnMicCapture
        BY <2>2 DEF SpawnMicCapture, StartStages
    <2>3. CASE StartSystemAudio \/ StartVideo
        BY <2>3 DEF StartSystemAudio, StartVideo, DropGuards, StartStages
    <2> QED
        BY <1>1, <2>1, <2>2, <2>3 DEF StartStep
<1>2. CASE StopStep
    <2>1. CASE JoinWatcher \/ StopVideoStream \/ StopSystemAudio \/ TellMic
        BY <2>1 DEF JoinWatcher, StopVideoStream, StopSystemAudio, TellMic, StopStages
    <2>2. CASE FinishVideo \/ MuxAudioIntoVideo
        BY <2>2 DEF FinishVideo, MuxAudioIntoVideo, StopStages
    <2>3. CASE WriteAudio
        BY <2>3 DEF WriteAudio, StopStages
    <2> QED
        BY <1>2, <2>1, <2>2, <2>3 DEF StopStep
<1>3. CASE TellWatcher \/ WatcherStep \/ MicEnds
    <2>1. CASE TellWatcher \/ MicEnds
        BY <2>1 DEF TellWatcher, MicEnds, StopStages
    <2>2. CASE WatchTick \/ BuildWindowStream
        BY <2>2 DEF WatchTick, BuildWindowStream
    <2>3. CASE SwapStream \/ WatcherExits
        BY <2>3 DEF SwapStream, WatcherExits
    <2> QED
        BY <1>3, <2>1, <2>2, <2>3 DEF WatcherStep
<1>4. CASE MicChunk \/ SckChunk \/ ProcessTapChunk
    BY <1>4 DEF MicChunk, SckChunk, ProcessTapChunk
<1>5. ASSUME NEW g \in streams, Frame(g) PROVE CapturePlaces'
    BY <1>5 DEF Frame
<1>6. CASE StreamBreaks \/ FrameStallPasses \/ WindowsChange
    BY <1>6 DEF StreamBreaks, FrameStallPasses, WindowsChange
<1> QED
    BY <1>1, <1>2, <1>3, <1>4, <1>5, <1>6 DEF CaptureNext

\* The flags of the streams and of the windows stay flags.
LEMMA CaptureFlagsStep ==
    ASSUME CaptureFlags, CaptureNext
    PROVE  CaptureFlags'
<1> USE DEF healthVars, windowVars, bufferVars, fileVars, watchVars, CaptureFlags
<1>1. CASE StartStep
    BY <1>1 DEF StartStep, OpenWriter, SpawnMicCapture, StartSystemAudio, StartVideo, EnterSession
<1>2. CASE StopStep
    BY <1>2 DEF StopStep, JoinWatcher, StopVideoStream, StopSystemAudio, TellMic, FinishVideo,
       WriteAudio, MuxAudioIntoVideo
<1>3. CASE TellWatcher \/ WatcherStep \/ MicEnds
    BY <1>3 DEF TellWatcher, WatcherStep, WatchTick, BuildWindowStream, SwapStream, WatcherExits, MicEnds, Capturable
<1>4. CASE MicChunk \/ SckChunk \/ ProcessTapChunk
    BY <1>4 DEF MicChunk, SckChunk, ProcessTapChunk
<1>5. ASSUME NEW g \in streams, Frame(g) PROVE CaptureFlags'
    BY <1>5 DEF Frame
<1>6. CASE StreamBreaks \/ FrameStallPasses \/ WindowsChange
    BY <1>6 DEF StreamBreaks, FrameStallPasses, WindowsChange
<1> QED
    BY <1>1, <1>2, <1>3, <1>4, <1>5, <1>6 DEF CaptureNext

\* No stream is of a generation beyond the last, and no fault beyond the bound.
LEMMA CaptureNumbersStep ==
    ASSUME CaptureNumbers, CaptureNext
    PROVE  CaptureNumbers'
<1>b. MaxGenerations \in Nat /\ MaxFaults \in Nat
    BY CaptureAssumption DEF CaptureAssumption
<1>f. Fault => faults' \in 0..MaxFaults
    BY <1>b DEF Fault, CaptureNumbers
<1> USE <1>b, <1>f DEF healthVars, windowVars, bufferVars, fileVars, watchVars, CaptureNumbers
<1>1. CASE StartStep
    <2>1. CASE OpenWriter \/ SpawnMicCapture \/ StartSystemAudio
        BY <2>1 DEF OpenWriter, SpawnMicCapture, StartSystemAudio
    <2>2. CASE StartVideo
        <3>0. 0 \in 0..MaxGenerations /\ (streams' = {0} \/ streams' = streams)
            BY <2>2 DEF StartVideo
        <3>1. streams' \subseteq 0..MaxGenerations
            BY <3>0
        <3>2. faults' \in 0..MaxFaults
            BY <2>2 DEF StartVideo
        <3>3. UNCHANGED <<accepts, lastFrame, watcher>>
            BY <2>2 DEF StartVideo
        <3> QED
            BY <3>1, <3>2, <3>3
    <2>3. CASE EnterSession
        BY <2>3 DEF EnterSession
    <2> QED
        BY <1>1, <2>1, <2>2, <2>3 DEF StartStep
<1>2. CASE StopStep
    BY <1>2 DEF StopStep, JoinWatcher, StopVideoStream, StopSystemAudio, TellMic, FinishVideo,
       WriteAudio, MuxAudioIntoVideo
<1>3. CASE TellWatcher \/ WatcherStep \/ MicEnds
    <2>1. CASE WatchTick
        BY <2>1 DEF WatchTick
    <2>2. CASE BuildWindowStream
        <3>1. accepts + 1 \in 0..MaxGenerations
            BY <2>2 DEF BuildWindowStream
        <3>2. streams' \subseteq 0..MaxGenerations
            BY <2>2, <3>1 DEF BuildWindowStream
        <3>3. faults' \in 0..MaxFaults
            BY <2>2 DEF BuildWindowStream
        <3>4. UNCHANGED <<accepts, lastFrame>>
            BY <2>2 DEF BuildWindowStream
        <3> QED
            BY <3>1, <3>2, <3>3, <3>4
    <2>3. CASE SwapStream
        BY <2>3 DEF SwapStream
    <2>4. CASE WatcherExits \/ TellWatcher \/ MicEnds
        BY <2>4 DEF WatcherExits, TellWatcher, MicEnds
    <2> QED
        BY <1>3, <2>1, <2>2, <2>3, <2>4 DEF WatcherStep
<1>4. CASE MicChunk \/ SckChunk \/ ProcessTapChunk
    BY <1>4 DEF MicChunk, SckChunk, ProcessTapChunk
<1>5. ASSUME NEW g \in streams, Frame(g) PROVE CaptureNumbers'
    BY <1>5 DEF Frame, AppendFrame
<1>6. CASE StreamBreaks \/ FrameStallPasses \/ WindowsChange
    BY <1>6 DEF StreamBreaks, FrameStallPasses, WindowsChange
<1> QED
    BY <1>1, <1>2, <1>3, <1>4, <1>5, <1>6 DEF CaptureNext

\* The types of the capture's variables.
LEMMA CaptureTyped ==
    /\ CaptureInit => CaptureTypes
    /\ CaptureTypes /\ [CaptureNext]_captureVars => CaptureTypes'
    /\ CaptureTypes => CaptureTypeOK
<1>1. CaptureInit => CaptureTypes
    <2>1. CaptureInit => CapturePlaces
        BY DEF CaptureInit, CapturePlaces, StartStages
    <2>2. CaptureInit => CaptureFlags
        BY DEF CaptureInit, CaptureFlags
    <2>3. CaptureInit => CaptureNumbers
        BY CaptureAssumption DEF CaptureInit, CaptureNumbers, CaptureAssumption
    <2> QED
        BY <2>1, <2>2, <2>3 DEF CaptureTypes
<1>2. CaptureTypes /\ CaptureNext => CaptureTypes'
    BY CapturePlacesStep, CaptureFlagsStep, CaptureNumbersStep DEF CaptureTypes
<1>3. CaptureTypes /\ UNCHANGED captureVars => CaptureTypes'
    BY DEF CaptureTypes, CapturePlaces, CaptureFlags, CaptureNumbers, captureVars,
       healthVars, windowVars, bufferVars, fileVars, watchVars
<1>4. CaptureTypes => CaptureTypeOK
    <2>1. CaptureFlags => \A b \in {watcherStop, dead, delivers, stalled, windowThere, otherWindow, liveTap} : b \in BOOLEAN
        BY DEF CaptureFlags
    <2> QED
        BY <2>1 DEF CaptureTypes, CapturePlaces, CaptureNumbers, CaptureTypeOK
<1> QED
    BY <1>1, <1>2, <1>3, <1>4

\* The places of the threads and of the stop call.
WindowsPlaces ==
    /\ stop \in {"uncalled", "told", "joined", "mixed", "handed", "ok", "error"}
    /\ running \in BOOLEAN
    /\ audioThread \in [Sources -> {"capturing", "ended"}]
    /\ sampled \subseteq Sources
    /\ videoThread \in {"setup", "capturing", "blind", "draining", "waiting", "ended"}
    /\ window \in {"monitor", "shown", "gone"}
    /\ audioTx \in {"open", "sent", "closed"}
    /\ file \in {"none", "open", "silent", "whole", "broken"}
    /\ wavs \subseteq Sources \cup {"written"}

WindowsNumbers ==
    /\ forwardedFrames \in 0..MaxFrames /\ writtenFrames \in 0..forwardedFrames
    /\ errors \in 0..MaxErrors

\* The types of the variables of the Windows capture.
LEMMA WindowsTyped ==
    /\ WindowsInit => WindowsTypeOK
    /\ WindowsTypeOK /\ [WindowsNext]_windowsVars => WindowsTypeOK'
<1>b. MaxFrames \in Nat /\ MaxErrors \in Nat
    BY WindowsAssumption DEF WindowsAssumption
<1>d. WindowsTypeOK <=> WindowsPlaces /\ WindowsNumbers
    BY DEF WindowsTypeOK, WindowsPlaces, WindowsNumbers
<1>e. WindowsTypeOK' <=> WindowsPlaces' /\ WindowsNumbers'
    BY DEF WindowsTypeOK, WindowsPlaces, WindowsNumbers
<1>1. WindowsInit => WindowsTypeOK
    <2>1. WindowsInit => WindowsPlaces
        BY DEF WindowsInit, WindowsPlaces, CaptureTargets, Sources
    <2>2. WindowsInit => WindowsNumbers
        BY <1>b DEF WindowsInit, WindowsNumbers
    <2> QED
        BY <2>1, <2>2, <1>d
<1>2. ASSUME WindowsPlaces, WindowsNext PROVE WindowsPlaces'
    <2> USE <1>2 DEF videoVars, audioVars, WindowsPlaces
    <2>1. ASSUME NEW s \in Sources, AudioPacket(s) \/ AudioThreadEnds(s) PROVE WindowsPlaces'
        BY <2>1 DEF AudioPacket, AudioThreadEnds
    <2>2. CASE VideoStep
        BY <2>2 DEF VideoStep, SetUpVideo, CreateSinkWriter, StartCaptureForItem, WriteFrame, Retarget, StopCapture,
           AwaitMix, FinalizeFile, WriteAudioSamples
    <2>3. CASE FrameArrived \/ WindowGone
        BY <2>3 DEF FrameArrived, WindowGone
    <2>4. CASE TellThreads \/ StopCall
        <3>1. CASE TellThreads
            BY <3>1 DEF TellThreads
        <3>2. CASE JoinAudio \/ MixAudio
            BY <3>2 DEF JoinAudio, MixAudio
        <3>3. CASE HandOverMix \/ JoinVideo
            BY <3>3 DEF HandOverMix, JoinVideo
        <3> QED
            BY <2>4, <3>1, <3>2, <3>3 DEF StopCall
    <2> QED
        BY <2>1, <2>2, <2>3, <2>4 DEF WindowsNext
<1>3. ASSUME WindowsNumbers, WindowsNext PROVE WindowsNumbers'
    <2>f. CallFails => errors' \in 0..MaxErrors
        BY <1>b, <1>3 DEF CallFails, WindowsNumbers
    <2> USE <1>b, <1>3, <2>f DEF videoVars, audioVars, WindowsNumbers
    <2>1. ASSUME NEW s \in Sources, AudioPacket(s) \/ AudioThreadEnds(s) PROVE WindowsNumbers'
        BY <2>1 DEF AudioPacket, AudioThreadEnds
    <2>2. CASE SetUpVideo \/ Retarget \/ StopCapture \/ AwaitMix \/ FinalizeFile
        BY <2>2 DEF SetUpVideo, Retarget, StopCapture, AwaitMix, FinalizeFile
    <2>3. CASE WriteFrame
        BY <2>3 DEF WriteFrame
    <2>4. CASE FrameArrived
        BY <2>4 DEF FrameArrived
    <2>5. CASE WindowGone
        BY <2>5 DEF WindowGone
    <2>6. CASE TellThreads \/ StopCall
        BY <2>6 DEF TellThreads, StopCall, JoinAudio, MixAudio, HandOverMix, JoinVideo
    <2> QED
        BY <2>1, <2>2, <2>3, <2>4, <2>5, <2>6 DEF WindowsNext, VideoStep
<1>4. WindowsTypeOK /\ UNCHANGED windowsVars => WindowsTypeOK'
    BY DEF WindowsTypeOK, windowsVars, videoVars, audioVars
<1> QED
    BY <1>1, <1>2, <1>3, <1>4, <1>d, <1>e

\* The types of the detection's variables are within its invariant.
LEMMA WasapiTyped == WasapiInv => WasapiTypeOK
<1> SUFFICES ASSUME WasapiTypes, Forwarding PROVE WasapiTypeOK
    BY DEF WasapiInv
<1>1. onCall \subseteq CallApps
    BY DEF WasapiTypes, Forwarding
<1>2. forwarded.apps \subseteq CallApps
    <2>1. CASE forwarded = NoEvent
        BY <2>1 DEF NoEvent
    <2>2. CASE forwarded = MeetingEventOf(learned, activeApps)
        <3>1. MeetingEventOf(learned, activeApps).apps \in {{}, activeApps}
            BY DEF MeetingEventOf, NoEvent
        <3> QED
            BY <2>2, <3>1 DEF WasapiTypes
    <2> QED
        BY <2>1, <2>2 DEF Forwarding
<1>3. Len(callbacks) <= CallbackCapacity
    BY DEF WasapiTypes
<1>4. outOfTurn \in BOOLEAN
    BY DEF Forwarding
<1> QED
    BY <1>1, <1>2, <1>3, <1>4 DEF WasapiTypeOK, WasapiTypes, CaptureStates

\* Between segments nothing is counted, in one there is no ring; silence is within the stream.
SegmenterBounded ==
    /\ Len(frames) <= MaxStream /\ silence <= Len(frames)
    /\ ~inSpeech => start = 0 /\ flags = <<>> /\ voiced = 0
    /\ inSpeech => preRoll = <<>> /\ run = 0

\* The types of the segmenter's variables.
LEMMA SegmenterTyped ==
    /\ SegmenterInit => SegmenterBounded
    /\ SegmenterInv /\ SegmenterBounded /\ [SegmenterNext]_segmenterVars => SegmenterBounded'
    /\ SegmenterInv /\ SegmenterBounded => SegmenterTypeOK
<1>b. MaxStream \in Nat
    BY SegmenterAssumption DEF SegmenterAssumption
<1>1. SegmenterInit => SegmenterBounded
    BY <1>b DEF SegmenterInit, SegmenterBounded
<1>2. SegmenterInv /\ SegmenterBounded /\ [SegmenterNext]_segmenterVars => SegmenterBounded'
    <2> SUFFICES ASSUME SegmenterTypes, SegmenterBounded, [SegmenterNext]_segmenterVars
                 PROVE  SegmenterBounded'
        BY DEF SegmenterInv
    <2>1. /\ Len(frames) \in Nat /\ silence \in Nat
          /\ \A v \in BOOLEAN : Len(Append(frames, v)) = Len(frames) + 1
        BY QueueOps DEF SegmenterTypes
    <2>2. ASSUME NEW v \in BOOLEAN, ConsumeFrame(v) PROVE SegmenterBounded'
        <3>1. Len(frames') = Len(frames) + 1 /\ Len(frames') <= MaxStream
            BY <1>b, <2>1, <2>2 DEF ConsumeFrame
        <3>2. CASE IdleFrame(v)
            <4>1. silence' \in {0, silence}
                BY <3>2 DEF IdleFrame
            <4>2. silence' <= Len(frames')
                BY <2>1, <3>1, <4>1 DEF SegmenterBounded
            <4>3. \/ inSpeech' = TRUE /\ preRoll' = <<>> /\ run' = 0
                  \/ inSpeech' = inSpeech /\ start' = start /\ flags' = flags /\ voiced' = voiced
                BY <3>2 DEF IdleFrame
            <4>4. ~inSpeech
                BY <3>2 DEF IdleFrame
            <4>5. (~inSpeech' => start' = 0 /\ flags' = <<>> /\ voiced' = 0) /\ (inSpeech' => preRoll' = <<>> /\ run' = 0)
                BY <4>3, <4>4 DEF SegmenterBounded
            <4> QED
                BY <3>1, <4>2, <4>5 DEF SegmenterBounded
        <3>3. CASE ActiveFrame(v)
            <4>1. silence' \in {0, silence + 1} /\ inSpeech
                BY <3>3 DEF ActiveFrame, Idle, CarryOver
            <4>2. silence' <= Len(frames')
                BY <2>1, <3>1, <4>1 DEF SegmenterBounded
            <4>3. \/ Idle
                  \/ inSpeech' = inSpeech /\ preRoll' = preRoll /\ run' = run
                BY <3>3 DEF ActiveFrame, CarryOver
            <4>4. (~inSpeech' => start' = 0 /\ flags' = <<>> /\ voiced' = 0) /\ (inSpeech' => preRoll' = <<>> /\ run' = 0)
                BY <4>1, <4>3 DEF SegmenterBounded, Idle
            <4> QED
                BY <3>1, <4>2, <4>4 DEF SegmenterBounded
        <3> QED
            BY <2>2, <3>2, <3>3 DEF ConsumeFrame
    <2>3. CASE Flush
        BY <2>1, <2>3 DEF Flush, Idle, SegmenterBounded
    <2>4. CASE ResetStream
        BY <1>b, <2>4 DEF ResetStream, Idle, SegmenterBounded
    <2>5. CASE UNCHANGED segmenterVars
        BY <2>5 DEF segmenterVars, SegmenterBounded
    <2> QED
        BY <2>2, <2>3, <2>4, <2>5 DEF SegmenterNext
<1>3. SegmenterInv /\ SegmenterBounded => SegmenterTypeOK
    <2> SUFFICES ASSUME SegmenterInv, SegmenterBounded PROVE SegmenterTypeOK
        OBVIOUS
    <2>1. SegmenterTypes /\ RingFollows /\ SpeechFollows /\ SegmentsFollow
        BY DEF SegmenterInv
    <2>2. /\ frames \in Seq(BOOLEAN) /\ preRoll \in Seq(BOOLEAN) /\ flags \in Seq(BOOLEAN)
          /\ run \in Nat /\ start \in Nat /\ voiced \in Nat /\ silence \in Nat /\ inSpeech \in BOOLEAN
          /\ segments \in Seq(CutOff) /\ Len(frames) \in Nat /\ Len(flags) \in Nat
        BY <2>1, QueueOps DEF SegmenterTypes
    <2>3. /\ VoicedIn(flags) \in Nat /\ VoicedIn(flags) <= Len(flags)
        BY <2>2, VoicedCount
    <2>4. Len(flags) <= MaxSegmentFrames /\ start \in 0..MaxStream /\ voiced \in 0..MaxStream
        <3>1. CASE inSpeech
            BY <1>b, <2>1, <2>2, <2>3, <3>1, SegmenterBounds DEF SpeechFollows, SegmenterBounded
        <3>2. CASE ~inSpeech
            BY <1>b, <2>2, <3>2, SegmenterBounds DEF SegmenterBounded
        <3> QED
            BY <3>1, <3>2
    <2>5. Len(preRoll) <= PreRollFrames + 1 /\ run \in 0..OpenFrames
        <3>1. CASE inSpeech
            BY <2>2, <3>1, SegmenterBounds DEF SegmenterBounded
        <3>2. CASE ~inSpeech
            BY <2>1, <2>2, <3>2, SegmenterBounds DEF RingFollows
        <3> QED
            BY <3>1, <3>2
    <2>6. silence \in 0..MaxStream
        BY <1>b, <2>2 DEF SegmenterBounded
    <2>7. segments \in Seq([start : 0..MaxStream, flags : Seq(BOOLEAN), sent : BOOLEAN])
        <3>1. ASSUME NEW i \in 1..Len(segments)
              PROVE  segments[i] \in [start : 0..MaxStream, flags : Seq(BOOLEAN), sent : BOOLEAN]
            <4>1. segments[i] \in CutOff
                BY <2>2, QueueOps
            <4>2. segments[i].start \in Nat /\ segments[i].flags \in Seq(BOOLEAN) /\ Len(segments[i].flags) \in Nat
                BY <4>1, QueueOps DEF CutOff
            <4>3. segments[i].start + Len(segments[i].flags) <= Len(frames)
                BY <2>1 DEF SegmentsFollow, Faithful, Matches
            <4>4. segments[i].start \in 0..MaxStream
                BY <1>b, <2>2, <4>2, <4>3 DEF SegmenterBounded
            <4> QED
                BY <4>1, <4>4 DEF CutOff
        <3> QED
            BY <2>2, <3>1, QueueOf
    <2>8. {start, voiced, silence} \subseteq 0..MaxStream
        BY <2>4, <2>6
    <2> QED
        BY <2>2, <2>4, <2>5, <2>7, <2>8 DEF SegmenterBounded, SegmenterTypeOK
<1> QED
    BY <1>1, <1>2, <1>3

\* The device does not go on for ever, and nothing is expected of its future.
TapBounded == deviceTime \in 0..MaxFrame /\ nextSample \in -1..deviceTime /\ untimed \in BOOLEAN

\* The types of the tap's variables.
LEMMA TapTyped ==
    /\ TapInit => TapBounded
    /\ TapBounded /\ TapInv /\ [TapNext]_tapVars => TapBounded'
    /\ TapBounded /\ TapInv => TapTypeOK
<1>b. MaxFrame \in Nat
    BY TapAssumption DEF TapAssumption
<1>1. TapInit => TapBounded
    <2>1. TapInit => deviceTime \in 0..MaxFrame /\ nextSample \in -1..deviceTime
        BY <1>b DEF TapInit
    <2>2. TapInit => untimed \in BOOLEAN
        BY DEF TapInit
    <2> QED
        BY <2>1, <2>2 DEF TapBounded
<1>2. ASSUME TapBounded, TapInv, TapNext PROVE TapBounded'
    <2>1. CASE CreateTap \/ CreateAggregate \/ CreateIOProc \/ StartDevice \/ DropTap
        BY <1>2, <2>1 DEF CreateTap, CreateAggregate, CreateIOProc, StartDevice, DropTap, clockVars, TapBounded
    <2>2. CASE FramePasses
        BY <1>b, <1>2, <2>2 DEF FramePasses, TapBounded
    <2>3. CASE Chunk
        <3>1. PICK n \in 1..MaxChunk, timed \in BOOLEAN :
                  /\ nextSample' = IF timed THEN deviceTime ELSE nextSample
                  /\ untimed' = (untimed \/ ~timed \/ GapBefore(deviceTime - n, timed) > MaxGapFrames)
            BY <2>3 DEF Chunk
        <3>2. untimed' \in BOOLEAN
            BY <3>1
        <3>3. deviceTime' = deviceTime
            BY <2>3 DEF Chunk
        <3>4. nextSample' \in -1..deviceTime
            BY <1>b, <1>2, <3>1 DEF TapBounded
        <3> QED
            BY <1>2, <3>2, <3>3, <3>4 DEF TapBounded
    <2> QED
        BY <1>2, <2>1, <2>2, <2>3 DEF TapNext
<1>3. TapBounded /\ UNCHANGED tapVars => TapBounded'
    BY DEF TapBounded, tapVars
<1>4. ASSUME TapBounded, TapInv PROVE TapTypeOK
    <2>1. /\ objects \in {<<>>, <<"tap">>, <<"tap", "aggregate">>, <<"tap", "aggregate", "io_proc">>}
          /\ tapState \in {"off", "starting", "running", "failed", "dropped"}
        BY <1>4 DEF TapInv, TapFollows
    <2> QED
        BY <1>4, <2>1 DEF TapBounded, TapInv, TapClock, TapTypeOK
<1> QED
    BY <1>1, <1>2, <1>3, <1>4

\* The bounds of a session with the agent.
AgentBounded ==
  /\ agentTurn <= MaxAgentTurns /\ Len(output) <= EventBuffer /\ outputs \in 0 .. MaxOutput
  /\ result.kind \in {"none", "error", "silence", "answer"}

\* The types of a session's variables.
LEMMA AgentTyped ==
  /\ AgentInit => AgentBounded
  /\ AgentInv /\ AgentBounded /\ [AgentNext]_agentVars => AgentBounded'
  /\ AgentInv /\ AgentBounded => AgentTypeOK
<1>b. EventBuffer \in Nat /\ MaxAgentTurns \in Nat /\ MaxOutput \in Nat
    BY EventsHaveRoom, AgentIsBounded
<1>n. NoResult.kind = "none" /\ 0 \in 0 .. MaxOutput /\ Len(<<>>) = 0
    BY <1>b DEF NoResult
<1>1. AgentInit => AgentBounded
    BY <1>b, <1>n DEF AgentInit, AgentBounded
<1>2. ASSUME AgentTypes, AgentBounded, AgentNext PROVE AgentBounded'
    <2>t. /\ Len(output) \in Nat /\ agentTurn \in Nat
          /\ \A e \in AgentChunks : Len(Append(output, e)) = Len(output) + 1
          /\ output # <<>> => Len(Tail(output)) = Len(output) - 1
        BY <1>2, QueueOps DEF AgentTypes
    <2>1. CASE BeginSession \/ PromptEnds
        BY <1>2, <2>1 DEF BeginSession, PromptEnds, AgentBounded
    <2>2. CASE SendInput
        <3>1. agentTurn' <= MaxAgentTurns
            BY <1>b, <2>2, <2>t DEF SendInput
        <3> QED
            BY <1>2, <1>n, <2>2, <3>1 DEF SendInput, AgentBounded
    <2>3. CASE AgentSays
        <3>1. PICK kind \in {"text", "thought"} : output' = Append(output, [turn |-> agentTurn, kind |-> kind])
            BY <2>3 DEF AgentSays
        <3>2. [turn |-> agentTurn, kind |-> kind] \in AgentChunks
            BY <2>t DEF AgentChunks
        <3>3. Len(output') = Len(output) + 1
            BY <2>t, <3>1, <3>2
        <3>4. Len(output') <= EventBuffer /\ outputs' \in 0 .. MaxOutput
            BY <1>b, <1>2, <2>3, <2>t, <3>3 DEF AgentSays, AgentBounded
        <3> QED
            BY <1>2, <2>3, <3>4 DEF AgentSays, AgentBounded
    <2>4. CASE CollectEvent
        <3>1. Len(output') <= EventBuffer
            BY <1>b, <1>2, <2>4, <2>t DEF CollectEvent, AgentBounded
        <3> QED
            BY <1>2, <2>4, <3>1 DEF CollectEvent, AgentBounded
    <2>5. CASE FinishTurn
        <3>1. result'.kind \in {"error", "silence", "answer"}
            BY <2>5 DEF FinishTurn, Outcome
        <3>2. output' = <<>>
            BY <2>5 DEF FinishTurn
        <3> QED
            BY <1>b, <1>n, <1>2, <2>5, <3>1, <3>2 DEF FinishTurn, AgentBounded
    <2>6. CASE DropSession
        BY <1>b, <1>n, <2>6 DEF DropSession, AgentBounded
    <2> QED
        BY <1>2, <2>1, <2>2, <2>3, <2>4, <2>5, <2>6 DEF AgentNext
<1>3. AgentBounded /\ UNCHANGED agentVars => AgentBounded'
    BY DEF AgentBounded, agentVars
<1>4. ASSUME AgentInv, AgentBounded PROVE AgentTypeOK
    <2>1. AgentTypes /\ InstructionsFollow
        BY <1>4 DEF AgentInv
    <2>2. agentTurn \in 0 .. MaxAgentTurns
        BY <1>b, <1>4, <2>1 DEF AgentTypes, AgentBounded
    <2>3. instructions \subseteq 1 .. MaxAgentTurns
        <3>1. PICK n \in 0 .. agentTurn : instructions = 1 .. n
            BY <2>1 DEF InstructionsFollow
        <3> QED
            BY <1>b, <2>2, <3>1
    <2> QED
        BY <1>4, <2>1, <2>2, <2>3 DEF AgentTypes, AgentBounded, AgentTypeOK
<1> QED
    BY <1>1, <1>2, <1>3, <1>4 DEF AgentInv

\* The shell's switches, and what is counted in it.
ShellBounded ==
    /\ {switch, assistModelFile, preparing, downloading, cancel, owed, unserved} \subseteq BOOLEAN
    /\ {cachedOptions, probe} \subseteq Agents \cup {NoAgent}
    /\ tasks \in Threads /\ commands \in 0 .. MaxCommands

\* The types of the shell's variables.
LEMMA ShellTyped ==
    /\ AssistShellInit => ShellBounded
    /\ ShellInv /\ ShellBounded /\ [AssistShellNext]_assistShellVars => ShellBounded'
    /\ ShellInv /\ ShellBounded => AssistShellTypeOK
<1>b. MaxTasks \in Nat /\ MaxCommands \in Nat
    BY TasksAreCounted
<1> USE DEF prefVars, downloadVars, stackVars, optionVars
<1>1. AssistShellInit => ShellBounded
    <2>1. 0 \in Threads /\ 0 \in 0 .. MaxCommands
        BY <1>b DEF Threads
    <2> QED
        BY <2>1 DEF AssistShellInit, ShellBounded
<1>2. ASSUME ShellTypes, ShellBounded, AssistShellNext PROVE ShellBounded'
    <2>1. Command => commands' \in 0 .. MaxCommands
        BY <1>b, <1>2 DEF Command, ShellBounded
    <2>2. tasks < MaxTasks => tasks + 1 \in Threads
        BY <1>b, <1>2 DEF ShellBounded, Threads
    <2>3. agent \in Agents \cup {NoAgent}
        BY <1>2 DEF ShellTypes
    <2>4. CASE SwitchOn \/ OnGate \/ SwitchOff \/ ChooseAgent \/ SetSessionOption \/ ProbeOptions \/ CacheOptions
        BY <1>2, <2>1, <2>3, <2>4 DEF SwitchOn, OnGate, SwitchOff, ChooseAgent, SetSessionOption, ProbeOptions,
           CacheOptions, ShellBounded
    <2>5. CASE ClearKnobs
        BY <1>2, <2>2, <2>5 DEF ClearKnobs, ShellBounded
    <2>6. ASSUME NEW t \in Threads, AssistShellThread(t) PROVE ShellBounded'
        <3>1. CASE Prepare(t) \/ Installed(t) \/ PrepareFails(t) \/ Teardown(t) \/ Refresh(t)
            BY <1>2, <3>1 DEF Prepare, Installed, PrepareFails, Teardown, Refresh, ShellBounded
        <3>2. CASE \/ WireNothing(t) \/ WireStart(t)
                   \/ EngineAgent(t) \/ EngineKnobs(t) \/ EngineFails(t) \/ WireStore(t)
            BY <1>2, <3>2 DEF WireNothing, WireStart, EngineAgent, EngineKnobs, EngineFails, WireStore, ShellBounded
        <3>3. CASE DownloadAlready(t) \/ StartDownload(t) \/ Stream(t) \/ DownloadEnds(t) \/ AfterDownload(t)
            BY <1>2, <3>3 DEF DownloadAlready, StartDownload, Stream, DownloadEnds, AfterDownload, ShellBounded
        <3>4. CASE SpawnDownload(t)
            BY <1>2, <2>2, <3>4 DEF SpawnDownload, ShellBounded
        <3> QED
            BY <2>6, <3>1, <3>2, <3>3, <3>4 DEF AssistShellThread
    <2> QED
        BY <1>2, <2>4, <2>5, <2>6 DEF AssistShellNext
<1>3. ShellBounded /\ UNCHANGED assistShellVars => ShellBounded'
    BY DEF ShellBounded, assistShellVars
<1>4. ShellInv /\ ShellBounded => AssistShellTypeOK
    BY DEF ShellInv, ShellTypes, ShellThreads, ShellBounded, AssistShellTypeOK
<1> QED
    BY <1>1, <1>2, <1>3, <1>4 DEF ShellInv

\* No more is stamped, pooled and filed than the bound says.
PanelBounded ==
  /\ entryClock \in 0 .. MaxEntries /\ pool \subseteq 1 .. MaxEntries
  /\ ToSet(journal.entries) \subseteq 1 .. MaxEntries

\* The types of the panel's variables.
LEMMA PanelTyped ==
  /\ AssistPanelInit => PanelBounded
  /\ PanelInv /\ PanelBounded /\ [AssistPanelNext]_assistPanelVars => PanelBounded'
  /\ PanelInv /\ PanelBounded => AssistPanelTypeOK
<1>b. MaxPanelMeetings \in Nat /\ MaxEntries \in Nat
    BY PanelAssumption
<1>n. ToSet(<<>>) = {}
    BY EmptySeq DEF ToSet
<1>1. AssistPanelInit => PanelBounded
    BY <1>b, <1>n DEF AssistPanelInit, NoJournal, PanelBounded
<1>2. ASSUME PanelInv, PanelBounded, AssistPanelNext PROVE PanelBounded'
    <2> USE DEF journalVars, panelVars
    <2>1. CASE PanelArmed \/ ShowSuggestion \/ WriteText \/ HidePanel \/ RememberHide \/ ReopenPanel
        BY <1>2, <2>1 DEF PanelArmed, ShowSuggestion, WriteText, HidePanel, RememberHide, ReopenPanel, PanelBounded
    <2>2. CASE OpenJournal \/ CloseJournal
        BY <1>2, <1>n, <2>2 DEF OpenJournal, CloseJournal, NoJournal, PanelBounded
    <2>3. CASE AskQuestion \/ Suggest
        <3>1. Stamp /\ UNCHANGED journal
            BY <2>3 DEF AskQuestion, Suggest
        <3>2. entryClock' \in 0 .. MaxEntries /\ entryClock + 1 \in 1 .. MaxEntries
            BY <1>b, <1>2, <3>1 DEF Stamp, PanelBounded
        <3>3. pool' \subseteq 1 .. MaxEntries
            BY <1>2, <3>1, <3>2 DEF Stamp, PanelBounded
        <3> QED
            BY <1>2, <3>1, <3>2, <3>3 DEF PanelBounded
    <2>4. ASSUME NEW e \in pool, Record(e) PROVE PanelBounded'
        <3>1. pool' \subseteq 1 .. MaxEntries /\ entryClock' \in 0 .. MaxEntries
            BY <1>2, <2>4 DEF Record, PanelBounded
        <3>2. CASE UNCHANGED journal
            BY <1>2, <3>1, <3>2 DEF PanelBounded
        <3>3. CASE journal.meeting # 0 /\ journal' = [journal EXCEPT !.entries = Ascending(Append(@, e))]
            <4>1. journal = [meeting |-> journal.meeting, entries |-> journal.entries] /\ e \in Nat
                BY <1>2 DEF PanelInv, PanelTypes
            <4>2. journal'.entries = Ascending(Append(journal.entries, e))
                BY <3>3, <4>1
            <4>3. journal.meeting \in PanelMeetings /\ json[journal.meeting] = journal.entries
                BY <1>2, <3>3 DEF PanelInv, PanelTypes, JournalFollows, PanelMeetings
            <4>4. journal.entries \in Seq(Nat) /\ Up(journal.entries) /\ e \notin ToSet(journal.entries)
                BY <1>2, <4>3 DEF PanelInv, PanelTypes, EntriesAreOnce
            <4>5. ToSet(journal'.entries) = ToSet(journal.entries) \cup {e}
                BY <4>1, <4>2, <4>4, FiledInOrder
            <4> QED
                BY <1>2, <3>1, <4>5 DEF PanelBounded
        <3> QED
            BY <2>4, <3>2, <3>3 DEF Record
    <2> QED
        BY <1>2, <2>1, <2>2, <2>3, <2>4 DEF AssistPanelNext
<1>3. PanelBounded /\ UNCHANGED assistPanelVars => PanelBounded'
    BY DEF PanelBounded, assistPanelVars, journalVars, panelVars
<1>4. ASSUME PanelInv, PanelBounded PROVE AssistPanelTypeOK
    <2>1. PanelTypes /\ HideTypes
        BY <1>4 DEF PanelInv
    <2>2. journal.entries \in Seq(1 .. MaxEntries)
        <3>1. journal.entries \in Seq(Nat) /\ DOMAIN journal.entries = 1 .. Len(journal.entries)
            BY <2>1, QueueOps DEF PanelTypes
        <3>2. \A i \in 1 .. Len(journal.entries) : journal.entries[i] \in ToSet(journal.entries)
            BY <3>1 DEF ToSet
        <3>3. \A i \in 1 .. Len(journal.entries) : journal.entries[i] \in 1 .. MaxEntries
            BY <1>4, <3>2 DEF PanelBounded
        <3> QED
            BY <3>1, <3>3, QueueOf
    <2>3. DOMAIN json = PanelMeetings /\ DOMAIN text = PanelMeetings
        BY <2>1 DEF PanelTypes
    <2>4. toOpen \in 0 .. MaxPanelMeetings
        BY <1>b, <2>1 DEF PanelTypes
    <2> QED
        BY <1>4, <2>1, <2>2, <2>3, <2>4 DEF PanelTypes, HideTypes, PanelBounded, AssistPanelTypeOK
<1> QED
    BY <1>1, <1>2, <1>3, <1>4

\* An input has a number from 1 on, also on its way; what waits is bounded.
InputBounded ==
  /\ inputs \in 0..MaxInputs /\ switches \in 0..MaxSwitches /\ clips \in 0..inputs
  /\ Len(raw) <= RawCapacity /\ drops \in Nat
  /\ click \in 0..MaxInputs /\ resolverJobs \in 0..QueueCapacity
  /\ \A i \in 1..Len(raw) : raw[i].id \in 1..MaxInputs
  /\ \A i \in 1..Len(buffer) : buffer[i][1] \in 1..MaxInputs
  /\ typed \subseteq 1..MaxInputs

\* The types of the input's variables.
LEMMA InputTyped ==
  /\ NormalizerInit => InputBounded
  /\ InputInv /\ InputBounded /\ [NormalizerNext]_normalizerVars => InputBounded'
  /\ InputInv /\ InputBounded => NormalizerTypeOK
<1>b. {RawCapacity, QueueCapacity, MaxInputs, MaxSwitches} \subseteq Nat
    BY InputsAreBounded DEF InputsAreBounded
<1>1. NormalizerInit => InputBounded
    <2> SUFFICES ASSUME NormalizerInit PROVE InputBounded
        OBVIOUS
    <2>1. /\ raw = <<>> /\ clips = 0 /\ buffer = <<>> /\ drops = 0 /\ click = 0 /\ resolverJobs = 0
          /\ inputs = 0 /\ switches = 0 /\ typed = {}
        BY DEF NormalizerInit
    <2>2. Len(raw) = 0 /\ Len(buffer) = 0
        BY <2>1
    <2> QED
        BY <1>b, <2>1, <2>2 DEF InputBounded
<1>2. ASSUME InputInv, InputBounded, NormalizerNext PROVE InputBounded'
    <2>t. /\ raw \in Seq(RawInputs) /\ buffer \in Seq(TypedChars) /\ Len(raw) \in Nat /\ Len(buffer) \in Nat
          /\ inputs \in Nat
        BY <1>2, QueueOps DEF InputInv, NormalizerTypes
    <2> USE DEF worldVars, typingVars
    <2>1. CASE RawInput
        <3>1. PICK kind \in {"char", "key", "click", "scroll"} :
                 raw' = IF Len(raw) < RawCapacity THEN Append(raw, [id |-> inputs + 1, kind |-> kind]) ELSE raw
            BY <2>1 DEF RawInput
        <3>2. inputs' \in 0..MaxInputs /\ inputs' = inputs + 1 /\ inputs + 1 \in 1..MaxInputs /\ clips' \in 0..inputs'
            BY <1>b, <1>2, <2>1, <2>t DEF RawInput, InputBounded
        <3>3. CASE Len(raw) < RawCapacity
            <4> DEFINE e == [id |-> inputs + 1, kind |-> kind]
            <4>1. e \in RawInputs /\ e.id \in 1..MaxInputs
                BY <2>t, <3>2 DEF RawInputs
            <4> HIDE DEF e
            <4>2. raw' = Append(raw, e)
                BY <3>1, <3>3 DEF e
            <4>3. Len(raw') = Len(raw) + 1 /\ raw'[Len(raw) + 1] = e /\ \A i \in 1..Len(raw) : raw'[i] = raw[i]
                BY <2>t, <4>1, <4>2, QueueOps
            <4>4. Len(raw') <= RawCapacity
                BY <1>b, <2>t, <3>3, <4>3
            <4>5. \A i \in 1..Len(raw') : raw'[i].id \in 1..MaxInputs
                BY SMTT(30), <1>2, <2>t, <4>1, <4>3 DEF InputBounded
            <4> QED
                BY <1>2, <2>1, <3>2, <4>4, <4>5 DEF RawInput, InputBounded
        <3>4. CASE ~(Len(raw) < RawCapacity)
            BY <1>2, <2>1, <3>1, <3>2, <3>4 DEF RawInput, InputBounded
        <3> QED
            BY <3>3, <3>4
    <2>2. CASE SwitchApp
        BY SMTT(30), <1>b, <1>2, <2>2 DEF SwitchApp, InputBounded
    <2>3. CASE ClipboardPolled
        BY <1>b, <1>2, <2>3 DEF ClipboardPolled, InputBounded
    <2>4. ASSUME NEW kinds, TakeInput(kinds)
          PROVE  /\ Len(raw') <= RawCapacity /\ \A i \in 1..Len(raw') : raw'[i].id \in 1..MaxInputs
                 /\ Head(raw).id \in 1..MaxInputs
        <3>1. /\ Len(raw) >= 1 /\ Head(raw) = raw[1] /\ Len(raw') = Len(raw) - 1
              /\ \A i \in 1..Len(raw') : raw'[i] = raw[i + 1]
            BY <2>4, <2>t, QueueOps DEF TakeInput
        <3>2. Len(raw') <= RawCapacity
            BY <1>b, <1>2, <2>t, <3>1 DEF InputBounded
        <3>3. 1 \in 1..Len(raw) /\ \A i \in 1..Len(raw') : i + 1 \in 1..Len(raw)
            BY <2>t, <3>1
        <3> QED
            BY <1>2, <3>1, <3>2, <3>3 DEF InputBounded
    <2>5. ASSUME NEW prefix, NEW kind, NEW ids, NEW app, Lossy(prefix, kind, ids, app) PROVE drops' \in Nat
        BY <1>2, <2>5 DEF Lossy, InputBounded
    <2>6. ASSUME ResetBuffer PROVE \A i \in 1..Len(buffer') : buffer'[i][1] \in 1..MaxInputs
        BY <2>6 DEF ResetBuffer
    <2>7. CASE HandleExcluded
        BY <1>2, <2>4, <2>6, <2>7 DEF HandleExcluded, InputBounded
    <2>8. CASE HandleChar
        <3> DEFINE e == <<Head(raw).id, focus>>
        <3>1. /\ Len(raw') <= RawCapacity /\ \A i \in 1..Len(raw') : raw'[i].id \in 1..MaxInputs
              /\ Head(raw).id \in 1..MaxInputs
            BY <2>4, <2>8 DEF HandleChar
        <3>2. e \in TypedChars /\ e[1] = Head(raw).id
            BY <1>2, <3>1 DEF InputInv, NormalizerTypes, TypedChars
        <3> HIDE DEF e
        <3>3. buffer' = Append(buffer, e) /\ typed' = typed \cup {Head(raw).id}
            BY <2>8 DEF HandleChar, e
        <3>4. Len(buffer') = Len(buffer) + 1 /\ buffer'[Len(buffer) + 1] = e /\ \A i \in 1..Len(buffer) : buffer'[i] = buffer[i]
            BY <2>t, <3>2, <3>3, QueueOps
        <3>5. \A i \in 1..Len(buffer') : buffer'[i][1] \in 1..MaxInputs
            BY SMTT(30), <1>2, <2>t, <3>1, <3>2, <3>4 DEF InputBounded
        <3>6. typed' \subseteq 1..MaxInputs
            BY <1>2, <3>1, <3>3 DEF InputBounded
        <3> QED
            BY <1>2, <2>8, <3>1, <3>5, <3>6 DEF HandleChar, InputBounded
    <2>9. CASE HandleKey
        BY <1>2, <2>4, <2>5, <2>6, <2>9 DEF HandleKey, InputBounded
    <2>10. CASE HandleScroll
        BY <1>2, <2>4, <2>5, <2>10 DEF HandleScroll, InputBounded
    <2>11. CASE HandleClick
        <3>1. resolverJobs' \in 0..QueueCapacity
            BY <1>b, <1>2, <2>11 DEF HandleClick, InputBounded
        <3>2. click' \in 0..MaxInputs
            BY <1>b, <2>4, <2>11 DEF HandleClick
        <3> QED
            BY <1>2, <2>4, <2>6, <2>11, <3>1, <3>2 DEF HandleClick, InputBounded
    <2>12. CASE ClickResolved
        <3>1. 0 \in 0..MaxInputs /\ drops' \in Nat
            BY <1>b, <2>5, <2>12 DEF ClickResolved
        <3> QED
            BY <1>2, <2>12, <3>1 DEF ClickResolved, InputBounded
    <2>13. CASE ResolverLoads
        <3>1. resolverJobs' \in 0..QueueCapacity
            BY <1>b, <1>2, <2>13 DEF ResolverLoads, InputBounded
        <3> QED
            BY <1>2, <2>13, <3>1 DEF ResolverLoads, InputBounded
    <2>14. CASE ResolverStores
        BY <1>2, <2>14 DEF ResolverStores, InputBounded
    <2>15. CASE FocusTick
        BY <1>2, <2>6, <2>15 DEF FocusTick, InputBounded
    <2>16. CASE UpdateApp
        BY <1>2, <2>16 DEF UpdateApp, InputBounded
    <2>17. CASE TextTimeout
        BY <1>2, <2>6, <2>17 DEF TextTimeout, InputBounded
    <2>18. CASE ReportDrops
        BY <1>2, <2>18 DEF ReportDrops, InputBounded
    <2>19. CASE HandleClipboard
        <3>1. drops' \in Nat
            BY <1>2, <2>5, <2>19 DEF HandleClipboard, InputBounded
        <3>2. clips' \in 0..inputs'
            BY <1>2, <2>t, <2>19 DEF HandleClipboard, InputBounded
        <3> QED
            BY <1>2, <2>19, <3>1, <3>2 DEF HandleClipboard, InputBounded
    <2>20. CASE StopNormalizer
        BY <1>2, <2>6, <2>20 DEF StopNormalizer, InputBounded
    <2> QED
        BY <1>2, <2>1, <2>2, <2>3, <2>7, <2>8, <2>9, <2>10, <2>11, <2>12, <2>13, <2>14, <2>15, <2>16, <2>17,
           <2>18, <2>19, <2>20 DEF NormalizerNext
<1>3. InputBounded /\ UNCHANGED normalizerVars => InputBounded'
    BY DEF InputBounded, normalizerVars
<1>4. ASSUME InputInv, InputBounded PROVE NormalizerTypeOK
    <2>1. NormalizerTypes
        BY <1>4 DEF InputInv
    <2>2. buffer \in Seq(TypedChars) /\ DOMAIN buffer = 1..Len(buffer)
        BY <2>1, QueueOps DEF NormalizerTypes
    <2>3. \A i \in DOMAIN buffer : buffer[i] \in (1 .. MaxInputs) \X Snapshots
        <3>1. ASSUME NEW i \in 1..Len(buffer) PROVE buffer[i] \in (1 .. MaxInputs) \X Snapshots
            <4>1. buffer[i] \in Nat \X Snapshots
                BY <2>2, QueueOps DEF TypedChars
            <4>2. buffer[i][1] \in 1..MaxInputs
                BY <1>4 DEF InputBounded
            <4> QED
                BY <4>1, <4>2
        <3> QED
            BY <2>2, <3>1
    <2>4. clips \in 0..MaxInputs
        BY <1>b, <1>4 DEF InputBounded
    <2> QED
        BY <1>4, <2>1, <2>3, <2>4 DEF InputBounded, NormalizerTypes, NormalizerTypeOK
<1> QED
    BY <1>1, <1>2, <1>3, <1>4

\* The types of the snapshots' variables.
LEMMA ScreensTyped ==
    /\ SnapshotInit => SnapshotTypeOK
    /\ SnapshotTypeOK /\ ScreensInv /\ [SnapshotNext]_snapshotVars => SnapshotTypeOK'
<1>b. {CacheEntries, MaxTree, HopCapacity, MaxTtls, MaxHops, MaxRedraws} \subseteq Nat
    BY SnapshotAssumption DEF SnapshotAssumption
<1>n. 0 \in Trees /\ NoTree \in Stored /\ 0 \in 0..MaxTtls /\ 0 \in 0..MaxHops /\ 0 \in 0..MaxRedraws
    BY <1>b DEF Trees, Stored
<1>1. SnapshotInit => SnapshotTypeOK
    <2> SUFFICES ASSUME SnapshotInit PROVE SnapshotTypeOK
        OBVIOUS
    <2>1. shown \in [Windows -> Trees] /\ cache \in [Windows -> Stored] /\ rows \in [Windows -> Stored]
        BY <1>n DEF SnapshotInit
    <2>2. Len(hops) <= HopCapacity
        BY <1>b DEF SnapshotInit
    <2> QED
        BY <1>n, <2>1, <2>2 DEF SnapshotInit, SnapshotTypeOK
<1>2. ASSUME SnapshotTypeOK, ScreensInv, SnapshotNext PROVE SnapshotTypeOK'
    <2>t. HopsOfWindows /\ CacheFollows
        BY <1>2 DEF ScreensInv
    <2>1. CASE Redraw
        <3>1. shown' \in [Windows -> Trees]
            BY <1>2, <2>1 DEF Redraw, SnapshotTypeOK
        <3>2. redraws' \in 0..MaxRedraws
            BY <1>b, <1>2, <2>1 DEF Redraw, SnapshotTypeOK
        <3> QED
            BY <1>2, <2>1, <3>1, <3>2 DEF Redraw, SnapshotTypeOK
    <2>2. CASE TtlPasses
        <3>1. ttls' \in 0..MaxTtls
            BY <1>b, <1>2, <2>2 DEF TtlPasses, SnapshotTypeOK
        <3> QED
            BY <1>2, <2>2, <3>1 DEF TtlPasses, SnapshotTypeOK
    <2>3. CASE FocusHop
        <3>1. hopsMade' \in 0..MaxHops
            BY <1>b, <1>2, <2>3 DEF FocusHop, SnapshotTypeOK
        <3>2. Len(hops') <= HopCapacity
            BY <1>b, <1>2, <2>t, <2>3, QueueOps DEF FocusHop, SnapshotTypeOK, HopsOfWindows
        <3> QED
            BY <1>2, <2>3, <3>1, <3>2 DEF FocusHop, SnapshotTypeOK
    <2>4. CASE Walk
        <3>1. Head(hops) \in Windows /\ Len(Tail(hops)) <= HopCapacity
            BY <1>b, <1>2, <2>t, <2>4, QueueOps DEF Walk, SnapshotTypeOK, HopsOfWindows
        <3>2. FocusedTree \in Trees
            BY <2>t DEF FocusedTree, HopsOfWindows
        <3>3. walked' \in [window : Windows, tree : Trees] \cup {NoWalk}
            BY <2>4, <3>1, <3>2 DEF Walk
        <3> QED
            BY <1>2, <2>4, <3>1, <3>3 DEF Walk, SnapshotTypeOK
    <2>5. CASE Skip
        <3>1. walked.window \in Windows
            BY <2>5, <2>t DEF Skip, HopsOfWindows
        <3>2. HasFreshRow(walked.window, walked.tree)
            BY <1>2, <2>5, <3>1, SkippedIsFresh DEF Skip
        <3> QED
            BY <1>2, <2>5, <3>2 DEF Skip, SnapshotTypeOK
    <2>6. CASE Store
        <3> DEFINE w == walked.window
                   e == [tree |-> walked.tree, at |-> ttls]
        <3>1. /\ walked' = NoWalk
              /\ cache' \in Evictions([cache EXCEPT ![w] = e])
              /\ \/ rows' = [rows EXCEPT ![w] = e] /\ rowLost' = rowLost \ {w}
                 \/ rowLost' = rowLost \cup {w} /\ rows' = rows
              /\ UNCHANGED <<shown, inFocus, hops, overlooked, ttls, hopsMade, redraws>>
            BY <2>6 DEF Store
        <3>2. w \in Windows /\ walked.tree \in Trees
            BY <2>6, <2>t DEF Store, HopsOfWindows
        <3>3. e \in Stored
            BY <1>2, <3>2 DEF Stored, SnapshotTypeOK
        <3>4. e \in Entries /\ e.at <= ttls
            BY <2>t, <3>2 DEF Entries, HopsOfWindows
        <3>5. cache \in [Windows -> Stored] /\ rows \in [Windows -> Stored] /\ rowLost \subseteq Windows
            BY <1>2 DEF SnapshotTypeOK
        <3> HIDE DEF w, e
        <3>6. /\ cache' \in [Windows -> Entries]
              /\ \A x \in Windows : cache'[x] = NoTree \/ cache'[x] = IF x = w THEN e ELSE cache[x]
            BY ZenonT(60), <1>2, <3>1, <3>2, <3>4, EvictionMakesRoom
        <3>7. \A x \in Windows : cache'[x] \in Stored
            BY <1>n, <3>3, <3>5, <3>6
        <3>8. cache' \in [Windows -> Stored]
            BY <3>6, <3>7
        <3>9. rows' \in [Windows -> Stored] /\ rowLost' \subseteq Windows
            BY <3>1, <3>2, <3>3, <3>5
        <3> QED
            BY <1>2, <3>1, <3>8, <3>9 DEF SnapshotTypeOK
    <2> QED
        BY <1>2, <2>1, <2>2, <2>3, <2>4, <2>5, <2>6 DEF SnapshotNext
<1>3. SnapshotTypeOK /\ UNCHANGED snapshotVars => SnapshotTypeOK'
    BY DEF SnapshotTypeOK, snapshotVars
<1> QED
    BY <1>1, <1>2, <1>3

\* The booleans and the places of the two processes.
AnalyzerPlaces ==
    /\ {desiredActive, unseen, tier2, catching, configCached, claudeRuns, guard, termLost, errored, cutShort}
          \subseteq BOOLEAN
    /\ monitor \in {"top", "idle", "backoff", "supervising", "terminating", "killing", "gone"}
    /\ daemon \in {"none", "starting", "fetching", "reading", "asking", "pushing", "recording",
                   "sleeping", "skipping"}

\* What was found bounds what is counted.
AnalyzerNumbers ==
    /\ {toPush, found, accepted} \subseteq 0..MaxFindings
    /\ tally \in [created : 0..MaxFindings, deduped : 0..MaxFindings, failed : 0..MaxFindings]

\* The types of the analyzer's variables.
LEMMA AnalyzerTyped ==
    /\ AnalyzerInit => AnalyzerTypeOK
    /\ AnalyzerTypeOK /\ AnalyzerInv /\ [AnalyzerNext]_analyzerVars => AnalyzerTypeOK'
<1>b. MaxFindings \in Nat
    BY AnalyzerAssumption DEF AnalyzerAssumption
<1>d. AnalyzerTypeOK <=> AnalyzerPlaces /\ AnalyzerNumbers
    BY DEF AnalyzerTypeOK, AnalyzerPlaces, AnalyzerNumbers
<1>e. AnalyzerTypeOK' <=> AnalyzerPlaces' /\ AnalyzerNumbers'
    BY DEF AnalyzerTypeOK, AnalyzerPlaces, AnalyzerNumbers
<1>1. AnalyzerInit => AnalyzerTypeOK
    <2>1. AnalyzerInit => AnalyzerPlaces
        BY DEF AnalyzerInit, AnalyzerPlaces
    <2>2. AnalyzerInit => AnalyzerNumbers
        BY <1>b DEF AnalyzerInit, AnalyzerNumbers, NoTally
    <2> QED
        BY <2>1, <2>2, <1>d
<1>2. ASSUME AnalyzerPlaces, AnalyzerNumbers, Accounts, AnalyzerNext
      PROVE  AnalyzerPlaces' /\ AnalyzerNumbers'
    <2> USE DEF supervisorVars, processVars, runVars, Daemon
    <2>1. CASE \/ \E on \in BOOLEAN : SetActive(on)
               \/ SignInOrOut \/ AppDies
               \/ monitor # "gone" /\ MonitorStep
               \/ ParentGone
        <3>1. UNCHANGED runVars
            BY <2>1 DEF SetActive, SignInOrOut, AppDies, MonitorStep, MonitorTop, MonitorWakes, DaemonReaped,
               SuperviseChange, Terminated, OverstaysGrace, ParentGone
        <3>2. AnalyzerNumbers'
            BY <1>2, <3>1 DEF AnalyzerNumbers
        <3>3. CASE \/ \E on \in BOOLEAN : SetActive(on)
                   \/ SignInOrOut \/ AppDies
            BY <1>2, <3>2, <3>3 DEF SetActive, SignInOrOut, AppDies, AnalyzerPlaces
        <3>4. CASE MonitorTop \/ MonitorWakes \/ DaemonReaped \/ SuperviseChange \/ Terminated \/ OverstaysGrace
            BY <1>2, <3>2, <3>4 DEF MonitorTop, MonitorWakes, DaemonReaped,
               SuperviseChange, Terminated, OverstaysGrace, SpawnDaemon, Sigterm, AnalyzerPlaces
        <3>5. CASE ParentGone
            BY <1>2, <3>2, <3>5 DEF ParentGone, Sigterm, AnalyzerPlaces
        <3> QED
            BY <2>1, <3>2, <3>3, <3>4, <3>5 DEF MonitorStep
    <2>2. CASE DaemonStep
        <3>1. CASE DaemonStarts \/ EnsureConfig \/ ReadWindow \/ AllPushed \/ PostRun \/ DaemonWakes
            <4>1. AnalyzerPlaces'
                BY <1>2, <3>1 DEF DaemonStarts, EnsureConfig, ReadWindow, AllPushed, PostRun, DaemonWakes, AnalyzerPlaces
            <4>2. \/ UNCHANGED runVars
                  \/ toPush' = 0 /\ tally' = NoTally /\ found' = 0 /\ accepted' = 0
                BY <3>1 DEF DaemonStarts, EnsureConfig, ReadWindow, AllPushed, PostRun, DaemonWakes
            <4>3. AnalyzerNumbers'
                BY <1>b, <1>2, <4>2 DEF AnalyzerNumbers, NoTally
            <4> QED
                BY <4>1, <4>3
        <3>2. CASE ClaudeAnswers
            <4>1. AnalyzerPlaces'
                BY <1>2, <3>2 DEF ClaudeAnswers, AnalyzerPlaces
            <4>2. AnalyzerNumbers'
                BY <1>b, <1>2, <3>2 DEF ClaudeAnswers, Findings, AnalyzerNumbers
            <4> QED
                BY <4>1, <4>2
        <3>3. CASE PushFinding
            <4>1. AnalyzerPlaces'
                BY <1>2, <3>3 DEF PushFinding, AnalyzerPlaces
            <4>2. AnalyzerNumbers'
                BY <1>b, <1>2, <3>3 DEF PushFinding, AnalyzerNumbers, Accounts
            <4> QED
                BY <4>1, <4>2
        <3>4. CASE RateLimited
            BY <1>2, <3>4 DEF RateLimited, AnalyzerPlaces, AnalyzerNumbers
        <3> QED
            BY <2>2, <3>1, <3>2, <3>3, <3>4 DEF DaemonStep
    <2> QED
        BY <1>2, <2>1, <2>2 DEF AnalyzerNext
<1>3. AnalyzerTypeOK /\ UNCHANGED analyzerVars => AnalyzerTypeOK'
    BY DEF AnalyzerTypeOK, analyzerVars, supervisorVars, processVars, runVars
<1> QED
    BY <1>1, <1>2, <1>3, <1>d, <1>e DEF AnalyzerInv

\* The directories, and how far the app has come.
SettingsPlaces ==
  dirs \subseteq Places /\ history \in Places \cup {"nowhere"} /\ launched \in BOOLEAN

\* No version is of a write to come.
SettingsNumbers ==
  /\ creds.version \in 0 .. MaxWrites /\ newest \subseteq 0 .. MaxWrites
  /\ \A w \in Writers : temp[w].version \in 0 .. MaxWrites
  /\ writes \in 0 .. MaxWrites /\ deaths \in 0 .. MaxDeaths

\* A written file has every field.
PrefsHaveFields == DOMAIN prefs = Fields

SettingsBounded == SettingsPlaces /\ SettingsNumbers /\ PrefsHaveFields

\* The types of the settings' variables.
LEMMA SettingsTyped ==
    /\ SettingsInit => SettingsBounded
    /\ SettingsBounded /\ SettingsInv /\ [SettingsNext]_settingsVars => SettingsBounded'
    /\ SettingsBounded /\ SettingsInv => SettingsTypeOK
<1>b. MaxWrites \in Nat /\ MaxDeaths \in Nat
    BY SettingsAssumption DEF SettingsAssumption
<1>1. SettingsInit => SettingsBounded
    <2>1. SettingsInit => SettingsPlaces
        BY DEF SettingsInit, SettingsPlaces
    <2>2. SettingsInit => SettingsNumbers
        BY <1>b DEF SettingsInit, SettingsNumbers, NoCredentials
    <2>3. SettingsInit => PrefsHaveFields
        BY DEF SettingsInit, PrefsHaveFields, Defaults
    <2> QED
        BY <2>1, <2>2, <2>3 DEF SettingsBounded
<1>2. ASSUME SettingsPlaces, SettingsNext PROVE SettingsPlaces'
    <2> USE <1>2 DEF SettingsPlaces
    <2>1. CASE Launch
        BY <2>1 DEF Launch, Move, Places
    <2>2. CASE AppDied
        BY <2>2 DEF AppDied
    <2>3. ASSUME NEW w \in Writers, \/ LoadPrefs(w) \/ TruncatePrefs(w) \/ WritePrefs(w)
                                    \/ CreateTemp(w) \/ FillTemp(w) \/ RenameTemp(w) \/ ClearCredentials(w)
          PROVE SettingsPlaces'
        BY <2>3 DEF LoadPrefs, TruncatePrefs, WritePrefs, CreateTemp, FillTemp, RenameTemp, ClearCredentials
    <2> QED
        BY <2>1, <2>2, <2>3 DEF SettingsNext
<1>3. ASSUME PrefsHaveFields, SettingsInv, SettingsNext PROVE PrefsHaveFields'
    <2> USE <1>3 DEF PrefsHaveFields
    <2>1. CASE Launch \/ AppDied
        BY <2>1 DEF Launch, AppDied, prefsVars
    <2>2. ASSUME NEW w \in Writers, \/ LoadPrefs(w) \/ CreateTemp(w) \/ FillTemp(w) \/ RenameTemp(w) \/ ClearCredentials(w)
          PROVE PrefsHaveFields'
        BY <2>2 DEF LoadPrefs, CreateTemp, FillTemp, RenameTemp, ClearCredentials, prefsVars
    <2>3. ASSUME NEW w \in Writers, TruncatePrefs(w) PROVE PrefsHaveFields'
        BY <2>3 DEF TruncatePrefs, Torn
    <2>4. ASSUME NEW w \in Writers, WritePrefs(w) PROVE PrefsHaveFields'
        <3>1. prefs' = loaded[w] /\ step[w] = "write"
            BY <2>4 DEF WritePrefs, At
        <3>2. loaded[w] = askedFor
            BY <3>1 DEF SettingsInv, PrefsUnderLock
        <3>3. DOMAIN askedFor = Fields
            BY DEF SettingsInv, SettingsTypes
        <3> QED
            BY <3>1, <3>2, <3>3
    <2> QED
        BY <2>1, <2>2, <2>3, <2>4 DEF SettingsNext
<1>4. ASSUME SettingsNumbers, SettingsInv, SettingsNext PROVE SettingsNumbers'
    <2> USE <1>4 DEF SettingsNumbers, prefsVars, credentialVars
    <2>t. DOMAIN temp = Writers /\ NoCredentials.version \in 0 .. MaxWrites
        BY <1>b DEF SettingsInv, SettingsTypes, NoCredentials
    <2>1. CASE Launch
        BY <2>1 DEF Launch
    <2>2. CASE AppDied
        <3>1. deaths' \in 0 .. MaxDeaths
            BY <1>b, <2>2 DEF AppDied
        <3>2. \A w \in Writers : temp'[w] = NoCredentials
            BY <2>2 DEF AppDied
        <3> QED
            BY <2>t, <2>2, <3>1, <3>2 DEF AppDied
    <2>3. ASSUME NEW w \in Writers, LoadPrefs(w) PROVE SettingsNumbers'
        BY <1>b, <2>3 DEF LoadPrefs
    <2>4. ASSUME NEW w \in Writers, TruncatePrefs(w) \/ WritePrefs(w) PROVE SettingsNumbers'
        BY <2>4 DEF TruncatePrefs, WritePrefs
    <2>5. ASSUME NEW w \in Writers, CreateTemp(w) PROVE SettingsNumbers'
        <3>1. writes' \in 0 .. MaxWrites /\ writes' = writes + 1
            BY <1>b, <2>5 DEF CreateTemp
        <3>2. \A v \in Writers : temp'[v].version = IF v = w THEN writes' ELSE temp[v].version
            BY <2>t, <2>5, <3>1 DEF CreateTemp
        <3> QED
            BY <2>5, <3>1, <3>2 DEF CreateTemp
    <2>6. ASSUME NEW w \in Writers, FillTemp(w) PROVE SettingsNumbers'
        <3>1. \A v \in Writers : temp'[v].version \in {temp[v].version, NoCredentials.version}
            <4>1. temp \in [Writers -> Temps]
                BY DEF SettingsInv, SettingsTypes
            <4>2. CASE temp' = [temp EXCEPT ![w].whole = TRUE]
                BY <4>1, <4>2 DEF Temps
            <4>3. CASE temp' = [temp EXCEPT ![w] = NoCredentials]
                BY <4>1, <4>3
            <4> QED
                BY <2>6, <4>2, <4>3 DEF FillTemp
        <3> QED
            BY <2>t, <2>6, <3>1 DEF FillTemp
    <2>7. ASSUME NEW w \in Writers, RenameTemp(w) PROVE SettingsNumbers'
        <3>1. \A v \in Writers : temp'[v].version \in {temp[v].version, NoCredentials.version}
            BY <2>t, <2>7 DEF RenameTemp
        <3>2. creds'.version \in {temp[w].version, creds.version} /\ newest' \subseteq newest \cup {temp[w].version}
            BY <2>7 DEF RenameTemp
        <3> QED
            BY <2>t, <2>7, <3>1, <3>2 DEF RenameTemp
    <2>8. ASSUME NEW w \in Writers, ClearCredentials(w) PROVE SettingsNumbers'
        BY <2>t, <2>8 DEF ClearCredentials
    <2> QED
        BY <2>1, <2>2, <2>3, <2>4, <2>5, <2>6, <2>7, <2>8 DEF SettingsNext
<1>5. SettingsBounded /\ UNCHANGED settingsVars => SettingsBounded'
    BY DEF SettingsBounded, SettingsPlaces, SettingsNumbers, PrefsHaveFields, settingsVars
<1>6. ASSUME SettingsBounded, SettingsInv PROVE SettingsTypeOK
    <2>1. /\ prefsLock \in Writers \cup {NobodyWrites} /\ DOMAIN askedFor = Fields
          /\ step \in [Writers -> {"idle", "truncate", "write", "fill", "rename"}]
        BY <1>6 DEF SettingsInv, SettingsTypes
    <2> QED
        BY <1>6, <2>1 DEF SettingsBounded, SettingsPlaces, SettingsNumbers, PrefsHaveFields, SettingsTypeOK
<1> QED
    BY <1>1, <1>2, <1>3, <1>4, <1>5, <1>6 DEF SettingsBounded

\* A file is of a launch so far, of a version there is, and holds no commit to come.
RescueBounded ==
  /\ binary \in Versions /\ commits \in 0 .. MaxCommits
  /\ main \in Files /\ wal \in Files
  /\ \A s \in Slots : archives[s].main \in Files /\ archives[s].wal \in Files

\* The types of the rescue's variables.
LEMMA RescueTyped ==
    /\ RescueInit => RescueBounded
    /\ RescueBounded /\ RescueInv /\ [RescueNext]_rescueVars => RescueBounded'
    /\ RescueBounded /\ RescueInv => RescueTypeOK
<1>b. MaxCommits \in Nat /\ MaxLaunches \in Nat \ {0} /\ MaxSeconds \in Nat /\ Versions \subseteq Nat \ {0}
    BY RescueAssumption, VersionsAreNumbers DEF RescueAssumption, VersionsAreNumbers
<1>n. NoFile \in Files
    BY <1>b DEF NoFile, Files
<1>1. RescueInit => RescueBounded
    BY <1>b, <1>n DEF RescueInit, RescueBounded, NoArchive
<1>2. ASSUME RescueBounded, RescueInv, RescueNext PROVE RescueBounded'
    <2>1. CASE InstallVersion \/ SecondPasses \/ StartApp \/ AppEnds \/ MigrateFails
        BY <1>2, <2>1 DEF InstallVersion, SecondPasses, StartApp, AppEnds, MigrateFails, RescueBounded
    <2>2. CASE OpenDb
        <3>1. launches \in 0 .. MaxLaunches
            BY <1>2 DEF RescueInv, RescueTypes
        <3>2. Opened \in Files
            BY <1>2, <3>1 DEF Opened, Files, RescueBounded
        <3>3. main' \in Files
            BY <1>2, <2>2, <3>2 DEF OpenDb, Files, RescueBounded
        <3> QED
            BY <1>2, <2>2, <3>3 DEF OpenDb, RescueBounded
    <2>3. CASE ArchiveMain
        <3>1. FreeSlot \in Slots
            BY <1>2, <2>3, FreeSlotIsFree DEF ArchiveMain
        <3>2. archives \in [Slots -> [main : Databases, wal : Databases]]
            BY <1>2 DEF RescueInv, RescueTypes
        <3>3. \A s \in Slots : archives'[s].main \in {archives[s].main, main} /\ archives'[s].wal = archives[s].wal
            BY <2>3, <3>1, <3>2 DEF ArchiveMain
        <3> QED
            BY <1>2, <1>n, <2>3, <3>3 DEF ArchiveMain, RescueBounded
    <2>4. CASE ArchiveWal
        <3>1. archives \in [Slots -> [main : Databases, wal : Databases]]
            BY <1>2 DEF RescueInv, RescueTypes
        <3>2. \A s \in Slots : archives'[s].wal \in {archives[s].wal, wal} /\ archives'[s].main = archives[s].main
            BY <2>4, <3>1 DEF ArchiveWal
        <3> QED
            BY <1>2, <1>n, <2>4, <3>2 DEF ArchiveWal, RescueBounded
    <2>5. CASE Commit
        <3>1. commits' \in 0 .. MaxCommits /\ commits + 1 \in 1 .. MaxCommits
            BY <1>b, <1>2, <2>5 DEF Commit, RescueBounded
        <3>2. PICK log \in {{}, wal.commits} :
                  wal' = [gen |-> main.gen, schema |-> 0, commits |-> log \cup {commits + 1}]
            BY <2>5 DEF Commit
        <3>3. wal' \in Files
            BY <1>2, <3>1, <3>2 DEF RescueBounded, Files
        <3> QED
            BY <1>2, <2>5, <3>1, <3>3 DEF Commit, RescueBounded
    <2>6. CASE Checkpoint
        <3>1. main' \in Files
            BY <1>2, <2>6 DEF Checkpoint, RescueBounded, Files
        <3> QED
            BY <1>2, <1>n, <2>6, <3>1 DEF Checkpoint, RescueBounded
    <2> QED
        BY <1>2, <2>1, <2>2, <2>3, <2>4, <2>5, <2>6 DEF RescueNext
<1>3. RescueBounded /\ UNCHANGED rescueVars => RescueBounded'
    BY DEF RescueBounded, rescueVars
<1>4. RescueBounded /\ RescueInv => RescueTypeOK
    BY DEF RescueBounded, RescueInv, RescueTypes, Stages, RescueTypeOK
<1> QED
    BY <1>1, <1>2, <1>3, <1>4

-----------------------------------------------------------------------------
(* Side by side.                                                           *)

\* A behaviour of the services is one of each of them.
LEMMA ServicesStep ==
    ASSUME [ServicesNext]_allVars
    PROVE  /\ [AudioNext]_assistAudioVars /\ [AssistNext]_assistEngineVars
           /\ [WasapiNext]_wasapiVars /\ [SettingsNext]_settingsVars /\ [RescueNext]_rescueVars
           /\ [AnalyzerNext]_analyzerVars /\ [AssistShellNext]_assistShellVars
           /\ [CaptureNext]_captureVars /\ [WindowsNext]_windowsVars
           /\ [SegmenterNext]_segmenterVars /\ [TapNext]_tapVars /\ [SnapshotNext]_snapshotVars
           /\ [AgentNext]_agentVars /\ [AssistPanelNext]_assistPanelVars /\ [NormalizerNext]_normalizerVars
           /\ [TranscriptionNext]_transcriptionVars
           /\ service' = service
<1>1. CASE UNCHANGED allVars
    BY <1>1 DEF allVars
<1>2. CASE OthersRest /\ service = "audio" /\ AudioNext
    BY <1>2 DEF OthersRest
<1>3. CASE OthersRest /\ service = "engine" /\ AssistNext
    BY <1>3 DEF OthersRest
<1>4. CASE OthersRest /\ service = "wasapi" /\ WasapiNext
    BY <1>4 DEF OthersRest
<1>5. CASE OthersRest /\ service = "settings" /\ SettingsNext
    BY <1>5 DEF OthersRest
<1>6. CASE OthersRest /\ service = "rescue" /\ RescueNext
    BY <1>6 DEF OthersRest
<1>7. CASE OthersRest /\ service = "analyzer" /\ AnalyzerNext
    BY <1>7 DEF OthersRest
<1>8. CASE OthersRest /\ service = "shell" /\ AssistShellNext
    BY <1>8 DEF OthersRest
<1>9. CASE OthersRest /\ service = "capture" /\ CaptureNext
    BY <1>9 DEF OthersRest
<1>10. CASE OthersRest /\ service = "windows" /\ WindowsNext
    BY <1>10 DEF OthersRest
<1>11. CASE OthersRest /\ service = "segmenter" /\ SegmenterNext
    BY <1>11 DEF OthersRest
<1>12. CASE OthersRest /\ service = "tap" /\ TapNext
    BY <1>12 DEF OthersRest
<1>13. CASE OthersRest /\ service = "screens" /\ SnapshotNext
    BY <1>13 DEF OthersRest
<1>14. CASE OthersRest /\ service = "agent" /\ AgentNext
    BY <1>14 DEF OthersRest
<1>15. CASE OthersRest /\ service = "panel" /\ AssistPanelNext
    BY <1>15 DEF OthersRest
<1>16. CASE OthersRest /\ service = "input" /\ NormalizerNext
    BY <1>16 DEF OthersRest
<1>17. CASE OthersRest /\ service = "transcription" /\ TranscriptionNext
    BY <1>17 DEF OthersRest
<1>18. CASE OthersRest /\ service \notin {"audio", "engine", "wasapi", "settings", "rescue", "analyzer",
                                        "shell", "capture", "windows", "segmenter", "tap", "screens", "agent",
                                        "panel", "input", "transcription"}
    BY <1>18 DEF OthersRest
<1> QED
    BY <1>1, <1>2, <1>3, <1>4, <1>5, <1>6, <1>7, <1>8, <1>9, <1>10, <1>11,
       <1>12, <1>13, <1>14, <1>15, <1>16, <1>17, <1>18 DEF ServicesNext

\* Each service starts in the initial state of its own module.
LEMMA ServicesStart ==
    ASSUME ServicesInit
    PROVE  AudioInit /\ AssistInit /\ WasapiInit /\ SettingsInit /\ RescueInit /\ AnalyzerInit
           /\ AssistShellInit /\ CaptureInit /\ WindowsInit /\ SegmenterInit /\ TapInit /\ SnapshotInit
           /\ AgentInit /\ AssistPanelInit /\ NormalizerInit /\ TranscriptionInit
BY DEF ServicesInit

\* TurnsAreOfTheirMeeting, for the services side by side.
THEOREM ServicesTurns == ServicesSpec => []TurnsAreOfTheirMeeting
<1>1. AudioInv => TurnsAreOfTheirMeeting
    BY DEF AudioInv, TurnsAreOfTheirMeeting, Of
<1>2. ServicesInit => AudioInv
    BY ServicesStart, AudioStart
<1>3. AudioInv /\ [ServicesNext]_allVars => AudioInv'
    BY ServicesStep, AudioStep
<1> QED
    BY <1>1, <1>2, <1>3, PTL DEF ServicesSpec

\* The engine's part of ConversationIsFaithful.
THEOREM ServicesEngine == ServicesSpec => EngineKeepsItsWord
<1>1. ServicesInit => AssistInit
    BY ServicesStart
<1>2. [ServicesNext]_allVars => [AssistNext]_assistEngineVars
    BY ServicesStep
<1>3. ServicesSpec => AssistSpec
    BY <1>1, <1>2, PTL DEF ServicesSpec, AssistSpec
<1> QED
    BY <1>3, TurnsTold, QuestionsAnswered DEF EngineKeepsItsWord


\* DetectionOnWindows, for the services side by side.
THEOREM ServicesWindows == ServicesSpec => []DetectionOnWindows
<1>1. WasapiInv => DetectionOnWindows
    BY WasapiSound DEF DetectionOnWindows, Of
<1>2. ServicesInit => WasapiInv
    BY ServicesStart, WasapiStart
<1>3. WasapiInv /\ [ServicesNext]_allVars => WasapiInv'
    BY ServicesStep, WasapiStep
<1> QED
    BY <1>1, <1>2, <1>3, PTL DEF ServicesSpec

\* DiskIsKept, for the services side by side.
THEOREM ServicesDisk == ServicesSpec => []DiskIsKept
<1>1. SettingsInv /\ RescueInv => DiskIsKept
    BY SettingsSurvive, RescueKeeps DEF DiskIsKept, Of
<1>2. ServicesInit => SettingsInv /\ RescueInv
    BY ServicesStart, SettingsStart, RescueStart
<1>3. SettingsInv /\ RescueInv /\ [ServicesNext]_allVars => (SettingsInv /\ RescueInv)'
    BY ServicesStep, SettingsStep, RescueStep
<1> QED
    BY <1>1, <1>2, <1>3, PTL DEF ServicesSpec

\* AnalyzerIsGoverned, for the services side by side.
THEOREM ServicesAnalyzer == ServicesSpec => []AnalyzerIsGoverned
<1>1. AnalyzerInv => AnalyzerIsGoverned
    BY AnalyzerKeeps, Backfills DEF AnalyzerIsGoverned, DaemonIsGoverned, Of
<1>2. ServicesInit => AnalyzerInv
    BY ServicesStart, AnalyzerStart
<1>3. AnalyzerInv /\ [ServicesNext]_allVars => AnalyzerInv'
    BY ServicesStep, AnalyzerStep
<1> QED
    BY <1>1, <1>2, <1>3, PTL DEF ServicesSpec

\* ShellIsAsSwitched, for the services side by side.
THEOREM ServicesShell == ServicesSpec => []ShellIsAsSwitched
<1>1. ShellInv => ShellIsAsSwitched
    BY ShellServes DEF ShellIsAsSwitched, Of
<1>2. ServicesInit => ShellInv
    BY ServicesStart, ShellStart
<1>3. ShellInv /\ [ServicesNext]_allVars => ShellInv'
    BY ServicesStep, ShellStep
<1> QED
    BY <1>1, <1>2, <1>3, PTL DEF ServicesSpec

\* SessionsAreSound, for the services side by side.
THEOREM ServicesSessions == ServicesSpec => SessionsAreSound
<1>1. SessionInv => Of("capture", NoSourceOutlivesSession)
    BY SessionSound DEF Of
<1>2. WindowsInv => Of("windows", StoppedIsWhole)
    BY WindowsWhole DEF Of
<1>3. ServicesInit => SessionInv /\ WindowsInv
    BY ServicesStart, SessionStart, WindowsStart
<1>4. SessionInv /\ [ServicesNext]_allVars => SessionInv'
    BY ServicesStep, SessionStep
<1>5. WindowsInv /\ [ServicesNext]_allVars => WindowsInv'
    BY ServicesStep, WindowsStep
<1>6. SessionInv /\ [ServicesNext]_allVars => [lastFrame' >= lastFrame]_captureVars
    BY ServicesStep, FramesInOrder
<1> QED
    BY <1>1, <1>2, <1>3, <1>4, <1>5, <1>6, PTL DEF ServicesSpec, SessionsAreSound, FramesNeverInterleave

\* SoundKeepsItsTime, for the services side by side.
THEOREM ServicesSound == ServicesSpec => []SoundKeepsItsTime
<1>1. TapInv /\ SegmenterInv => SoundKeepsItsTime
    BY TapKeeps, SegmenterFaithful DEF SoundKeepsItsTime, Of
<1>2. ServicesInit => TapInv /\ SegmenterInv
    BY ServicesStart, TapStart, SegmenterStart
<1>3. TapInv /\ SegmenterInv /\ [ServicesNext]_allVars => (TapInv /\ SegmenterInv)'
    BY ServicesStep, TapStep, SegmenterStep
<1> QED
    BY <1>1, <1>2, <1>3, PTL DEF ServicesSpec

\* ConversationIsFaithful, for the services side by side.
THEOREM ServicesConversation == ServicesSpec => ConversationIsFaithful
<1>1. AgentInv => Of("agent", AgentAnswersFaithfully)
    BY AgentFaithful DEF Of
<1>2. ServicesInit => AgentInv
    BY ServicesStart, AgentStart
<1>3. AgentInv /\ [ServicesNext]_allVars => AgentInv'
    BY ServicesStep, AgentStep
<1> QED
    BY <1>1, <1>2, <1>3, ServicesEngine, PTL DEF ServicesSpec, ConversationIsFaithful

\* PanelIsFaithful, for the services side by side.
THEOREM ServicesPanel == ServicesSpec => []PanelIsFaithful
<1>1. PanelInv => PanelIsFaithful
    BY PanelFaithful DEF PanelIsFaithful, Of
<1>2. ServicesInit => PanelInv
    BY ServicesStart, PanelStart
<1>3. PanelInv /\ [ServicesNext]_allVars => PanelInv'
    BY ServicesStep, PanelStep
<1> QED
    BY <1>1, <1>2, <1>3, PTL DEF ServicesSpec

\* ActivityIsFaithful, for the services side by side.
THEOREM ServicesActivity == ServicesSpec => []ActivityIsFaithful
<1>1. InputInv /\ ScreensInv => ActivityIsFaithful
    BY InputFaithful, ScreensSampled DEF ActivityIsFaithful, Of
<1>2. ServicesInit => InputInv /\ ScreensInv
    BY ServicesStart, InputStart, ScreensStart
<1>3. InputInv /\ ScreensInv /\ [ServicesNext]_allVars => (InputInv /\ ScreensInv)'
    BY ServicesStep, InputStep, ScreensStep
<1> QED
    BY <1>1, <1>2, <1>3, PTL DEF ServicesSpec

\* ModelsFollowSettings, for the services side by side.
THEOREM ServicesModels == ServicesSpec => ModelsFollowSettings
<1>1. ModelsInv => WarmModelFollowsLanguage
    BY DEF ModelsInv, ReloadIsDue, WarmModelFollowsLanguage
<1>2. ServicesInit => ModelsInv
    BY ServicesStart, ModelsStart
<1>3. ModelsInv /\ [ServicesNext]_allVars => ModelsInv'
    BY ServicesStep, ModelsStep
<1> QED
    BY <1>1, <1>2, <1>3, NeverLoadedTwice, PTL DEF ServicesSpec, ModelsFollowSettings, LoadedOnce

\* The inductive invariants of the sixteen services, and with them the bounds of their types.
ServicesInv ==
    /\ AudioInv /\ AssistInv /\ WasapiInv /\ SettingsInv /\ RescueInv /\ AnalyzerInv
    /\ ShellInv /\ SegmenterInv /\ TapInv /\ ScreensInv /\ AgentInv /\ PanelInv /\ InputInv /\ ModelsInv

ServicesBounded ==
    /\ AnalyzerTypeOK /\ TapBounded /\ CaptureTypes /\ WindowsTypeOK /\ SettingsBounded /\ RescueBounded
    /\ SnapshotTypeOK /\ SegmenterBounded /\ InputBounded /\ AgentBounded /\ PanelBounded /\ ShellBounded

\* ServicesTypeOK: every variable of every service keeps its type, bounds included.
THEOREM ServicesTyped == ServicesSpec => []ServicesTypeOK
<1>1. ServicesInit => ServicesInv
    BY ServicesStart, AudioStart, AssistStart, WasapiStart, SettingsStart, RescueStart, AnalyzerStart, ShellStart,
       SegmenterStart, TapStart, ScreensStart, AgentStart, PanelStart, InputStart, ModelsStart DEF ServicesInv
<1>2. ServicesInv /\ [ServicesNext]_allVars => ServicesInv'
    BY ServicesStep, AudioStep, AssistStep, WasapiStep, SettingsStep, RescueStep, AnalyzerStep, ShellStep,
       SegmenterStep, TapStep, ScreensStep, AgentStep, PanelStep, InputStep, ModelsStep DEF ServicesInv
<1>3. ServicesInit => ServicesBounded
    BY ServicesStart, AnalyzerTyped, TapTyped, CaptureTyped, WindowsTyped, SettingsTyped, RescueTyped,
       ScreensTyped, SegmenterTyped, InputTyped, AgentTyped, PanelTyped, ShellTyped DEF ServicesBounded
<1>4. ServicesInv /\ ServicesBounded /\ [ServicesNext]_allVars => ServicesBounded'
    BY ServicesStep, AnalyzerTyped, TapTyped, CaptureTyped, WindowsTyped, SettingsTyped, RescueTyped,
       ScreensTyped, SegmenterTyped, InputTyped, AgentTyped, PanelTyped, ShellTyped DEF ServicesInv, ServicesBounded
<1>5. ServicesInv /\ ServicesBounded => ServicesTypeOK
    <2>1. ServicesInv => AudioTypeOK /\ AssistTypeOK /\ WasapiTypeOK /\ TranscriptionTypeOK
        BY AssistInvGives, WasapiTyped DEF ServicesInv, AudioInv, ModelsInv
    <2>2. ServicesInv /\ ServicesBounded =>
             /\ AnalyzerTypeOK /\ TapTypeOK /\ CaptureTypeOK /\ WindowsTypeOK /\ SettingsTypeOK /\ RescueTypeOK
             /\ SnapshotTypeOK /\ SegmenterTypeOK /\ NormalizerTypeOK /\ AgentTypeOK /\ AssistPanelTypeOK
             /\ AssistShellTypeOK
        BY TapTyped, CaptureTyped, SettingsTyped, RescueTyped, SegmenterTyped, InputTyped, AgentTyped, PanelTyped,
           ShellTyped DEF ServicesInv, ServicesBounded
    <2> QED
        BY <2>1, <2>2 DEF ServicesTypeOK, Of
<1> QED
    BY <1>1, <1>2, <1>3, <1>4, <1>5, PTL DEF ServicesSpec
=============================================================================
