----------------------------- MODULE SystemTap -----------------------------
(***************************************************************************)
(* The process tap that records system audio (gilb-record/macos_tap.rs):   *)
(* a tap, a private aggregate device and an IO proc, each made from the    *)
(* one before, and the IO block that rebuilds the silence Core Audio never *)
(* delivers, so that the system channel stays in step with the microphone. *)
(*                                                                         *)
(* Time is counted in frames; a chunk is a number of frames that ends now. *)
(***************************************************************************)
EXTENDS Integers, Sequences

CONSTANTS MaxFrame,     \* bound: frames of device time
          MaxChunk,     \* bound: frames of one chunk
          MaxGapFrames  \* the longest gap that is padded

ASSUME TapAssumption == MaxChunk \in Nat \ {0} /\ MaxGapFrames \in Nat /\ MaxFrame \in Nat

VARIABLES
  objects,     \* the Core Audio objects there are, in the order they were made
  tapState,    \* "off", "starting", "running", "failed", "dropped"
  deviceTime,  \* frames since start
  delivered,   \* device time up to which Core Audio has handed out audio
  sunk,        \* frames the sink has been given
  nextSample,  \* next_expected_sample; -1 before the first timed chunk
  skew,        \* history: sunk minus device time at the first timed chunk
  untimed      \* history: a chunk had no sample time, or a gap no plausible length

clockVars == <<deviceTime, delivered, sunk, nextSample, skew, untimed>>
tapVars == <<objects, tapState, deviceTime, delivered, sunk, nextSample, skew,
             untimed>>

TapInit ==
  /\ objects = <<>> /\ tapState = "off"
  /\ deviceTime = 0 /\ delivered = 0 /\ sunk = 0
  /\ nextSample = -1 /\ skew = 0 /\ untimed = FALSE

(***************************************************************************)
(* Start and drop                                                          *)
(***************************************************************************)
(* Without the two entry points, or the grant, there is no tap at all.     *)
CreateTap ==
  /\ tapState = "off"
  /\ \/ tapState' = "starting" /\ objects' = <<"tap">>
     \/ tapState' = "failed" /\ UNCHANGED objects
  /\ UNCHANGED clockVars

(* fail: whatever exists so far is destroyed.                              *)
FailStart == tapState' = "failed" /\ objects' = <<>>

CreateAggregate ==
  /\ tapState = "starting" /\ objects = <<"tap">>
  /\ \/ objects' = Append(objects, "aggregate") /\ UNCHANGED tapState
     \/ FailStart
  /\ UNCHANGED clockVars

(* The clock starts before the IO proc is made.                            *)
CreateIOProc ==
  /\ tapState = "starting" /\ objects = <<"tap", "aggregate">>
  /\ \/ objects' = Append(objects, "io_proc") /\ UNCHANGED tapState
     \/ FailStart
  /\ UNCHANGED clockVars

StartDevice ==
  /\ tapState = "starting" /\ objects = <<"tap", "aggregate", "io_proc">>
  /\ \/ tapState' = "running" /\ UNCHANGED objects
     \/ FailStart
  /\ UNCHANGED clockVars

DropTap ==
  /\ tapState = "running"
  /\ tapState' = "dropped" /\ objects' = <<>>
  /\ UNCHANGED clockVars

(***************************************************************************)
(* The IO block                                                            *)
(***************************************************************************)
(* Time passes; the device delivers nothing while nobody plays anything.   *)
FramePasses ==
  /\ objects = <<"tap", "aggregate", "io_proc">> /\ deviceTime < MaxFrame
  /\ deviceTime' = deviceTime + 1
  /\ UNCHANGED <<objects, tapState, delivered, sunk, nextSample, skew, untimed>>

(* Mutant: later gaps are left out, as if playback never paused.           *)
GapBeforeFirstOnly(first, timed) == IF nextSample = -1 THEN deviceTime ELSE 0

(* The silence a chunk arrives after: before the first timed chunk all the *)
(* wall time so far, then what the device clock says; 0 when it is         *)
(* unreadable.                                                             *)
GapBefore(first, timed) ==
  IF nextSample = -1 THEN deviceTime
  ELSE IF timed THEN first - nextSample ELSE 0

(* pad_silence: from one frame on, and never more than is plausible.       *)
Padding(gap) == IF gap \in 1 .. MaxGapFrames THEN gap ELSE 0

(* One callback: the gap is padded, the frames go to the sink, and a chunk *)
(* with a sample time moves the expectation past its end.  A chunk without *)
(* one moves nothing, so the next gap counts its frames again.             *)
Chunk ==
  /\ tapState = "running"
  /\ \E frames \in 1 .. MaxChunk, timed \in BOOLEAN :
       LET first == deviceTime - frames
           gap == GapBefore(first, timed)
       IN  /\ first >= delivered
           /\ delivered' = deviceTime
           /\ sunk' = sunk + Padding(gap) + frames
           /\ nextSample' = IF timed THEN deviceTime ELSE nextSample
           /\ skew' = IF nextSample = -1 THEN sunk' - deviceTime ELSE skew
           /\ untimed' = (untimed \/ ~timed \/ gap > MaxGapFrames)
  /\ UNCHANGED <<objects, tapState, deviceTime>>

TapNext ==
  \/ CreateTap \/ CreateAggregate \/ CreateIOProc \/ StartDevice \/ DropTap
  \/ FramePasses \/ Chunk

TapSpec == TapInit /\ [][TapNext]_tapVars

-----------------------------------------------------------------------------
(* The types of the variables.                                             *)
TapTypeOK ==
  /\ objects \in {<<>>, <<"tap">>, <<"tap", "aggregate">>, <<"tap", "aggregate", "io_proc">>}
  /\ tapState \in {"off", "starting", "running", "failed", "dropped"}
  /\ deviceTime \in 0 .. MaxFrame /\ delivered \in 0 .. deviceTime
  /\ sunk \in Nat /\ nextSample \in -1 .. deviceTime
  /\ skew \in Int /\ untimed \in BOOLEAN

(* The system channel keeps time with the device however playback pauses:  *)
(* what the sink has been given runs ahead of the device by the one chunk  *)
(* the leading silence was measured after, and by no more and no less ever *)
(* after ("wrecking speaker attribution").  The exceptions are the ones    *)
(* the code makes: no sample time, or a gap too long to believe.           *)
TimelineIsKept ==
  ~untimed /\ nextSample # -1 => /\ sunk - nextSample = skew
                                 /\ skew \in 0 .. MaxChunk

(* A tap that could not be started, or was dropped, leaves no device and   *)
(* no tap behind in the audio server.                                      *)
NothingLeftInServer == tapState \in {"off", "failed", "dropped"} <=> objects = <<>>

TapKeepsTime == TimelineIsKept /\ NothingLeftInServer
=============================================================================
