----------------------------- MODULE SpeechSegmenter -----------------------------
(***************************************************************************)
(* Segmenter of the assist pipeline: cuts the stream of detector frames    *)
(* into the segments that are transcribed.  A frame is the detector's      *)
(* answer, voiced or not; samples are counted in whole frames, which is    *)
(* what every length of the code is rounded to.                            *)
(***************************************************************************)
EXTENDS Integers, Sequences, FiniteSets

CONSTANTS
    OpenFrames,         \* voiced frames in a row that open a segment
    CloseFrames,        \* silent frames in a row that close it
    MaxSegmentFrames,   \* length that is cut without a pause
    MinVoicedFrames,    \* voiced frames without which it is not worth transcribing
    PreRollFrames,      \* kept from before the opening
    OverlapFrames,      \* carried over a cut
    MaxStream           \* bound: frames of one stream

ASSUME SegmenterAssumption ==
    /\ {OpenFrames, CloseFrames, MaxSegmentFrames} \subseteq Nat \ {0}
    /\ {MinVoicedFrames, PreRollFrames, OverlapFrames, MaxStream} \subseteq Nat
    /\ OverlapFrames < MaxSegmentFrames
    \* a segment opens within the pre-roll, and has room for it
    /\ OpenFrames <= PreRollFrames + 1 /\ PreRollFrames + 1 < MaxSegmentFrames

VARIABLES
    frames,    \* history: every frame of the stream; its length is `consumed`
    preRoll,   \* Idle: flags of the frames kept for a segment that may open
    run,       \* Idle: consecutive_voiced
    inSpeech,  \* a segment is open
    start,     \* Active: its first frame, counted from 0
    flags,     \* Active: voiced flags of its frames
    voiced,    \* Active: voiced_frames, the count the gate looks at
    silence,   \* Active: silence_frames
    segments   \* history: [start, flags, sent] of every segment cut off, sent
               \*   when it passed the gate

segmenterVars == <<frames, preRoll, run, inSpeech, start, flags, voiced, silence, segments>>

SegmenterTypeOK ==
    /\ frames \in Seq(BOOLEAN) /\ Len(frames) <= MaxStream
    /\ preRoll \in Seq(BOOLEAN) /\ Len(preRoll) <= PreRollFrames + 1
    /\ run \in 0..OpenFrames /\ inSpeech \in BOOLEAN
    /\ flags \in Seq(BOOLEAN) /\ Len(flags) <= MaxSegmentFrames
    /\ {start, voiced, silence} \subseteq 0..MaxStream
    /\ segments \in Seq([start : 0..MaxStream, flags : Seq(BOOLEAN), sent : BOOLEAN])

Idle ==
    preRoll' = <<>> /\ run' = 0 /\ inSpeech' = FALSE
    /\ start' = 0 /\ flags' = <<>> /\ voiced' = 0 /\ silence' = 0

SegmenterInit ==
    /\ frames = <<>> /\ preRoll = <<>> /\ run = 0 /\ inSpeech = FALSE
    /\ start = 0 /\ flags = <<>> /\ voiced = 0 /\ silence = 0 /\ segments = <<>>

VoicedIn(s) == Cardinality({i \in DOMAIN s : s[i]})

LastOf(s, n) == SubSeq(s, IF Len(s) > n THEN Len(s) - n + 1 ELSE 1, Len(s))

\* finish: too little speech is dropped.
Finished(s, first, count) ==
    segments' = Append(segments, [start |-> first, flags |-> s, sent |-> count >= MinVoicedFrames])

\* The ring keeps the frame itself and what of the pre-roll came before it.
IdleFrame(v) ==
    /\ ~inSpeech
    /\ LET kept == LastOf(Append(preRoll, v), PreRollFrames + 1)
           spoken == IF v THEN run + 1 ELSE 0
       IN IF spoken < OpenFrames
          THEN /\ preRoll' = kept /\ run' = spoken
               /\ UNCHANGED <<inSpeech, start, flags, voiced, silence>>
          ELSE /\ inSpeech' = TRUE
               /\ flags' = kept /\ start' = Len(frames) + 1 - Len(kept)
               /\ voiced' = spoken /\ silence' = 0
               /\ preRoll' = <<>> /\ run' = 0
    /\ UNCHANGED segments

\* Bug: the whole tail is credited as voiced.
CarryOverAllVoiced(s) ==
    LET tail == LastOf(s, OverlapFrames)
    IN /\ start' = start + Len(s) - Len(tail) /\ flags' = tail
       /\ voiced' = Len(tail) /\ silence' = 0
       /\ UNCHANGED <<preRoll, run, inSpeech>>

\* A cut in the middle of speech: the tail starts the next segment, and only
\* its voiced frames count for it.
CarryOver(s) ==
    LET tail == LastOf(s, OverlapFrames)
    IN /\ start' = start + Len(s) - Len(tail) /\ flags' = tail
       /\ voiced' = VoicedIn(tail) /\ silence' = 0
       /\ UNCHANGED <<preRoll, run, inSpeech>>

ActiveFrame(v) ==
    /\ inSpeech
    /\ LET s == Append(flags, v)
           heard == IF v THEN voiced + 1 ELSE voiced
           quiet == IF v THEN 0 ELSE silence + 1
       IN \/ quiet >= CloseFrames /\ Finished(s, start, heard) /\ Idle
          \/ /\ quiet < CloseFrames /\ Len(s) >= MaxSegmentFrames
             /\ Finished(s, start, heard) /\ CarryOver(s)
          \/ /\ quiet < CloseFrames /\ Len(s) < MaxSegmentFrames
             /\ flags' = s /\ voiced' = heard /\ silence' = quiet
             /\ UNCHANGED <<preRoll, run, inSpeech, start, segments>>

\* push: consume_frame of the next whole frame.
ConsumeFrame(v) ==
    /\ Len(frames) < MaxStream
    /\ frames' = Append(frames, v)
    /\ IdleFrame(v) \/ ActiveFrame(v)

Flush ==
    /\ inSpeech
    /\ Finished(flags, start, voiced) /\ Idle
    /\ UNCHANGED frames

ResetStream ==
    /\ frames # <<>>
    /\ Idle /\ frames' = <<>> /\ segments' = <<>>

SegmenterNext ==
    \/ \E v \in BOOLEAN : ConsumeFrame(v)
    \/ Flush \/ ResetStream

SegmenterSpec == SegmenterInit /\ [][SegmenterNext]_segmenterVars
-----------------------------------------------------------------------------
EndOf(g) == g.start + Len(g.flags)

\* The flags that travel with a segment are those of the very frames at its time
\* stamps, also after a cut carried a tail over and after the ring dropped a frame.
FlagsMatchTheStream ==
    /\ \A i \in 1..Len(segments) :
          segments[i].flags = SubSeq(frames, segments[i].start + 1, EndOf(segments[i]))
    /\ inSpeech => flags = SubSeq(frames, start + 1, start + Len(flags))

\* Speech that opened a segment is never lost: a segment follows the one before it
\* without a gap after a cut, with no more than the overlap twice, and it is dropped
\* by the gate only if it holds less speech than the gate asks for (the pre-roll and
\* what the cut before it had already sent aside); nothing is longer than the limit.
NoSpeechLost ==
    /\ \A i \in 1..Len(segments) :
          LET g == segments[i] IN
          /\ Len(g.flags) <= MaxSegmentFrames
          /\ g.sent => VoicedIn(g.flags) >= MinVoicedFrames
          /\ ~g.sent => VoicedIn(g.flags) < MinVoicedFrames + PreRollFrames
          /\ i > 1 => g.start >= EndOf(segments[i-1]) - OverlapFrames
    /\ inSpeech /\ segments # <<>> =>
          start >= EndOf(segments[Len(segments)]) - OverlapFrames
    \* a run of voiced frames long enough to open is in a segment, or in the open
    \* one; a flush may divide it
    /\ \A k \in OpenFrames..Len(frames) :
          (\A j \in k - OpenFrames + 1..k : frames[j]) =>
             \/ inSpeech /\ k > start
             \/ \E i \in 1..Len(segments) :
                   segments[i].start < k /\ k - OpenFrames < EndOf(segments[i])

SegmentsAreFaithful == FlagsMatchTheStream /\ NoSpeechLost
=============================================================================
