-------------------------- MODULE MCMeetingPipeline --------------------------
(* Small instances of MeetingPipeline for TLC: ids 1, 2, ... and 0 for none. *)
EXTENDS MeetingPipeline
=============================================================================
