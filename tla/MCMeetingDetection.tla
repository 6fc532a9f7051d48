-------------------------- MODULE MCMeetingDetection -------------------------
(* Small instances of MeetingDetection for TLC. *)
EXTENDS MeetingDetection
=============================================================================
