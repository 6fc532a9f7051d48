---------------------------- MODULE AssistPanel ----------------------------
(***************************************************************************)
(* The assist overlay and its journal (crates/gilb-shell-tauri/src/assist: *)
(* window.rs, journal.rs and the two listeners of mod.rs): the boundary    *)
(* task that opens and closes the journal with a recording, the loop that  *)
(* shows and journals the engine's suggestions, the user's questions, and  *)
(* the pool threads that write each entry.                                 *)
(*                                                                         *)
(* An entry is its stamp: the clock ticks at every journal() call.         *)
(***************************************************************************)
EXTENDS Integers, Sequences, SequencesExt

CONSTANTS MaxPanelMeetings,  \* bound: recordings armed
          MaxEntries    \* bound: questions and suggestions

ASSUME PanelAssumption == MaxPanelMeetings \in Nat /\ MaxEntries \in Nat

VARIABLES
  journal,          \* AssistState.journal: [meeting, entries], meeting 0 for none
  pool,             \* record() calls waiting for a pool thread
  writing,          \* the meeting whose .txt is still to be written, or 0
  json,             \* assist.json of each meeting
  text,             \* assist.txt of each meeting
  entryClock,       \* entries stamped so far
  recordingsArmed,  \* recordings armed so far
  toOpen,           \* the meeting whose journal the boundary task is to open, or 0
  visible,          \* the panel is on screen
  suppressed,       \* auto_show_suppressed
  showing,          \* the event loop has checked `suppressed` and is to show
  hiding,           \* a hide is between the window and the flag
  crossed           \* history: a hide and a show went through each other

journalVars == <<journal, writing, json, text>>
panelVars == <<visible, suppressed, showing, hiding, crossed>>
assistPanelVars == <<journal, pool, writing, json, text, entryClock,
                     recordingsArmed, toOpen, visible, suppressed, showing, hiding,
                     crossed>>

PanelMeetings == 1 .. MaxPanelMeetings
NoJournal == [meeting |-> 0, entries |-> <<>>]

AssistPanelInit ==
  /\ journal = NoJournal
  /\ pool = {} /\ writing = 0
  /\ json = [m \in PanelMeetings |-> <<>>] /\ text = json
  /\ entryClock = 0 /\ recordingsArmed = 0 /\ toOpen = 0
  /\ visible = FALSE /\ suppressed = FALSE
  /\ showing = FALSE /\ hiding = FALSE /\ crossed = FALSE

(* Armed: the hide of the last call is forgotten and the panel comes up ...*)
PanelArmed ==
  /\ recordingsArmed < MaxPanelMeetings /\ toOpen = 0
  /\ recordingsArmed' = recordingsArmed + 1 /\ toOpen' = recordingsArmed + 1
  /\ suppressed' = FALSE /\ visible' = TRUE
  /\ crossed' = hiding
  /\ UNCHANGED <<journalVars, pool, entryClock, showing, hiding>>

(* ... then open_journal, which waits for a pool thread that is writing.   *)
OpenJournal ==
  /\ toOpen # 0 /\ writing = 0
  /\ journal' = [meeting |-> toOpen, entries |-> <<>>]
  /\ toOpen' = 0
  /\ UNCHANGED <<pool, writing, json, text, entryClock, recordingsArmed, panelVars>>

(* Cancelled: close_journal.                                               *)
CloseJournal ==
  /\ recordingsArmed > 0 /\ toOpen = 0 /\ writing = 0
  /\ journal' = NoJournal
  /\ UNCHANGED <<pool, writing, json, text, entryClock, recordingsArmed, toOpen,
                 panelVars>>

(* journal(): stamped by the caller, handed to the blocking pool.          *)
Stamp ==
  /\ entryClock < MaxEntries
  /\ entryClock' = entryClock + 1
  /\ pool' = pool \cup {entryClock + 1}

(* assist_ask journals the question before it is sent.                     *)
AskQuestion ==
  /\ Stamp
  /\ UNCHANGED <<journalVars, recordingsArmed, toOpen, panelVars>>

(* AssistEvent::Update: journalled; shown unless the user hid the panel.   *)
Suggest ==
  /\ ~showing
  /\ Stamp
  /\ showing' = ~suppressed
  /\ crossed' = (crossed \/ (hiding /\ ~suppressed))
  /\ UNCHANGED <<journalVars, recordingsArmed, toOpen, visible, suppressed, hiding>>

ShowSuggestion ==
  /\ showing
  /\ showing' = FALSE /\ visible' = TRUE
  /\ UNCHANGED <<journalVars, pool, entryClock, recordingsArmed, toOpen, suppressed,
                 hiding, crossed>>

(* sort_by_key on the stamp, which no two entries share.                   *)
Ascending(s) ==
  CHOOSE q \in [1 .. Len(s) -> ToSet(s)] :
    ToSet(q) = ToSet(s) /\ \A i, j \in 1 .. Len(s) : i < j => q[i] < q[j]

(* Mutant: entries are filed in the order the pool threads get to them.    *)
RecordUnsorted(e) ==
  /\ e \in pool /\ writing = 0
  /\ pool' = pool \ {e}
  /\ \/ /\ journal.meeting # 0
        /\ journal' = [journal EXCEPT !.entries = Append(@, e)]
        /\ json' = [json EXCEPT ![journal.meeting] = journal'.entries]
        /\ writing' = journal.meeting
     \/ journal.entries = <<>> /\ UNCHANGED <<journal, json, writing>>
  /\ UNCHANGED <<text, entryClock, recordingsArmed, toOpen, panelVars>>

(* record: the entry goes to the meeting that is open when a thread gets   *)
(* to it, or nowhere; a meeting whose folder is not recorded yet drops it. *)
(* The list is sorted by stamp and both files rewritten from it.           *)
Record(e) ==
  /\ e \in pool /\ writing = 0
  /\ pool' = pool \ {e}
  /\ \/ /\ journal.meeting # 0
        /\ journal' = [journal EXCEPT !.entries = Ascending(Append(@, e))]
        /\ json' = [json EXCEPT ![journal.meeting] = journal'.entries]
        /\ writing' = journal.meeting
     \/ journal.entries = <<>> /\ UNCHANGED <<journal, json, writing>>
  /\ UNCHANGED <<text, entryClock, recordingsArmed, toOpen, panelVars>>

WriteText ==
  /\ writing # 0
  /\ text' = [text EXCEPT ![writing] = journal.entries]
  /\ writing' = 0
  /\ UNCHANGED <<journal, pool, json, entryClock, recordingsArmed, toOpen,
                 panelVars>>

(* assist_hide and the hotkey on a visible panel: the window first, the    *)
(* flag second.                                                            *)
HidePanel ==
  /\ visible /\ ~hiding
  /\ visible' = FALSE /\ hiding' = TRUE
  /\ crossed' = showing
  /\ UNCHANGED <<journalVars, pool, entryClock, recordingsArmed, toOpen, suppressed,
                 showing>>

RememberHide ==
  /\ hiding
  /\ suppressed' = TRUE /\ hiding' = FALSE
  /\ UNCHANGED <<journalVars, pool, entryClock, recordingsArmed, toOpen, visible,
                 showing, crossed>>

(* The hotkey on a hidden panel: reopening is consent to be shown more.    *)
ReopenPanel ==
  /\ ~visible /\ ~hiding
  /\ suppressed' = FALSE /\ visible' = TRUE
  /\ UNCHANGED <<journalVars, pool, entryClock, recordingsArmed, toOpen, showing,
                 hiding, crossed>>

AssistPanelNext ==
  \/ PanelArmed \/ OpenJournal \/ CloseJournal
  \/ AskQuestion \/ Suggest \/ ShowSuggestion
  \/ \E e \in pool : Record(e)
  \/ WriteText
  \/ HidePanel \/ RememberHide \/ ReopenPanel

AssistPanelSpec == AssistPanelInit /\ [][AssistPanelNext]_assistPanelVars

-----------------------------------------------------------------------------
(* The types of the variables.                                             *)
AssistPanelTypeOK ==
  /\ journal.meeting \in 0 .. MaxPanelMeetings
  /\ journal.entries \in Seq(1 .. MaxEntries)
  /\ entryClock \in 0 .. MaxEntries
  /\ pool \subseteq 1 .. MaxEntries
  /\ writing \in 0 .. MaxPanelMeetings
  /\ recordingsArmed \in 0 .. MaxPanelMeetings /\ toOpen \in 0 .. MaxPanelMeetings
  /\ DOMAIN json = PanelMeetings /\ DOMAIN text = PanelMeetings
  /\ \A v \in {visible, suppressed, showing, hiding, crossed} : v \in BOOLEAN

(* Whatever order the pool gets to them in, the entries of a meeting are   *)
(* on file once each and in the order the user saw them; the two files say *)
(* the same, the text one entry behind while it is being written; and an   *)
(* entry is in the file of one meeting at most (journal.rs: "rewriting     *)
(* both from one list is what keeps them from disagreeing").               *)
JournalIsInOrder ==
  /\ \A m \in PanelMeetings :
       /\ \A i, j \in DOMAIN json[m] : i < j => json[m][i] < json[m][j]
       /\ writing # m => text[m] = json[m]
  /\ \A m, n \in PanelMeetings :
       m # n => ToSet(json[m]) \cap ToSet(json[n]) = {}

(* A panel the user has hidden stays hidden through every suggestion until *)
(* they reopen it or a meeting starts: only a hide and a show that crossed *)
(* leave it up (window.rs: "an explicit hide is remembered").              *)
HiddenStaysHidden == suppressed /\ ~hiding /\ ~crossed => ~visible

PanelKeepsItsWord == JournalIsInOrder /\ HiddenStaysHidden
=============================================================================
