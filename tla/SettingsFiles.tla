---------------------------- MODULE SettingsFiles ----------------------------
(***************************************************************************)
(* What crates/gilb-config keeps on disk: the data directory an older      *)
(* install is moved into at launch, prefs.json under its process-wide      *)
(* lock, and credentials.json behind a temporary file and a rename.  The   *)
(* app may die between any two steps; every thread of it may change a      *)
(* preference or the credentials, and the analyzer, a process of its own,  *)
(* reads the credentials whenever it likes.                                *)
(***************************************************************************)
EXTENDS Integers, FiniteSets

CONSTANTS Fields,       \* preferences a command changes
          Writers,      \* threads of the app
          MaxWrites,    \* bound: updates of a file
          MaxDeaths     \* bound: times the app dies

NobodyWrites == "nobody"

ASSUME SettingsAssumption ==
  NobodyWrites \notin Writers /\ MaxWrites \in Nat /\ MaxDeaths \in Nat

Defaults == [f \in Fields |-> 0]
Torn == [f \in Fields |-> -1]      \* truncated, not yet written in full
NoCredentials == [version |-> 0, whole |-> TRUE]
Places == {"hidden", "lowercase", "target"}

VARIABLES
  dirs,       \* the data directories there are
  history,    \* history: the directory that holds what the user has recorded
  launched,   \* the app is past its migration
  prefs,      \* prefs.json: a value per field (0 the default), or Torn
  prefsLock,  \* the writer that holds PREFERENCES_LOCK, or none
  askedFor,   \* history: what the commands that returned asked for
  creds,      \* credentials.json: [version, whole], version 0 for none
  temp,       \* each writer's temporary file, or NoCredentials
  newest,     \* history: the versions a save or a sign-out has put in place
  step,       \* where each writer is
  loaded,     \* the preferences a writer has read and changed
  writes, deaths

prefsVars == <<prefs, prefsLock, askedFor, loaded>>
credentialVars == <<creds, temp, newest>>
settingsVars == <<dirs, history, launched, prefs, prefsLock, askedFor,
                  creds, temp, newest, step, loaded, writes, deaths>>

SettingsInit ==
  /\ dirs \in SUBSET Places /\ history \in dirs \cup {"nowhere"}
  /\ dirs # {} => history # "nowhere"
  /\ launched = FALSE
  /\ prefs = Defaults /\ askedFor = Defaults /\ prefsLock = NobodyWrites
  /\ creds = NoCredentials /\ newest = {0}
  /\ temp = [w \in Writers |-> NoCredentials]
  /\ step = [w \in Writers |-> "idle"]
  /\ loaded = [w \in Writers |-> Defaults]
  /\ writes = 0 /\ deaths = 0

At(w, here, there) == step[w] = here /\ step' = [step EXCEPT ![w] = there]

(***************************************************************************)
(* Launch and death                                                        *)
(***************************************************************************)
(* rename_into_place: a rename, or nothing at all; a target that holds     *)
(* something refuses it.                                                   *)
Move(from) ==
  \/ /\ "target" \notin dirs
     /\ dirs' = (dirs \ {from}) \cup {"target"}
     /\ history' = IF history = from THEN "target" ELSE history
  \/ UNCHANGED <<dirs, history>>

(* migrate_legacy_data_dir, then ensure_data_dir on the way up.  A sibling *)
(* that differs in case only goes first; a target that exists wins over    *)
(* the hidden directory.                                                   *)
Launch ==
  /\ ~launched /\ launched' = TRUE
  /\ IF "lowercase" \in dirs THEN Move("lowercase")
     ELSE IF "hidden" \in dirs /\ "target" \notin dirs THEN Move("hidden")
     ELSE UNCHANGED <<dirs, history>>
  /\ UNCHANGED <<prefsVars, credentialVars, step, writes, deaths>>

(* load_preferences: a file that does not parse reads as the defaults.     *)
ReadPrefs == IF prefs = Torn THEN Defaults ELSE prefs

(* The app dies: its locks and its threads are gone, its files stay (and   *)
(* its temporary files, which nobody reads again).                         *)
AppDied ==
  /\ launched /\ deaths < MaxDeaths
  /\ deaths' = deaths + 1 /\ launched' = FALSE
  /\ prefsLock' = NobodyWrites
  /\ askedFor' = ReadPrefs
  /\ step' = [w \in Writers |-> "idle"]
  /\ temp' = [w \in Writers |-> NoCredentials]
  /\ loaded' = [w \in Writers |-> Defaults]
  /\ UNCHANGED <<dirs, history, prefs, creds, newest, writes>>

(***************************************************************************)
(* Preferences                                                             *)
(***************************************************************************)
(* Mutant: load and save take the lock each, not the update as a whole.    *)
LoadPrefsUnlocked(w) ==
  /\ launched /\ writes < MaxWrites
  /\ At(w, "idle", "truncate")
  /\ writes' = writes + 1
  /\ \E f \in Fields : /\ loaded' = [loaded EXCEPT ![w] = [ReadPrefs EXCEPT ![f] = writes + 1]]
                       /\ askedFor' = [askedFor EXCEPT ![f] = writes + 1]
  /\ UNCHANGED <<dirs, history, launched, prefs, prefsLock,
                 credentialVars, deaths>>

(* update_preferences: under the lock a fresh load is changed ...          *)
LoadPrefs(w) ==
  /\ launched /\ writes < MaxWrites
  /\ At(w, "idle", "truncate")
  /\ prefsLock = NobodyWrites /\ prefsLock' = w
  /\ writes' = writes + 1
  /\ \E f \in Fields : /\ loaded' = [loaded EXCEPT ![w] = [ReadPrefs EXCEPT ![f] = writes + 1]]
                       /\ askedFor' = [askedFor EXCEPT ![f] = writes + 1]
  /\ UNCHANGED <<dirs, history, launched, prefs, credentialVars,
                 deaths>>

(* ... and std::fs::write truncates the file before it writes it.          *)
TruncatePrefs(w) ==
  /\ At(w, "truncate", "write")
  /\ prefs' = Torn
  /\ UNCHANGED <<dirs, history, launched, prefsLock, askedFor, loaded,
                 credentialVars, writes, deaths>>

WritePrefs(w) ==
  /\ At(w, "write", "idle")
  /\ prefs' = loaded[w]
  /\ prefsLock' = NobodyWrites
  /\ UNCHANGED <<dirs, history, launched, askedFor, loaded,
                 credentialVars, writes, deaths>>

(***************************************************************************)
(* Credentials                                                             *)
(***************************************************************************)
(* write_secret_file: a temporary file of the writer's own, ...            *)
CreateTemp(w) ==
  /\ launched /\ writes < MaxWrites
  /\ At(w, "idle", "fill")
  /\ writes' = writes + 1
  /\ temp' = [temp EXCEPT ![w] = [version |-> writes + 1, whole |-> FALSE]]
  /\ UNCHANGED <<dirs, history, launched, prefsVars, creds, newest, deaths>>

(* Mutant: the rename does not wait for the data.                          *)
FillTempLater(w) ==
  /\ At(w, "fill", "rename")
  /\ UNCHANGED <<dirs, history, launched, prefsVars, credentialVars, writes, deaths>>

(* ... written and synced, or removed again, ...                           *)
FillTemp(w) ==
  /\ \/ At(w, "fill", "rename") /\ temp' = [temp EXCEPT ![w].whole = TRUE]
     \/ At(w, "fill", "idle") /\ temp' = [temp EXCEPT ![w] = NoCredentials]
  /\ UNCHANGED <<dirs, history, launched, prefsVars, creds, newest, writes, deaths>>

(* ... and renamed over the file, or removed when that fails.              *)
RenameTemp(w) ==
  /\ At(w, "rename", "idle")
  /\ \/ creds' = temp[w] /\ newest' = newest \cup {temp[w].version}
     \/ UNCHANGED <<creds, newest>>
  /\ temp' = [temp EXCEPT ![w] = NoCredentials]
  /\ UNCHANGED <<dirs, history, launched, prefsVars, writes, deaths>>

(* clear_credentials, on sign-out.                                         *)
ClearCredentials(w) ==
  /\ launched /\ step[w] = "idle" /\ creds # NoCredentials
  /\ creds' = NoCredentials
  /\ UNCHANGED <<dirs, history, launched, prefsVars, temp, newest, step, writes,
                 deaths>>

SettingsNext ==
  \/ Launch \/ AppDied
  \/ \E w \in Writers :
       \/ LoadPrefs(w) \/ TruncatePrefs(w) \/ WritePrefs(w)
       \/ CreateTemp(w) \/ FillTemp(w) \/ RenameTemp(w) \/ ClearCredentials(w)

SettingsSpec == SettingsInit /\ [][SettingsNext]_settingsVars

-----------------------------------------------------------------------------
(* The types of the variables.                                             *)
SettingsTypeOK ==
  /\ dirs \subseteq Places /\ history \in Places \cup {"nowhere"}
  /\ launched \in BOOLEAN
  /\ DOMAIN prefs = Fields /\ DOMAIN askedFor = Fields
  /\ prefsLock \in Writers \cup {NobodyWrites}
  /\ creds.version \in 0 .. MaxWrites /\ newest \subseteq 0 .. MaxWrites
  /\ step \in [Writers -> {"idle", "truncate", "write", "fill", "rename"}]
  /\ writes \in 0 .. MaxWrites /\ deaths \in 0 .. MaxDeaths

(* Updates of single preferences compose: with no update in flight the     *)
(* file says, of every field, what was last asked of it (lib.rs:           *)
(* "concurrent single-field updates can't lose each other's change").  A   *)
(* death between the truncation and the write resets them all, and what    *)
(* is asked from then on composes again.                                   *)
UpdatesCompose ==
  prefsLock = NobodyWrites /\ (\A w \in Writers : step[w] \notin {"truncate", "write"})
    => ReadPrefs = askedFor

(* credentials.json is at every moment absent or one version in full,      *)
(* whoever is writing and wherever the app died (write_secret_file: "a     *)
(* reader never observes a partial file").                                 *)
CredentialsAreWhole == creds.whole /\ creds.version \in newest

(* The directory with the user's recordings survives every launch.         *)
RecordingsAreKept == history # "nowhere" => history \in dirs

FilesSurvive == UpdatesCompose /\ CredentialsAreWhole /\ RecordingsAreKept
=============================================================================
