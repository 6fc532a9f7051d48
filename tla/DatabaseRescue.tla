--------------------------- MODULE DatabaseRescue ---------------------------
(***************************************************************************)
(* Opening the database at launch (gilb-db open_db, migrate,               *)
(* archive_incompatible_db; the app's build_app_state): an older schema is *)
(* migrated; a history this binary does not know is moved aside, the main  *)
(* file first and its write-ahead log after it, and a fresh database takes *)
(* its place.  The app may die anywhere and be replaced by another version *)
(* while it is down.                                                       *)
(*                                                                         *)
(* A database is a generation; a file is the generation it belongs to, its *)
(* schema and the commits it holds.                                        *)
(***************************************************************************)
EXTENDS Integers, FiniteSets

CONSTANTS Versions,       \* of the app; a version knows the schemas up to it
          MaxCommits,     \* bound: transactions
          MaxLaunches,    \* bound: launches
          MaxSeconds      \* bound: seconds that pass

ASSUME VersionsAreNumbers == Versions \subseteq Nat \ {0}
ASSUME RescueAssumption ==
  MaxCommits \in Nat /\ MaxLaunches \in Nat \ {0} /\ MaxSeconds \in Nat

NoFile == [gen |-> 0, schema |-> 0, commits |-> {}]
Slots == (0 .. MaxSeconds) \X (1 .. MaxLaunches)   \* an archive's stamp and counter

VARIABLES
  binary,     \* the version installed
  main,       \* db.sqlite
  wal,        \* db.sqlite-wal
  archives,   \* Slots -> [main, wal]
  dbStage,    \* "down", "opening", "archive", "archive_wal", "retry", "up"
  slot,       \* the archive being made
  second,     \* the wall clock
  commits,    \* transactions committed so far
  launches,
  halfMoved   \* history: a rescue ended between its two renames

rescueVars == <<binary, main, wal, archives, dbStage, slot, second, commits,
                launches, halfMoved>>

NoArchive == [main |-> NoFile, wal |-> NoFile]

RescueInit ==
  /\ binary \in Versions
  /\ main = NoFile /\ wal = NoFile
  /\ archives = [s \in Slots |-> NoArchive]
  /\ dbStage = "down" /\ slot = <<0, 1>>
  /\ second = 0 /\ commits = 0 /\ launches = 0 /\ halfMoved = FALSE

(***************************************************************************)
(* Between runs                                                            *)
(***************************************************************************)
InstallVersion ==
  /\ dbStage = "down"
  /\ \E v \in Versions \ {binary} : binary' = v
  /\ UNCHANGED <<main, wal, archives, dbStage, slot, second, commits, launches,
                 halfMoved>>

SecondPasses ==
  /\ second < MaxSeconds
  /\ second' = second + 1
  /\ UNCHANGED <<binary, main, wal, archives, dbStage, slot, commits, launches,
                 halfMoved>>

StartApp ==
  /\ dbStage = "down" /\ launches < MaxLaunches
  /\ launches' = launches + 1
  /\ dbStage' = "opening"
  /\ UNCHANGED <<binary, main, wal, archives, slot, second, commits, halfMoved>>

(* The app dies, or gives up: the open fails for another reason, a rename  *)
(* fails, or the retry does.  Its files stay.                              *)
AppEnds ==
  /\ dbStage # "down" /\ dbStage' = "down"
  /\ halfMoved' = (halfMoved \/ (dbStage = "archive_wal" /\ wal # NoFile))
  /\ UNCHANGED <<binary, main, wal, archives, slot, second, commits, launches>>

(***************************************************************************)
(* open_db                                                                 *)
(***************************************************************************)
(* create_if_missing: a file of a generation of its own.                   *)
Opened ==
  IF main # NoFile THEN main
  ELSE [gen |-> launches, schema |-> 0, commits |-> {}]

(* migrate: a schema this version knows is brought up to it, unless the    *)
(* migration fails to apply.                                               *)
OpenDb ==
  /\ dbStage \in {"opening", "retry"} /\ Opened.schema <= binary
  /\ main' = [Opened EXCEPT !.schema = binary]
  /\ dbStage' = "up"
  /\ UNCHANGED <<binary, wal, archives, slot, second, commits, launches, halfMoved>>

(* is_migrate_error: modified, unknown, or failed to apply.                *)
MigrateFails ==
  /\ dbStage = "opening" /\ main # NoFile
  /\ main.schema # binary
  /\ dbStage' = "archive"
  /\ UNCHANGED <<binary, main, wal, archives, slot, second, commits, launches,
                 halfMoved>>

(***************************************************************************)
(* archive_incompatible_db                                                 *)
(***************************************************************************)
(* The first name of this second that no archive has.                      *)
FreeSlot ==
  CHOOSE s \in Slots :
    /\ s[1] = second /\ archives[s].main = NoFile
    /\ \A n \in 1 .. (s[2] - 1) : archives[<<second, n>>].main # NoFile

ArchiveMain ==
  /\ dbStage = "archive"
  /\ slot' = FreeSlot
  /\ archives' = [archives EXCEPT ![FreeSlot].main = main]
  /\ main' = NoFile
  /\ dbStage' = "archive_wal"
  /\ UNCHANGED <<binary, wal, second, commits, launches, halfMoved>>

(* Mutant: the main file is all there is to move.                          *)
ArchiveWalForgotten ==
  /\ dbStage = "archive_wal"
  /\ dbStage' = "retry"
  /\ UNCHANGED <<binary, main, wal, archives, slot, second, commits, launches,
                 halfMoved>>

ArchiveWal ==
  /\ dbStage = "archive_wal"
  /\ archives' = [archives EXCEPT ![slot].wal = wal]
  /\ wal' = NoFile
  /\ dbStage' = "retry"
  /\ UNCHANGED <<binary, main, slot, second, commits, launches, halfMoved>>

(***************************************************************************)
(* The database in use                                                     *)
(***************************************************************************)
(* WAL mode: a commit is in the log until a checkpoint; SQLite itself      *)
(* keeps a stray log of another generation from being read.                *)
Commit ==
  /\ dbStage = "up" /\ commits < MaxCommits
  /\ commits' = commits + 1
  /\ LET log == IF wal.gen = main.gen THEN wal.commits ELSE {}
     IN  wal' = [gen |-> main.gen, schema |-> 0, commits |-> log \cup {commits + 1}]
  /\ UNCHANGED <<binary, main, archives, dbStage, slot, second, launches, halfMoved>>

(* wal_autocheckpoint, and the last connection's close.                    *)
Checkpoint ==
  /\ dbStage = "up" /\ wal.gen = main.gen
  /\ main' = [main EXCEPT !.commits = @ \cup wal.commits]
  /\ wal' = NoFile
  /\ UNCHANGED <<binary, archives, dbStage, slot, second, commits, launches, halfMoved>>

RescueNext ==
  \/ InstallVersion \/ SecondPasses \/ StartApp \/ AppEnds
  \/ OpenDb \/ MigrateFails
  \/ ArchiveMain \/ ArchiveWal
  \/ Commit \/ Checkpoint

RescueSpec == RescueInit /\ [][RescueNext]_rescueVars

-----------------------------------------------------------------------------
Files == [gen : 0 .. MaxLaunches, schema : Versions \cup {0}, commits : SUBSET (1 .. MaxCommits)]

(* The types of the variables.                                             *)
RescueTypeOK ==
  /\ binary \in Versions /\ main \in Files /\ wal \in Files
  /\ \A s \in Slots : archives[s].main \in Files /\ archives[s].wal \in Files
  /\ dbStage \in {"down", "opening", "archive", "archive_wal", "retry", "up"}
  /\ slot \in Slots /\ second \in 0 .. MaxSeconds
  /\ commits \in 0 .. MaxCommits /\ launches \in 0 .. MaxLaunches
  /\ halfMoved \in BOOLEAN

(* What a database holds when it is opened with the log beside it.         *)
Readable(m, w) == m.commits \cup (IF w.gen = m.gen THEN w.commits ELSE {})

(* Nothing the user recorded is ever lost to a rescue, however many        *)
(* versions come and go and however soon after one another: each commit is *)
(* in the database or in an archive that reads as it stood ("so the        *)
(* archived copy stays openable as-is ... nothing is deleted").  The       *)
(* exception is a launch that ended between the two renames.               *)
EveryCommitIsKept ==
  ~halfMoved /\ dbStage # "archive_wal" =>
    1 .. commits = Readable(main, wal)
                     \cup UNION {Readable(archives[s].main, archives[s].wal) : s \in Slots}

(* And the log beside a database is that database's own.                   *)
LogMatchesDatabase ==
  ~halfMoved /\ dbStage = "up" /\ wal # NoFile => wal.gen = main.gen

RescueKeepsEverything == EveryCommitIsKept /\ LogMatchesDatabase
=============================================================================
