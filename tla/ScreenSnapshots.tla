-------------------------- MODULE ScreenSnapshots --------------------------
(***************************************************************************)
(* Snapshots of the focused window (gilb-a11y tree/snapshotter.rs,         *)
(* tree/cache.rs): focus changes queue up, lossily; the worker walks the   *)
(* window that is focused when it gets to one, and the cache of what was   *)
(* stored last per window decides whether the tree is worth a row.         *)
(*                                                                         *)
(* A tree is a number; two are alike when they differ by Threshold or      *)
(* less, as SimHashes do by their Hamming distance.  Time is counted in    *)
(* units of the cache's TTL.                                               *)
(***************************************************************************)
EXTENDS Integers, Sequences, FiniteSets

CONSTANTS Windows,       \* windows of one app, by title and URL
          MaxTree,       \* trees are 0 .. MaxTree
          Threshold,     \* HAMMING_THRESHOLD
          CacheEntries,  \* MAX_ENTRIES
          HopCapacity,   \* SNAPSHOT_CHANNEL_CAPACITY
          MaxTtls,       \* bound: TTLs that pass
          MaxHops,       \* bound: focus changes
          MaxRedraws     \* bound: changes of a window's tree

ASSUME SnapshotAssumption ==
  {CacheEntries, MaxTree, HopCapacity, MaxTtls, MaxHops, MaxRedraws} \subseteq Nat

Trees == 0 .. MaxTree
NoTree == [tree |-> -1, at |-> 0]
Alike(a, b) == a - b \in -Threshold .. Threshold

VARIABLES
  shown,        \* each window's tree, as it is on the screen
  inFocus,      \* the focused window
  hops,         \* the channel from the focus tick
  walked,       \* the tree the worker has walked: [window, tree], or NoWalk
  cache,        \* SnapshotCache: [tree, at] per window, NoTree for no entry
  rows,         \* the row stored last per window
  overlooked,   \* history: a tree was left out that no fresh row looks like
  ttls, hopsMade, redraws,
  rowLost       \* history: windows a decided row of which the full writer refused

NoWalk == [window |-> "none", tree |-> -1]
snapshotVars == <<shown, inFocus, hops, walked, cache, rows, overlooked, ttls,
                  hopsMade, redraws, rowLost>>

SnapshotInit ==
  /\ shown = [w \in Windows |-> 0] /\ inFocus \in Windows
  /\ hops = <<>> /\ walked = NoWalk
  /\ cache = [w \in Windows |-> NoTree] /\ rows = [w \in Windows |-> NoTree]
  /\ overlooked = FALSE
  /\ ttls = 0 /\ hopsMade = 0 /\ redraws = 0 /\ rowLost = {}

(* The window's content changes, by little or by much.                     *)
Redraw ==
  /\ redraws < MaxRedraws
  /\ redraws' = redraws + 1
  /\ \E t \in Trees \ {shown[inFocus]} : shown' = [shown EXCEPT ![inFocus] = t]
  /\ UNCHANGED <<inFocus, hops, walked, cache, rows, overlooked, ttls, hopsMade, rowLost>>

TtlPasses ==
  /\ ttls < MaxTtls
  /\ ttls' = ttls + 1
  /\ UNCHANGED <<shown, inFocus, hops, walked, cache, rows, overlooked, hopsMade,
                 redraws, rowLost>>

(* The focus tick's try_send: a full channel drops the hop.                *)
FocusHop ==
  /\ hopsMade < MaxHops
  /\ hopsMade' = hopsMade + 1
  /\ inFocus' \in Windows
  /\ hops' = IF Len(hops) < HopCapacity THEN Append(hops, inFocus') ELSE hops
  /\ UNCHANGED <<shown, walked, cache, rows, overlooked, ttls, redraws, rowLost>>

(* walk_focused_window: whatever window the app has focused now.           *)
FocusedTree == shown[inFocus]

(* walk_and_serialize: the window focused by now, under the name of the    *)
(* one the hop was about; there may be nothing to walk.                    *)
Walk ==
  /\ walked = NoWalk /\ hops # <<>>
  /\ hops' = Tail(hops)
  /\ walked' \in {NoWalk, [window |-> Head(hops), tree |-> FocusedTree]}
  /\ UNCHANGED <<shown, inFocus, cache, rows, overlooked, ttls, hopsMade, redraws, rowLost>>

(* evict_if_full: past its capacity the cache forgets the entry stored     *)
(* longest ago, whichever of those stored at once.                         *)
Evictions(entries) ==
  LET held == {w \in Windows : entries[w] # NoTree}
      oldest == {w \in held : \A x \in held : entries[w].at <= entries[x].at}
  IN  IF Cardinality(held) <= CacheEntries THEN {entries}
      ELSE {[entries EXCEPT ![w] = NoTree] : w \in oldest}

(* should_store: no entry, another tree, or an entry past its TTL.         *)
ShouldStore(w, tree) ==
  \/ cache[w] = NoTree
  \/ ~Alike(cache[w].tree, tree)
  \/ ttls - cache[w].at >= 1

HasFreshRow(w, tree) ==
  w \in rowLost \/ (rows[w].at = ttls /\ Alike(rows[w].tree, tree))

(* Mutant: the entry follows what was seen last, stored or not.            *)
SkipAndRemember ==
  /\ walked # NoWalk /\ ~ShouldStore(walked.window, walked.tree)
  /\ walked' = NoWalk
  /\ cache' = [cache EXCEPT ![walked.window].tree = walked.tree]
  /\ overlooked' = (overlooked \/ ~HasFreshRow(walked.window, walked.tree))
  /\ UNCHANGED <<shown, inFocus, hops, rows, ttls, hopsMade, redraws, rowLost>>

Skip ==
  /\ walked # NoWalk /\ ~ShouldStore(walked.window, walked.tree)
  /\ walked' = NoWalk
  /\ overlooked' = (overlooked \/ ~HasFreshRow(walked.window, walked.tree))
  /\ UNCHANGED <<shown, inFocus, hops, cache, rows, ttls, hopsMade, redraws, rowLost>>

(* A row is decided on, the cache remembers it, and only then does         *)
(* try_send find out whether the writer has room for it.                   *)
Store ==
  /\ walked # NoWalk /\ ShouldStore(walked.window, walked.tree)
  /\ walked' = NoWalk
  /\ LET entry == [tree |-> walked.tree, at |-> ttls]
     IN  /\ cache' \in Evictions([cache EXCEPT ![walked.window] = entry])
         /\ \/ /\ rows' = [rows EXCEPT ![walked.window] = entry]
               /\ rowLost' = rowLost \ {walked.window}
            \/ rowLost' = rowLost \cup {walked.window} /\ UNCHANGED rows
  /\ UNCHANGED <<shown, inFocus, hops, overlooked, ttls, hopsMade, redraws>>

SnapshotNext ==
  \/ Redraw \/ TtlPasses \/ FocusHop \/ Walk \/ Skip \/ Store

SnapshotSpec == SnapshotInit /\ [][SnapshotNext]_snapshotVars

-----------------------------------------------------------------------------
Stored == [tree : Trees, at : 0 .. MaxTtls] \cup {NoTree}

(* The types of the variables.                                             *)
SnapshotTypeOK ==
  /\ shown \in [Windows -> Trees] /\ inFocus \in Windows
  /\ Len(hops) <= HopCapacity
  /\ walked \in [window : Windows, tree : Trees] \cup {NoWalk}
  /\ cache \in [Windows -> Stored] /\ rows \in [Windows -> Stored]
  /\ ttls \in 0 .. MaxTtls /\ hopsMade \in 0 .. MaxHops /\ redraws \in 0 .. MaxRedraws
  /\ rowLost \subseteq Windows /\ overlooked \in BOOLEAN

(* A screen is left out only when a fresh row of its window looks like it: *)
(* a window that drifts a little at a time is stored again once it has     *)
(* drifted far, an evicted one as soon as it is seen.  The cache agrees    *)
(* with the rows and stays within its bound.  The exception is a row the   *)
(* full writer refused after the cache had taken it, although              *)
(* snapshotter.rs orders its steps so that no entry is "stored without a   *)
(* row landing".                                                           *)
ScreensAreSampled ==
  /\ ~overlooked
  /\ \A w \in Windows : cache[w] # NoTree /\ w \notin rowLost => cache[w] = rows[w]
  /\ Cardinality({w \in Windows : cache[w] # NoTree}) <= CacheEntries
=============================================================================
