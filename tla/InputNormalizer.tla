-------------------------- MODULE InputNormalizer --------------------------
(***************************************************************************)
(* The normalizer of gilb-a11y (normalizer.rs, text_buffer.rs, focus.rs)   *)
(* between the input tap, the element resolver (ax_worker.rs, uia.rs) and  *)
(* the engine's writer: one task that turns raw inputs into actions,       *)
(* holding typed characters back in a debounce buffer, against a shared    *)
(* focus snapshot that it and the resolver both load, change and store.    *)
(*                                                                         *)
(* An input is its number; a snapshot is the app it names and whether the  *)
(* focused element is secure.  The 500 ms, 300 ms and 160 ms timers may    *)
(* fire at any point.                                                      *)
(***************************************************************************)
EXTENDS Integers, Sequences, FiniteSets, SequencesExt

CONSTANTS Apps,         \* foreground apps
          Excluded,     \* the ones nothing is recorded from
          RawCapacity,  \* of the channel from the input tap
          QueueCapacity,  \* of the resolver's job queue
          MaxInputs,    \* bound: raw inputs and clipboard changes
          MaxSwitches   \* bound: app switches

ASSUME ExcludedAreApps == Excluded \subseteq Apps
ASSUME InputsAreBounded == {RawCapacity, QueueCapacity, MaxInputs, MaxSwitches} \subseteq Nat

Snapshots == [app : Apps, secure : BOOLEAN]
NoStore == [app |-> "", secure |-> FALSE]

VARIABLES
  front,            \* the app really in front
  focus,            \* FocusState: the shared snapshot
  raw,              \* the raw channel: [id, kind]
  clips,            \* the clipboard channel
  buffer,           \* TextBuffer: <<id, the snapshot it was pushed under>> each
  masked,           \* TextBuffer.masked
  inputRows,        \* actions handed to the writer
  drops,            \* lossy actions the full writer channel refused, unreported
  normalizerStage,  \* "run", "update" (inside update_app), "resolve", "stopped"
  update,           \* the snapshot update_app is about to store
  click,            \* the click being resolved, or 0
  resolverJobs,     \* clicks waiting for the resolver
  resolver,         \* the snapshot set_focused_role is about to store, or NoStore
  inputs,           \* inputs so far
  switches,         \* app switches so far
  typed,            \* history: the characters pushed into the buffer
  clobbered         \* history: a store overwrote a newer snapshot

worldVars == <<front, inputs, switches>>
typingVars == <<buffer, masked, typed>>
normalizerVars == <<front, focus, raw, clips, buffer, masked, inputRows, drops,
                    normalizerStage, update, click, resolverJobs, resolver, inputs, switches,
                    typed, clobbered>>

NormalizerInit ==
  /\ front \in Apps
  /\ focus = [app |-> front, secure |-> FALSE]
  /\ raw = <<>> /\ clips = 0
  /\ buffer = <<>> /\ masked = FALSE
  /\ inputRows = <<>> /\ drops = 0
  /\ normalizerStage = "run" /\ update = focus /\ click = 0 /\ resolver = NoStore /\ resolverJobs = 0
  /\ inputs = 0 /\ switches = 0
  /\ typed = {} /\ clobbered = FALSE

(***************************************************************************)
(* The sources                                                             *)
(***************************************************************************)
(* The tap's callback: a full channel drops the input.                     *)
RawInput ==
  /\ inputs < MaxInputs
  /\ inputs' = inputs + 1
  /\ \E kind \in {"char", "key", "click", "scroll"} :
       raw' = IF Len(raw) < RawCapacity
                THEN Append(raw, [id |-> inputs + 1, kind |-> kind]) ELSE raw
  /\ UNCHANGED <<front, switches, focus, clips, typingVars, inputRows,
                 drops, normalizerStage, update, click, resolverJobs, resolver, clobbered>>

SwitchApp ==
  /\ switches < MaxSwitches
  /\ switches' = switches + 1
  /\ \E a \in Apps \ {front} : front' = a
  /\ UNCHANGED <<inputs, focus, raw, clips, typingVars, inputRows,
                 drops, normalizerStage, update, click, resolverJobs, resolver, clobbered>>

ClipboardPolled ==
  /\ inputs < MaxInputs
  /\ inputs' = inputs + 1 /\ clips' = clips + 1
  /\ UNCHANGED <<front, switches, focus, raw, typingVars, inputRows,
                 drops, normalizerStage, update, click, resolverJobs, resolver, clobbered>>

(***************************************************************************)
(* Emitting                                                                *)
(***************************************************************************)
Ids(b) == [i \in DOMAIN b |-> b[i][1]]

(* Mutant: the field's state at the flush decides alone.                   *)
TextOfNow(b, m, snap) ==
  [kind |-> "text", ids |-> Ids(b), app |-> snap.app,
   masked |-> snap.secure, pushed |-> ToSet(b)]

(* emit_text: masked when any push was, or when the field is secure now.   *)
TextOf(b, m, snap) ==
  [kind |-> "text", ids |-> Ids(b), app |-> snap.app,
   masked |-> m \/ snap.secure, pushed |-> ToSet(b)]

(* flush_text: what it adds to the writer under the current snapshot.      *)
FlushedText ==
  IF buffer = <<>> \/ focus.app \in Excluded THEN <<>>
  ELSE <<TextOf(buffer, masked, focus)>>

ResetBuffer == buffer' = <<>> /\ masked' = FALSE

(* emit_lossy: try_send, so a full writer loses the action and counts it.  *)
Lossy(prefix, kind, ids, app) ==
  \/ /\ inputRows' = prefix \o <<[kind |-> kind, ids |-> ids, app |-> app,
                                masked |-> FALSE, pushed |-> {}]>>
     /\ UNCHANGED drops
  \/ inputRows' = prefix /\ drops' = drops + 1

(***************************************************************************)
(* The task                                                                *)
(***************************************************************************)
TakeInput(kinds) ==
  /\ normalizerStage = "run" /\ raw # <<>> /\ Head(raw).kind \in kinds
  /\ raw' = Tail(raw)

(* handle_raw in an excluded app: nothing is recorded, and what is still   *)
(* buffered is flushed.                                                    *)
HandleExcluded ==
  /\ TakeInput({"char", "key", "click", "scroll"}) /\ focus.app \in Excluded
  /\ ResetBuffer
  /\ UNCHANGED <<worldVars, focus, clips, inputRows, drops, normalizerStage, update, click,
                 resolverJobs, resolver, typed, clobbered>>

HandleChar ==
  /\ TakeInput({"char"}) /\ focus.app \notin Excluded
  /\ buffer' = Append(buffer, <<Head(raw).id, focus>>)
  /\ masked' = (masked \/ focus.secure)
  /\ typed' = typed \cup {Head(raw).id}
  /\ UNCHANGED <<worldVars, focus, clips, inputRows, drops, normalizerStage, update, click,
                 resolverJobs, resolver, clobbered>>

(* Navigation keys, Backspace and Delete flush before they are recorded.   *)
HandleKey ==
  /\ TakeInput({"key"}) /\ focus.app \notin Excluded
  /\ ResetBuffer
  /\ Lossy(inputRows \o FlushedText, "key", <<Head(raw).id>>, focus.app)
  /\ UNCHANGED <<worldVars, focus, clips, normalizerStage, update, click, resolverJobs, resolver, typed,
                 clobbered>>

HandleScroll ==
  /\ TakeInput({"scroll"}) /\ focus.app \notin Excluded
  /\ Lossy(inputRows, "scroll", <<Head(raw).id>>, focus.app)
  /\ UNCHANGED <<worldVars, focus, clips, typingVars, normalizerStage, update, click,
                 resolverJobs, resolver, clobbered>>

(* A click flushes, asks the resolver - whose queue may be full - and      *)
(* waits for its answer for 160 ms at most.                                *)
HandleClick ==
  /\ TakeInput({"click"}) /\ focus.app \notin Excluded
  /\ ResetBuffer
  /\ inputRows' = inputRows \o FlushedText
  /\ click' = Head(raw).id
  /\ update' = focus
  /\ normalizerStage' = "resolve"
  /\ resolverJobs' = IF resolverJobs < QueueCapacity THEN resolverJobs + 1 ELSE resolverJobs
  /\ UNCHANGED <<worldVars, focus, clips, drops, resolver, typed, clobbered>>

(* The answer or the timeout: the click is recorded under the snapshot its *)
(* handling began with.                                                    *)
ClickResolved ==
  /\ normalizerStage = "resolve"
  /\ normalizerStage' = "run" /\ click' = 0
  /\ Lossy(inputRows, "click", <<click>>, update.app)
  /\ UNCHANGED <<worldVars, focus, raw, clips, typingVars, update, resolverJobs, resolver,
                 clobbered>>

(* The resolver: the element's role is read, then set_focused_role loads   *)
(* the snapshot and stores it changed.  It may find no element at all.     *)
ResolverLoads ==
  /\ resolver = NoStore /\ resolverJobs > 0
  /\ resolverJobs' = resolverJobs - 1
  /\ \/ \E s \in BOOLEAN : resolver' = [app |-> focus.app, secure |-> s]
     \/ UNCHANGED resolver
  /\ UNCHANGED <<worldVars, focus, raw, clips, typingVars, inputRows, drops,
                 normalizerStage, update, click, clobbered>>

ResolverStores ==
  /\ resolver # NoStore
  /\ focus' = resolver
  /\ clobbered' = (clobbered \/ resolver.app # focus.app)
  /\ resolver' = NoStore
  /\ UNCHANGED <<worldVars, raw, clips, typingVars, inputRows, drops, normalizerStage,
                 update, click, resolverJobs>>

(* frontmost_app, frontmost_app_with_window: asked twice a second.         *)
FrontmostApp == front

(* Mutant: the tick changes the snapshot first and flushes what was typed  *)
(* when it next has to.                                                    *)
FocusTickLate ==
  /\ normalizerStage = "run"
  /\ update' = [focus EXCEPT !.app = FrontmostApp]
  /\ normalizerStage' = "update"
  /\ UNCHANGED <<worldVars, focus, raw, clips, typingVars, inputRows, drops,
                 click, resolverJobs, resolver, clobbered>>

(* The focus tick: another app in front flushes the text typed so far and  *)
(* is recorded; update_app then loads the snapshot ...                     *)
FocusTick ==
  /\ normalizerStage = "run"
  /\ update' = [focus EXCEPT !.app = FrontmostApp]
  /\ normalizerStage' = "update"
  /\ IF FrontmostApp # focus.app
       THEN ResetBuffer /\ inputRows' = inputRows \o FlushedText
       ELSE UNCHANGED <<buffer, masked, inputRows>>
  /\ UNCHANGED <<worldVars, focus, raw, clips, drops, click, resolverJobs, resolver, typed,
                 clobbered>>

(* ... and stores it.                                                      *)
UpdateApp ==
  /\ normalizerStage = "update"
  /\ normalizerStage' = "run"
  /\ focus' = update
  /\ clobbered' = (clobbered \/ update.secure # focus.secure)
  /\ inputRows' = IF update.app = focus.app THEN inputRows
                ELSE Append(inputRows, [kind |-> "focus", ids |-> <<>>, app |-> update.app,
                                      masked |-> FALSE, pushed |-> {}])
  /\ UNCHANGED <<worldVars, raw, clips, typingVars, drops, update, click,
                 resolverJobs, resolver>>

(* The text tick: 300 ms after the last character.                         *)
TextTimeout ==
  /\ normalizerStage = "run" /\ buffer # <<>>
  /\ inputRows' = inputRows \o FlushedText
  /\ ResetBuffer
  /\ UNCHANGED <<worldVars, focus, raw, clips, drops, normalizerStage, update, click,
                 resolverJobs, resolver, typed, clobbered>>

ReportDrops ==
  /\ normalizerStage = "run" /\ drops > 0
  /\ drops' = 0
  /\ UNCHANGED <<worldVars, focus, raw, clips, typingVars, inputRows, normalizerStage,
                 update, click, resolverJobs, resolver, clobbered>>

HandleClipboard ==
  /\ normalizerStage = "run" /\ clips > 0
  /\ clips' = clips - 1
  /\ IF focus.app \in Excluded THEN UNCHANGED <<inputRows, drops>>
     ELSE Lossy(inputRows, "clipboard", <<>>, focus.app)
  /\ UNCHANGED <<worldVars, focus, raw, typingVars, normalizerStage, update, click,
                 resolverJobs, resolver, clobbered>>

(* Shutdown flushes; what is left in the channels is lost with them.       *)
StopNormalizer ==
  /\ normalizerStage = "run"
  /\ normalizerStage' = "stopped"
  /\ inputRows' = inputRows \o FlushedText
  /\ ResetBuffer
  /\ UNCHANGED <<worldVars, focus, raw, clips, drops, update, click, resolverJobs, resolver,
                 typed, clobbered>>

NormalizerNext ==
  \/ RawInput \/ SwitchApp \/ ClipboardPolled
  \/ HandleExcluded \/ HandleChar \/ HandleKey \/ HandleScroll
  \/ HandleClick \/ ClickResolved
  \/ ResolverLoads \/ ResolverStores
  \/ FocusTick \/ UpdateApp \/ TextTimeout \/ ReportDrops
  \/ HandleClipboard \/ StopNormalizer

NormalizerSpec == NormalizerInit /\ [][NormalizerNext]_normalizerVars

-----------------------------------------------------------------------------
(* The types of the variables.                                             *)
NormalizerTypeOK ==
  /\ front \in Apps /\ focus \in Snapshots /\ update \in Snapshots
  /\ Len(raw) <= RawCapacity /\ clips \in 0 .. MaxInputs
  /\ \A i \in DOMAIN buffer : buffer[i] \in (1 .. MaxInputs) \X Snapshots
  /\ masked \in BOOLEAN /\ drops \in Nat
  /\ normalizerStage \in {"run", "update", "resolve", "stopped"}
  /\ click \in 0 .. MaxInputs /\ resolverJobs \in 0 .. QueueCapacity
  /\ resolver \in Snapshots \cup {NoStore}
  /\ inputs \in 0 .. MaxInputs /\ switches \in 0 .. MaxSwitches
  /\ typed \subseteq 1 .. MaxInputs /\ clobbered \in BOOLEAN

Texts == {inputRows[i] : i \in {j \in DOMAIN inputRows : inputRows[j].kind = "text"}}
WrittenIds == FlattenSeq([i \in DOMAIN inputRows |-> inputRows[i].ids])

(* Inputs reach the writer at most once and in the order they were made:   *)
(* held-back text is written before the key or the click that came after.  *)
(* A scroll is the exception the code makes, it overtakes buffered text.   *)
InputsKeepTheirOrder ==
  LET Kept == FlattenSeq([i \in DOMAIN inputRows |->
                 IF inputRows[i].kind = "scroll" THEN <<>> ELSE inputRows[i].ids])
  IN  /\ \A i, j \in DOMAIN Kept : i < j => Kept[i] < Kept[j]
      /\ IsInjective(WrittenIds)

(* One character typed into a field known to be secure masks its whole     *)
(* burst, however the focus moves before the flush.                        *)
SecretsStayMasked ==
  \A t \in Texts : (\E p \in t.pushed : p[2].secure) => t.masked

(* A burst is recorded under the app its characters were typed into, never *)
(* under the next one, and never at all for an excluded app; and nothing   *)
(* typed elsewhere is lost - unless the resolver's store brought back an   *)
(* app the focus tick had just replaced.                                   *)
TextBelongsToItsApp ==
  /\ \A t \in Texts :
       /\ t.app \notin Excluded
       /\ clobbered \/ \A p \in t.pushed : p[2].app = t.app
  /\ normalizerStage = "stopped" /\ ~clobbered => typed \subseteq ToSet(WrittenIds)

TypingIsRecordedFaithfully ==
  InputsKeepTheirOrder /\ SecretsStayMasked /\ TextBelongsToItsApp
=============================================================================
