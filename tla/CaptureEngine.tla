---------------------------- MODULE CaptureEngine ----------------------------
(***************************************************************************)
(* Activity capture: Engine::start_capture and stop_capture, which hold    *)
(* the state mutex only at their ends, the capture a platform starts       *)
(* (normalizer task, snapshot worker, supervisor), and the batching        *)
(* database writer they feed through a bounded channel.                    *)
(*                                                                         *)
(* Each start call that gets as far as its INSERT has a session of its own,*)
(* and the session names the call, the capture, the channel and the        *)
(* writer.  Messages of a session are numbered in the order its channel    *)
(* accepts them.                                                           *)
(***************************************************************************)
EXTENDS Integers, Sequences, FiniteSets, SequencesExt

CONSTANTS
    Sessions,           \* start calls, and the sessions rows they insert
    NoSession,          \* Option::None
    ChannelCapacity,    \* ACTION_CHANNEL_CAPACITY
    BatchMax,           \* WRITER_BATCH_MAX
    MaxMessages,        \* bound: messages a channel accepts
    MaxFaults           \* bound: writes to the database that fail

ASSUME EngineAssumption ==
    /\ Sessions \subseteq Nat
    /\ NoSession \notin Sessions
    /\ ChannelCapacity \in Nat \ {0}
    /\ BatchMax \in Nat \ {0}
    /\ MaxMessages \in Nat
    /\ MaxFaults \in Nat

VARIABLES
    current,    \* EngineInner.state: the session whose handle it holds
    row,        \* sessions row: "absent", "open" or "stopped"
    start,      \* progress of the start call: "none", "checked", "starting",
                \*   "up", "done" or "failed"
    stop,       \* progress of the stop call: "none", "capture", "writer", "row"
    capture,    \* the normalizer's task and its supervisor: "off", "on",
                \*   "sending" (awaiting room), "lastSend" or "closing"
    told,       \* the capture's stop_tx was used or dropped
    late,       \* a snapshot worker outlived the supervisor
    overran,    \* it ever did
    writer,     \* "none", "run", "drain", "lastFlush" or "gone"
    writerTold, \* its shutdown sender was used or dropped
    channel,    \* messages accepted and not yet received
    buf,        \* the writer's buffer
    retry,      \* what is left of a failed batch, to be inserted row by row
    written,    \* rows, in the order they were inserted
    failed,     \* messages whose own insert failed
    sent,       \* messages accepted so far
    faults

startVars   == <<current, row, start, stop>>
captureVars == <<capture, told, late, overran>>
writerVars  == <<writer, writerTold, buf, retry, written, failed, faults>>
engineVars  == <<startVars, captureVars, writerVars, channel, sent>>

Messages == 1..MaxMessages

EngineTypeOK ==
    /\ current \in Sessions \cup {NoSession}
    /\ row \in [Sessions -> {"absent", "open", "stopped"}]
    /\ start \in [Sessions -> {"none", "checked", "starting", "up", "done", "failed"}]
    /\ stop \in [Sessions -> {"none", "capture", "writer", "row"}]
    /\ capture \in [Sessions -> {"off", "on", "sending", "lastSend", "closing"}]
    /\ {told, late, overran, writerTold} \subseteq [Sessions -> BOOLEAN]
    /\ writer \in [Sessions -> {"none", "run", "drain", "lastFlush", "gone"}]
    /\ {channel, buf, retry, written} \subseteq [Sessions -> Seq(Messages)]
    /\ \A s \in Sessions : Len(channel[s]) <= ChannelCapacity /\ Len(buf[s]) < BatchMax
    /\ failed \in [Sessions -> SUBSET Messages]
    /\ sent \in [Sessions -> 0..MaxMessages]
    /\ faults \in 0..MaxFaults

Init ==
    /\ current = NoSession
    /\ row = [s \in Sessions |-> "absent"]
    /\ start = [s \in Sessions |-> "none"]
    /\ stop = [s \in Sessions |-> "none"]
    /\ capture = [s \in Sessions |-> "off"]
    /\ told = [s \in Sessions |-> FALSE]
    /\ late = [s \in Sessions |-> FALSE]
    /\ overran = [s \in Sessions |-> FALSE]
    /\ writer = [s \in Sessions |-> "none"]
    /\ writerTold = [s \in Sessions |-> FALSE]
    /\ channel = [s \in Sessions |-> <<>>]
    /\ buf = [s \in Sessions |-> <<>>]
    /\ retry = [s \in Sessions |-> <<>>]
    /\ written = [s \in Sessions |-> <<>>]
    /\ failed = [s \in Sessions |-> {}]
    /\ sent = [s \in Sessions |-> 0]
    /\ faults = 0

-----------------------------------------------------------------------------
(* Engine::start_capture.                                                  *)

\* The mutex is released again before the first await.  Calls are numbered as
\* they come.
StartCheck(s) ==
    /\ start[s] = "none"
    /\ \A o \in Sessions : o < s => start[o] # "none"
    /\ current = NoSession
    /\ start' = [start EXCEPT ![s] = "checked"]
    /\ UNCHANGED <<current, row, stop, captureVars, writerVars, channel, sent>>

\* The row is inserted, and the writer spawned, or the INSERT fails.
StartSession(s) ==
    /\ start[s] = "checked"
    /\ \/ /\ start' = [start EXCEPT ![s] = "starting"]
          /\ row' = [row EXCEPT ![s] = "open"]
          /\ writer' = [writer EXCEPT ![s] = "run"]
          /\ UNCHANGED faults
       \/ /\ faults < MaxFaults
          /\ faults' = faults + 1
          /\ start' = [start EXCEPT ![s] = "failed"]
          /\ UNCHANGED <<row, writer>>
    /\ UNCHANGED <<current, stop, captureVars, writerTold, buf, retry, written, failed,
                   channel, sent>>

\* platform.start; on an error the writer's senders go out of scope.
StartPlatform(s) ==
    /\ start[s] = "starting"
    /\ \/ /\ capture' = [capture EXCEPT ![s] = "on"]
          /\ start' = [start EXCEPT ![s] = "up"]
          /\ UNCHANGED writerTold
       \/ /\ start' = [start EXCEPT ![s] = "failed"]
          /\ writerTold' = [writerTold EXCEPT ![s] = TRUE]
          /\ UNCHANGED capture
    /\ UNCHANGED <<current, row, stop, told, late, overran, writer, buf, retry, written,
                   failed, faults, channel, sent>>

\* The new handle replaces whatever the state holds by now, dropping it.
StartInstall(s) ==
    /\ start[s] = "up"
    /\ start' = [start EXCEPT ![s] = "done"]
    /\ current' = s
    /\ told' = [o \in Sessions |-> told[o] \/ o = current]
    /\ writerTold' = [o \in Sessions |-> writerTold[o] \/ o = current]
    /\ UNCHANGED <<row, stop, capture, late, overran, writer, buf, retry, written, failed,
                   faults, channel, sent>>

-----------------------------------------------------------------------------
(* Engine::stop_capture.                                                   *)

\* Bug: the stop_tx is kept in scope, unused.
StopTakeUntold(s) ==
    /\ current = s
    /\ current' = NoSession
    /\ stop' = [stop EXCEPT ![s] = "capture"]
    /\ UNCHANGED <<row, start, captureVars, writerVars, channel, sent>>

StopTake(s) ==
    /\ current = s
    /\ current' = NoSession
    /\ stop' = [stop EXCEPT ![s] = "capture"]
    /\ told' = [told EXCEPT ![s] = TRUE]
    /\ UNCHANGED <<row, start, capture, late, overran, writerVars, channel, sent>>

\* The capture has ended: signal the writer ...
StopWriter(s) ==
    /\ stop[s] = "capture"
    /\ capture[s] = "off"
    /\ stop' = [stop EXCEPT ![s] = "writer"]
    /\ writerTold' = [writerTold EXCEPT ![s] = TRUE]
    /\ UNCHANGED <<current, row, start, captureVars, writer, buf, retry, written, failed,
                   faults, channel, sent>>

\* Bug: the writer is told and not awaited.
StopJoinUnawaited(s) ==
    /\ stop[s] = "writer"
    /\ stop' = [stop EXCEPT ![s] = "row"]
    /\ UNCHANGED <<current, row, start, captureVars, writerVars, channel, sent>>

\* ... await it, and close the row.
StopJoin(s) ==
    /\ stop[s] = "writer"
    /\ writer[s] = "gone"
    /\ stop' = [stop EXCEPT ![s] = "row"]
    /\ UNCHANGED <<current, row, start, captureVars, writerVars, channel, sent>>

StopSession(s) ==
    /\ stop[s] = "row"
    /\ stop' = [stop EXCEPT ![s] = "none"]
    /\ \/ row' = [row EXCEPT ![s] = "stopped"] /\ UNCHANGED faults
       \/ faults < MaxFaults /\ faults' = faults + 1 /\ UNCHANGED row
    /\ UNCHANGED <<current, start, captureVars, writer, writerTold, buf, retry, written,
                   failed, channel, sent>>

-----------------------------------------------------------------------------
(* The capture.  Typed text and focus changes await room in the channel;   *)
(* clicks, keys and snapshots are dropped when it is full.                 *)

Accept(s) ==
    /\ channel' = [channel EXCEPT ![s] = Append(@, sent[s] + 1)]
    /\ sent' = [sent EXCEPT ![s] = @ + 1]

TrySend(s) ==
    /\ writer[s] # "gone"
    /\ Len(channel[s]) < ChannelCapacity
    /\ sent[s] < MaxMessages
    /\ Accept(s)

EmitLossy(s) ==
    /\ capture[s] = "on"
    /\ TrySend(s)
    /\ UNCHANGED <<startVars, captureVars, writerVars>>

\* A send on a closed channel returns at once and leaves no trace.
EmitBlocking(s) ==
    /\ capture[s] = "on"
    /\ writer[s] # "gone"
    /\ sent[s] < MaxMessages
    /\ capture' = [capture EXCEPT ![s] = "sending"]
    /\ UNCHANGED <<startVars, told, late, overran, writerVars, channel, sent>>

\* The normalizer sees the shutdown between two events; text still buffered is
\* sent first.
NormalizerStops(s) ==
    /\ capture[s] = "on"
    /\ told[s]
    /\ capture' \in {[capture EXCEPT ![s] = "closing"],
                     [capture EXCEPT ![s] = "lastSend"]}
    /\ UNCHANGED <<startVars, told, late, overran, writerVars, channel, sent>>

\* Bug: a closed channel is waited for like a full one.
SentNeedsRoom(s) ==
    /\ capture[s] \in {"sending", "lastSend"}
    /\ capture' = [capture EXCEPT ![s] = IF @ = "sending" THEN "on" ELSE "closing"]
    /\ TrySend(s)
    /\ UNCHANGED <<startVars, told, late, overran, writerVars>>

\* The awaited send completes, or fails because the receiver is gone.
Sent(s) ==
    /\ capture[s] \in {"sending", "lastSend"}
    /\ capture' = [capture EXCEPT ![s] = IF @ = "sending" THEN "on" ELSE "closing"]
    /\ \/ TrySend(s)
       \/ /\ writer[s] = "gone" \/ sent[s] = MaxMessages
          /\ UNCHANGED <<channel, sent>>
    /\ UNCHANGED <<startVars, told, late, overran, writerVars>>

Snapshot(s) ==
    /\ capture[s] # "off" \/ late[s]
    /\ TrySend(s)
    /\ UNCHANGED <<startVars, captureVars, writerVars>>

\* The supervisor waits two seconds for the snapshot worker, then leaves it.
SupervisorEnds(s) ==
    /\ capture[s] = "closing"
    /\ capture' = [capture EXCEPT ![s] = "off"]
    /\ \/ UNCHANGED <<late, overran>>
       \/ /\ late' = [late EXCEPT ![s] = TRUE]
          /\ overran' = [overran EXCEPT ![s] = TRUE]
    /\ UNCHANGED <<startVars, told, writerVars, channel, sent>>

LateWorkerEnds(s) ==
    /\ late[s]
    /\ late' = [late EXCEPT ![s] = FALSE]
    /\ UNCHANGED <<startVars, capture, told, overran, writerVars, channel, sent>>

-----------------------------------------------------------------------------
(* The writer.                                                             *)

\* Bug: a failed transaction keeps its first row, and all are written again.
FlushBatchTwice(s, batch) ==
    /\ buf' = [buf EXCEPT ![s] = <<>>]
    /\ \/ /\ written' = [written EXCEPT ![s] = @ \o batch]
          /\ UNCHANGED <<retry, faults>>
       \/ /\ faults < MaxFaults
          /\ faults' = faults + 1
          /\ written' = [written EXCEPT ![s] = Append(@, Head(batch))]
          /\ retry' = [retry EXCEPT ![s] = batch]

\* flush_batch: one transaction, or row by row when it fails.
FlushBatch(s, batch) ==
    /\ buf' = [buf EXCEPT ![s] = <<>>]
    /\ \/ /\ written' = [written EXCEPT ![s] = @ \o batch]
          /\ UNCHANGED <<retry, faults>>
       \/ /\ faults < MaxFaults
          /\ faults' = faults + 1
          /\ retry' = [retry EXCEPT ![s] = batch]
          /\ UNCHANGED written

\* write_one: a row that fails again is dropped.
WriteOne(s) ==
    /\ retry[s] # <<>>
    /\ retry' = [retry EXCEPT ![s] = Tail(@)]
    /\ \/ /\ written' = [written EXCEPT ![s] = Append(@, Head(retry[s]))]
          /\ UNCHANGED failed
       \/ /\ failed' = [failed EXCEPT ![s] = @ \cup {Head(retry[s])}]
          /\ UNCHANGED written
    /\ UNCHANGED <<startVars, captureVars, writer, writerTold, buf, faults, channel, sent>>

\* Bug: the buffer is flushed one message late.
TakeOffByOne(s) ==
    LET batch == Append(buf[s], Head(channel[s])) IN
      /\ channel' = [channel EXCEPT ![s] = Tail(@)]
      /\ \/ /\ Len(batch) <= BatchMax
            /\ buf' = [buf EXCEPT ![s] = batch]
            /\ UNCHANGED <<retry, written, faults>>
         \/ Len(batch) > BatchMax /\ FlushBatch(s, batch)

\* Bug: the message that fills the buffer is left out of the batch it flushes.
TakeLosesLast(s) ==
    LET batch == Append(buf[s], Head(channel[s])) IN
      /\ channel' = [channel EXCEPT ![s] = Tail(@)]
      /\ \/ /\ Len(batch) < BatchMax
            /\ buf' = [buf EXCEPT ![s] = batch]
            /\ UNCHANGED <<retry, written, faults>>
         \/ Len(batch) >= BatchMax /\ FlushBatch(s, buf[s])

\* Buffer one message, and flush when the buffer is full.
Take(s) ==
    LET batch == Append(buf[s], Head(channel[s])) IN
      /\ channel' = [channel EXCEPT ![s] = Tail(@)]
      /\ \/ /\ Len(batch) < BatchMax
            /\ buf' = [buf EXCEPT ![s] = batch]
            /\ UNCHANGED <<retry, written, faults>>
         \/ Len(batch) >= BatchMax /\ FlushBatch(s, batch)

Receive(s) ==
    /\ writer[s] = "run"
    /\ channel[s] # <<>>
    /\ Take(s)
    /\ UNCHANGED <<startVars, captureVars, writer, writerTold, failed, sent>>

FlushTick(s) ==
    /\ writer[s] = "run"
    /\ buf[s] # <<>>
    /\ FlushBatch(s, buf[s])
    /\ UNCHANGED <<startVars, captureVars, writer, writerTold, failed, channel, sent>>

SendersGone(s) == start[s] \in {"up", "done", "failed"} /\ capture[s] = "off" /\ ~late[s]

ChannelClosed(s) ==
    /\ writer[s] = "run"
    /\ channel[s] = <<>>
    /\ SendersGone(s)
    /\ writer' = [writer EXCEPT ![s] = "lastFlush"]
    /\ UNCHANGED <<startVars, captureVars, writerTold, buf, retry, written, failed, faults,
                   channel, sent>>

\* Bug: what is queued when the shutdown arrives is not drained.
ShutdownSkipsDrain(s) ==
    /\ writer[s] = "run"
    /\ writerTold[s]
    /\ writer' = [writer EXCEPT ![s] = "lastFlush"]
    /\ UNCHANGED <<startVars, captureVars, writerTold, buf, retry, written, failed, faults,
                   channel, sent>>

\* The shutdown branch drains what is queued, ...
ShutdownSeen(s) ==
    /\ writer[s] = "run"
    /\ writerTold[s]
    /\ writer' = [writer EXCEPT ![s] = "drain"]
    /\ UNCHANGED <<startVars, captureVars, writerTold, buf, retry, written, failed, faults,
                   channel, sent>>

Drain(s) ==
    /\ writer[s] = "drain"
    /\ \/ /\ channel[s] # <<>>
          /\ Take(s)
          /\ UNCHANGED writer
       \/ /\ channel[s] = <<>>
          /\ writer' = [writer EXCEPT ![s] = "lastFlush"]
          /\ UNCHANGED <<channel, buf, retry, written, faults>>
    /\ UNCHANGED <<startVars, captureVars, writerTold, failed, sent>>

\* ... flushes the rest, as a writer does whose channel closed, ...
LastFlush(s) ==
    /\ writer[s] = "lastFlush"
    /\ buf[s] # <<>>
    /\ FlushBatch(s, buf[s])
    /\ UNCHANGED <<startVars, captureVars, writer, writerTold, failed, channel, sent>>

\* ... and drops the receiver with whatever came meanwhile.
WriterEnds(s) ==
    /\ writer[s] = "lastFlush"
    /\ buf[s] = <<>>
    /\ writer' = [writer EXCEPT ![s] = "gone"]
    /\ channel' = [channel EXCEPT ![s] = <<>>]
    /\ UNCHANGED <<startVars, captureVars, writerTold, buf, retry, written, failed,
                   faults, sent>>

-----------------------------------------------------------------------------

StopStep(s) == StopWriter(s) \/ StopJoin(s) \/ StopSession(s)

CaptureStep(s) == NormalizerStops(s) \/ Sent(s) \/ SupervisorEnds(s)

\* While it inserts the rows of a failed batch the writer does nothing else.
WriterStep(s) ==
    \/ WriteOne(s)
    \/ /\ retry[s] = <<>>
       /\ \/ Receive(s) \/ FlushTick(s) \/ ChannelClosed(s)
          \/ ShutdownSeen(s) \/ Drain(s) \/ LastFlush(s) \/ WriterEnds(s)

Next ==
    \E s \in Sessions :
       \/ StartCheck(s) \/ StartSession(s) \/ StartPlatform(s) \/ StartInstall(s)
       \/ StopTake(s) \/ StopStep(s)
       \/ EmitLossy(s) \/ EmitBlocking(s) \/ Snapshot(s) \/ LateWorkerEnds(s)
       \/ CaptureStep(s)
       \/ WriterStep(s)

\* Every task is polled while it can move.  (select! draws its ready branches at
\* random, so a shutdown is not starved by messages; here messages are finite.)
Fairness ==
    \A s \in Sessions :
       /\ WF_engineVars(StopStep(s))
       /\ WF_engineVars(CaptureStep(s))
       /\ WF_engineVars(WriterStep(s))

Spec == Init /\ [][Next]_engineVars /\ Fairness
-----------------------------------------------------------------------------
\* Messages reach the database in the order the capture sent them and at most
\* once, through full buffers, failed batches, row-by-row retries and drains.
WrittenInOrder ==
    \A s \in Sessions :
       \A i, j \in DOMAIN written[s] : i < j => written[s][i] < written[s][j]

\* A session whose row is closed holds every message its channel accepted, but
\* for those whose own insert failed, and for what a snapshot worker that outran
\* its two seconds sent too late.
StoppedIsComplete ==
    \A s \in Sessions :
       row[s] = "stopped" /\ ~overran[s] => ToSet(written[s]) \cup failed[s] = 1..sent[s]

(* Refinement: channel, buffer and what is left of a failed batch are one  *)
(* line of messages, and the session is the log of ActivityLog.            *)

Log == INSTANCE ActivityLog WITH
    Capacity <- ChannelCapacity,
    row      <- row,
    sink     <- [s \in Sessions |-> IF writer[s] \in {"none", "gone"} THEN writer[s] ELSE "open"],
    accepted <- sent,
    pending  <- [s \in Sessions |-> retry[s] \o buf[s] \o channel[s]],
    log      <- written,
    lost     <- failed

\* The engine implements ActivityLog: full buffers, transactions that fail, rows
\* inserted one by one, ticks, drains and late messages in any order, a message
\* leaves the session only from the front of one queue, as a row or because its
\* own insert failed; the end of the writer drops no more than its channel held,
\* and the row is closed only after it.
ActivityLogSpec == Log!Spec

\* Liveness: a stop returns, although the capture it waits for may itself be
\* waiting for room in the channel, and the writer it waits for is told last.
StopReturns == \A s \in Sessions : stop[s] # "none" ~> stop[s] = "none"

\* Liveness: a start that failed, or was displaced, leaves neither a capture
\* nor a writer behind.
NothingLeftRunning ==
    \A s \in Sessions :
       start[s] = "failed" \/ told[s] ~>
          capture[s] = "off" /\ writer[s] \in {"none", "gone"}

\* RunningCapture: "Drop is not sufficient to stop capture; callers must await
\* stop() explicitly".  Two overlapping starts both pass the check, and the
\* second drops the handle of the first; its row stays open for ever.
HandlesAreStopped ==
    [][\A s \in Sessions : told'[s] /\ ~told[s] => stop'[s] = "capture"]_engineVars
=============================================================================
