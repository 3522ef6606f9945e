-------------------------- MODULE ThreadEventStream --------------------------
(***************************************************************************)
(* One window's event stream: handleSse in the runtime, the connection     *)
(* loop of RuntimeHost in the main process and its RuntimeEventBatcher.    *)
(*                                                                         *)
(* handleSse subscribes to the bus, then reads the log.  Publications that *)
(* arrive meanwhile wait in `pending', are sorted when the replay is       *)
(* written and follow it; what processedSeq has passed is dropped.  A      *)
(* write that meets backpressure is awaited: `sending' is the event whose  *)
(* frame is on the wire while processedSeq still holds its predecessor.    *)
(* The host advances its cursor with each frame it reads and reconnects    *)
(* from it.  A connection that closes takes its unread frames with it.     *)
(***************************************************************************)
EXTENDS ThreadEventLog, SequencesExt

CONSTANTS
  MaxPending,    \* MAX_PENDING_EVENTS: the pending limit and the replay limit
  MaxBatchSize,  \* DEFAULT_MAX_BATCH_SIZE of the batcher
  MaxFaults      \* a bound on lost connections, crashes and failed requests

ASSUME StreamAssumption ==
  MaxPending \in Nat \ {0} /\ MaxBatchSize \in Nat \ {0} /\ MaxFaults \in Nat

VARIABLES
  phase,      \* where the connection's handler is
  sinceSeq,   \* the cursor the connection was opened with
  processed,  \* processedSeq
  replay,     \* the stored events still to be written, or a resync's lastSeq
  pending,    \* publications not yet written
  sending,    \* the seq whose write is awaited, or NoSeq
  wire,       \* frames written and not yet read by the host
  cursor,     \* cursor.seq of the host
  batch,      \* the batcher's events
  ipc,        \* batches on their way to the window
  faults      \* how many faults happened

streamVars == <<phase, sinceSeq, processed, replay, pending, sending,
                wire, cursor, batch, ipc, faults>>

(* "connected": subscribed, before the metadata is read; "reading": before *)
(* the replay is read; "paging": before the snapshot of a resync is read.  *)
Phase == {"down", "connected", "reading", "paging", "resync", "replay", "live", "closed"}

EventFrame(s) == [resync |-> FALSE, seq |-> s]
ResyncFrame(s) == [resync |-> TRUE, seq |-> s]
Frame == [resync : BOOLEAN, seq : Nat]
EventBatch(events) == [resync |-> NoSeq, events |-> events]
ResyncBatch(s) == [resync |-> s, events |-> <<>>]
Batch == [resync : Nat \cup {NoSeq}, events : Seq(Nat)]

StreamTypeOK ==
  /\ phase \in Phase
  /\ sinceSeq \in Nat /\ processed \in Nat /\ cursor \in Nat /\ faults \in Nat
  /\ replay \subseteq Nat
  /\ pending \in Seq(Nat) /\ batch \in Seq(Nat)
  /\ sending \in Nat \cup {NoSeq}
  /\ wire \in Seq(Frame)
  /\ ipc \in Seq(Batch)

StreamInit ==
  /\ phase = "down"
  /\ sinceSeq = 0 /\ processed = 0 /\ cursor = 0 /\ faults = 0
  /\ replay = {} /\ pending = <<>> /\ batch = <<>>
  /\ sending = NoSeq
  /\ wire = <<>> /\ ipc = <<>>

-----------------------------------------------------------------------------
(* handleSse.                                                              *)

Open == phase \notin {"down", "closed"}

Write(s) ==
  /\ sending' = s
  /\ wire' = Append(wire, EventFrame(s))

(* Where a queue's first event beyond p is, or one past its end. *)
FirstBeyond(queue, p, i) ==
  /\ i \in 1 .. Len(queue) + 1
  /\ \A j \in 1 .. i - 1 : queue[j] <= p
  /\ i <= Len(queue) => queue[i] > p

(* The pump of a live connection that has processed p shifts what p has    *)
(* passed, writes the event after that and leaves the others pending.      *)
Pump(queue, p) ==
  \E i \in 1 .. Len(queue) + 1 :
    /\ FirstBeyond(queue, p, i)
    /\ pending' = SubSeq(queue, i + 1, Len(queue))
    /\ IF i > Len(queue) THEN sending' = NoSeq /\ UNCHANGED wire ELSE Write(queue[i])

(* The replay is over: pending is sorted, then pumped. *)
GoLive(p) ==
  /\ phase' = "live" /\ replay' = {}
  /\ \E order \in Bijection(DOMAIN pending, DOMAIN pending) :
       LET sorted == [i \in DOMAIN pending |-> pending[order[i]]]
       IN  /\ \A i, j \in DOMAIN pending : i < j => sorted[i] <= sorted[j]
           /\ Pump(sorted, p)

(* The replay loop: the next of the stored events, or what follows them. *)
WriteReplay(stored, p) ==
  LET rest == {s \in stored : s > p}
  IN  IF rest = {} THEN GoLive(p)
      ELSE \E s \in rest :
             /\ \A r \in rest : s <= r
             /\ Write(s)
             /\ phase' = "replay" /\ replay' = rest \ {s}
             /\ UNCHANGED pending

(* The request arrives: everything up to the subscription runs at once. *)
Connect ==
  /\ phase = "down"
  /\ phase' = "connected"
  /\ sinceSeq' = cursor /\ processed' = cursor
  /\ replay' = {} /\ pending' = <<>> /\ sending' = NoSeq /\ wire' = <<>>
  /\ UNCHANGED <<cursor, batch, ipc, faults>>

ReadMetadata ==
  /\ phase = "connected"
  /\ phase' = IF LastSeq - sinceSeq > MaxPending THEN "paging" ELSE "reading"
  /\ UNCHANGED <<sinceSeq, processed, replay, pending, sending, wire, cursor, batch, ipc, faults>>

ReadReplay ==
  /\ phase = "reading"
  /\ IF RequiresResync(sinceSeq)
     THEN /\ phase' = "paging"
          /\ UNCHANGED <<replay, pending, sending, wire>>
     ELSE WriteReplay(HotAfter(sinceSeq), processed)
  /\ UNCHANGED <<sinceSeq, processed, cursor, batch, ipc, faults>>

(* getThreadPage; the awaits of runtimeThreadResponse follow it. *)
ReadPage ==
  /\ phase = "paging"
  /\ phase' = "resync"
  /\ replay' = {LastSeq}
  /\ UNCHANGED <<sinceSeq, processed, pending, sending, wire, cursor, batch, ipc, faults>>

WriteResync ==
  /\ phase = "resync" /\ sending = NoSeq
  /\ \E s \in replay :
       /\ sending' = s
       /\ wire' = Append(wire, ResyncFrame(s))
  /\ UNCHANGED <<phase, sinceSeq, processed, replay, pending, cursor, batch, ipc, faults>>

(* The awaited write completes: processedSeq moves and the loop goes on. *)
WriteDone ==
  /\ Open /\ sending # NoSeq
  /\ processed' = sending
  /\ \/ phase = "resync" /\ GoLive(sending)
     \/ phase = "replay" /\ WriteReplay(replay, sending)
     \/ phase = "live" /\ Pump(pending, sending) /\ UNCHANGED <<phase, replay>>
  /\ UNCHANGED <<sinceSeq, cursor, batch, ipc, faults>>

(* The subscriber, called for each published event in turn: what is not    *)
(* processed is queued, the queue's limit closes the connection, and a     *)
(* live idle pump writes the first one at once.  (Published events are in  *)
(* increasing order, so what is not processed is the end of them.)         *)
Subscribed_AfterReplay == phase = "live"
Subscribed == Open

Accept(events) ==
  \E i \in 1 .. Len(events) + 1 :
    LET fresh == SubSeq(events, i, Len(events))
        starts == phase = "live" /\ sending = NoSeq /\ fresh # <<>>
        queue == pending \o (IF starts THEN Tail(fresh) ELSE fresh)
    IN  /\ FirstBeyond(events, processed, i)
        /\ IF ~Subscribed \/ fresh = <<>>
           THEN UNCHANGED <<phase, pending, sending, wire>>
           ELSE IF Len(queue) > MaxPending
           THEN /\ phase' = "closed" /\ pending' = <<>> /\ sending' = NoSeq
                /\ wire' = IF starts THEN Append(wire, EventFrame(Head(fresh))) ELSE wire
           ELSE /\ pending' = queue
                /\ IF starts THEN Write(Head(fresh)) ELSE UNCHANGED <<sending, wire>>
                /\ UNCHANGED phase

Deliver(events) ==
  /\ Accept(events)
  /\ UNCHANGED <<sinceSeq, processed, replay, cursor, batch, ipc, faults>>

-----------------------------------------------------------------------------
(* RuntimeHost.readSse and the batcher.                                    *)

Flushed(q, events) == IF events = <<>> THEN q ELSE Append(q, EventBatch(events))

FlushBatch ==
  /\ ipc' = Flushed(ipc, batch)
  /\ batch' = <<>>

(* enqueue: a user-blocking event or a full batch leaves synchronously. *)
Enqueue(s) ==
  LET events == Append(batch, s)
  IN  IF log[s] = "terminal" \/ Len(events) >= MaxBatchSize
      THEN ipc' = Flushed(ipc, events) /\ batch' = <<>>
      ELSE batch' = events /\ UNCHANGED ipc

ReadFrame ==
  /\ wire # <<>>
  /\ wire' = Tail(wire)
  /\ LET frame == Head(wire)
     IN  IF frame.resync
         THEN /\ ipc' = Append(Flushed(ipc, batch), ResyncBatch(frame.seq))
              /\ batch' = <<>>
              /\ cursor' = frame.seq
         ELSE IF frame.seq > cursor
         THEN Enqueue(frame.seq) /\ cursor' = frame.seq
         ELSE UNCHANGED <<cursor, batch, ipc>>
  /\ UNCHANGED <<phase, sinceSeq, processed, replay, pending, sending, faults>>

FlushTimer ==
  /\ batch # <<>>
  /\ FlushBatch
  /\ UNCHANGED <<phase, sinceSeq, processed, replay, pending, sending, wire, cursor, faults>>

(* The host notices the closed connection; what it has not read is lost. *)
LeaveBatch_Dropped == batch' = <<>> /\ UNCHANGED ipc
LeaveBatch == FlushBatch

Disconnect ==
  /\ phase = "closed"
  /\ phase' = "down"
  /\ wire' = <<>>
  /\ LeaveBatch
  /\ UNCHANGED <<sinceSeq, processed, replay, pending, sending, cursor, faults>>

Close ==
  /\ phase' = IF Open THEN "closed" ELSE phase
  /\ replay' = {} /\ pending' = <<>> /\ sending' = NoSeq

LoseConnection ==
  /\ Open /\ faults < MaxFaults
  /\ Close
  /\ faults' = faults + 1
  /\ UNCHANGED <<sinceSeq, processed, wire, cursor, batch, ipc>>

(* unsubscribe and subscribeEvents: a new subscription from `seq'. *)
Subscribe(seq) ==
  /\ phase' = "down"
  /\ sinceSeq' = seq /\ processed' = seq /\ cursor' = seq
  /\ replay' = {} /\ pending' = <<>> /\ sending' = NoSeq
  /\ wire' = <<>> /\ batch' = <<>> /\ ipc' = <<>>

=============================================================================
