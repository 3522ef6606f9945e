---------------------------- MODULE EventWriter ----------------------------
(***************************************************************************)
(* RuntimeEventWriter (runtime-event-writer.ts): the deltas of a model     *)
(* stream are buffered and merged, everything else is written behind them  *)
(* on a promise chain per thread, and one failed write stops the writer of *)
(* all threads.  Callers of flushThread and flushAll rely on what they     *)
(* were promised: EventCoordinatedThreadStore writes beside the writer     *)
(* after a flush, and a thread is deleted after one.                       *)
(*                                                                         *)
(* Every accepted call gets the next ticket of its thread; an entry of a   *)
(* batch or of the log carries the tickets that were merged into it.       *)
(***************************************************************************)
EXTENDS Naturals, Sequences, FiniteSets

CONSTANTS
  Thread,
  Stream,        \* the delta streams of a turn, a subset of DeltaStream
  Streaming,     \* the threads whose turns stream
  MaxAppends,    \* bound on the calls that append
  MaxFlushes,    \* bound on the calls that flush
  MaxFaults      \* bound on writes the store refuses for its own reasons

DeltaStream == {"content", "reasoning", "item", "raw", "preview"}

ASSUME WriterBounds ==
  /\ Stream \subseteq DeltaStream /\ Streaming \subseteq Thread
  /\ {MaxAppends, MaxFlushes, MaxFaults} \subseteq Nat

VARIABLES
  accepted,      \* thread -> what was accepted, in the order of the calls
  batch,         \* thread -> batches: buffered entries
  writes,        \* thread -> writeQueues: the operations of the chain
  log,           \* thread -> what the store holds and published
  failed,        \* fatalError is set
  flush,         \* thread -> a flushThread call under way
  flushed,       \* thread -> history: the tickets a flush that returned stands for
  deleted,       \* threads the store has deleted
  flushes,       \* the bounds used up
  faults

vars == <<accepted, batch, writes, log, failed, flush, flushed, deleted, flushes, faults>>

Single == {"event", "compaction"}
Kind == Stream \cup Single
NoEntry == [kind |-> "none", of |-> <<>>]
Entry(k, n) == [kind |-> k, of |-> <<n>>]
NoFlush == [stage |-> "none", ahead |-> 0, upto |-> 0, deletes |-> FALSE]

EntryOf(kinds, n) == [kind: kinds, of: Seq(1..n)]

(* What is buffered, queued and stored keeps its type; an operation of the *)
(* chain has something to write, and a flush waits for operations that are *)
(* still in the chain.                                                     *)
TypeOK ==
  /\ accepted \in [Thread -> Seq(Kind)]
  /\ failed \in BOOLEAN /\ deleted \subseteq Thread /\ flushes \in 0..MaxFlushes /\ faults \in 0..MaxFaults
  /\ \A t \in Thread:
       LET n == Len(accepted[t])
       IN /\ batch[t] \in Seq(EntryOf(Stream, n))
          /\ log[t] \in Seq(EntryOf(Kind, n))
          /\ writes[t] \in Seq([entries: Seq(EntryOf(Stream, n)),
                                event: EntryOf(Single, n) \cup {NoEntry}])
          /\ \A i \in DOMAIN writes[t]:
               writes[t][i].entries # <<>> \/ writes[t][i].event # NoEntry
          /\ flush[t] \in [stage: {"none", "own", "queue", "done"}, ahead: 0..Len(writes[t]),
                           upto: 0..n, deletes: BOOLEAN]
          /\ flushed[t] \in 0..n

Init ==
  /\ accepted = [t \in Thread |-> <<>>]
  /\ batch = [t \in Thread |-> <<>>]
  /\ writes = [t \in Thread |-> <<>>]
  /\ log = [t \in Thread |-> <<>>]
  /\ failed = FALSE
  /\ flush = [t \in Thread |-> NoFlush]
  /\ flushed = [t \in Thread |-> 0]
  /\ deleted = {} /\ flushes = 0 /\ faults = 0

-----------------------------------------------------------------------------
(* Merging.                                                                *)

(* mergeKeyForEvent: one key per stream; messages have two channels.       *)
TypeOf(k) ==
  CASE k \in {"content", "reasoning"} -> "message.delta"
    [] k = "item" -> "item.delta"
    [] k = "raw" -> "reasoning.raw_delta"
    [] k = "preview" -> "tool.preview"

(* DUAL_WRITE_MERGE_PAIRS: the two representations of one model chunk.     *)
Twins(j, k) ==
  {TypeOf(j), TypeOf(k)} \in {{"item.delta", "message.delta"},
                              {"message.delta", "reasoning.raw_delta"}}

(* canMergeAcrossTypes: only twins lie between.                            *)
CanMergeAcrossTypes_Always(entries, i, k) == TRUE
CanMergeAcrossTypes(entries, i, k) ==
  \A j \in DOMAIN entries: j > i => Twins(entries[j].kind, k)

(* The entry a delta merges into: the last of its stream, if any.          *)
MergeTargets(entries, k) ==
  {i \in DOMAIN entries: entries[i].kind = k /\ CanMergeAcrossTypes(entries, i, k)}

(* mergeBufferedEvent: of previews only the latest is kept.                *)
MergeBuffered_Latest(entry, n) == [entry EXCEPT !.of = <<n>>]
MergeBuffered(entry, n) ==
  IF entry.kind = "preview" THEN [entry EXCEPT !.of = <<n>>]
                            ELSE [entry EXCEPT !.of = Append(@, n)]

EnqueueDelta(entries, k, n) ==
  LET targets == MergeTargets(entries, k)
  IN IF targets = {}
     THEN Append(entries, Entry(k, n))
     ELSE [i \in DOMAIN entries |-> IF i \in targets THEN MergeBuffered(entries[i], n) ELSE entries[i]]

-----------------------------------------------------------------------------
(* The calls.                                                              *)

Total == LET S[T \in SUBSET Thread] ==
               IF T = {} THEN 0
               ELSE LET t == CHOOSE t \in T: TRUE IN Len(accepted[t]) + S[T \ {t}]
         IN S[Thread]

(* throwIfFailed *)
Accept(t, kind) ==
  /\ ~failed
  /\ Total < MaxAppends
  /\ accepted' = [accepted EXCEPT ![t] = Append(@, kind)]

Ticket(t) == Len(accepted[t]) + 1

(* append, of a delta.                                                     *)
AppendDelta ==
  \E t \in Streaming, k \in Stream:
    /\ Accept(t, k)
    /\ batch' = [batch EXCEPT ![t] = EnqueueDelta(@, k, Ticket(t))]
    /\ UNCHANGED <<writes, log, failed, flush, flushed, deleted, flushes, faults>>

(* takeBatch and enqueueWrite: nothing awaits between the two.             *)
TakeBatch(t, event) ==
  /\ batch' = [batch EXCEPT ![t] = <<>>]
  /\ writes' = [writes EXCEPT ![t] = Append(@, [entries |-> batch[t], event |-> event])]

(* append, appendBatch and commitCompaction.                               *)
AppendEvent ==
  \E t \in Thread, k \in Single:
    /\ Accept(t, k)
    /\ TakeBatch(t, Entry(k, Ticket(t)))
    /\ UNCHANGED <<log, failed, flush, flushed, deleted, flushes, faults>>

(* The timer of a batch.                                                   *)
TimerFires_UnlessFailed(t) ==
  /\ ~failed /\ batch[t] # <<>>
  /\ TakeBatch(t, NoEntry)
  /\ UNCHANGED <<accepted, log, failed, flush, flushed, deleted, flushes, faults>>
TimerFires(t) ==
  /\ batch[t] # <<>>
  /\ TakeBatch(t, NoEntry)
  /\ UNCHANGED <<accepted, log, failed, flush, flushed, deleted, flushes, faults>>

(* flushThread up to its first await: behind its own write if deltas were  *)
(* buffered, else behind the chain as it is.                               *)
Flushing(t, deletes) ==
  IF batch[t] # <<>>
  THEN [stage |-> "own", ahead |-> Len(writes[t]) + 1, upto |-> Len(accepted[t]), deletes |-> deletes]
  ELSE [stage |-> "queue", ahead |-> Len(writes[t]), upto |-> Len(accepted[t]), deletes |-> deletes]

FlushThread ==
  \E t \in Thread, deletes \in BOOLEAN:
    /\ ~failed /\ flush[t] = NoFlush /\ t \notin deleted
    /\ flushes < MaxFlushes /\ flushes' = flushes + 1
    /\ flush' = [flush EXCEPT ![t] = Flushing(t, deletes)]
    /\ IF batch[t] # <<>> THEN TakeBatch(t, NoEntry) ELSE UNCHANGED <<batch, writes>>
    /\ UNCHANGED <<accepted, log, failed, flushed, deleted, faults>>

(* flushAll: every thread with a batch or a chain.                         *)
FlushAll ==
  LET all == {t \in Thread: batch[t] # <<>> \/ writes[t] # <<>>}
  IN /\ ~failed /\ Cardinality(all) > 1 /\ \A t \in all: flush[t] = NoFlush
     /\ flushes < MaxFlushes /\ flushes' = flushes + 1
     /\ flush' = [t \in Thread |-> IF t \in all THEN Flushing(t, FALSE) ELSE flush[t]]
     /\ writes' = [t \in Thread |-> IF batch[t] # <<>>
                                    THEN Append(writes[t], [entries |-> batch[t], event |-> NoEntry])
                                    ELSE writes[t]]
     /\ batch' = [t \in Thread |-> <<>>]
     /\ UNCHANGED <<accepted, log, failed, flushed, deleted, faults>>

(* Its own write is through: whatever was appended since is awaited too.   *)
FlushAwaitsQueue(t) ==
  /\ flush[t].stage = "own" /\ flush[t].ahead = 0
  /\ flush' = [flush EXCEPT ![t].stage = "queue", ![t].ahead = Len(writes[t])]
  /\ UNCHANGED <<accepted, batch, writes, log, failed, flushed, deleted, flushes, faults>>

FlushReturns_Unchecked(t) ==
  /\ flush[t].stage = "queue" /\ flush[t].ahead = 0
  /\ flush' = [flush EXCEPT ![t] = IF flush[t].deletes THEN [@ EXCEPT !.stage = "done"] ELSE NoFlush]
  /\ flushed' = [flushed EXCEPT ![t] = flush[t].upto]
  /\ UNCHANGED <<accepted, batch, writes, log, failed, deleted, flushes, faults>>
FlushReturns(t) ==
  /\ flush[t].stage = "queue" /\ flush[t].ahead = 0
  /\ flush' = [flush EXCEPT ![t] = IF flush[t].deletes /\ ~failed THEN [@ EXCEPT !.stage = "done"]
                                                                  ELSE NoFlush]
  /\ flushed' = IF failed THEN flushed ELSE [flushed EXCEPT ![t] = flush[t].upto]
  /\ UNCHANGED <<accepted, batch, writes, log, failed, deleted, flushes, faults>>

(* deleteThread of the store, behind the flush.                            *)
DeleteThread(t) ==
  /\ flush[t].stage = "done"
  /\ flush' = [flush EXCEPT ![t] = NoFlush]
  /\ deleted' = deleted \cup {t}
  /\ UNCHANGED <<accepted, batch, writes, log, failed, flushed, flushes, faults>>

-----------------------------------------------------------------------------
(* The chain of a thread.                                                  *)

OperationEnds_SkipsFlush(t) ==
  /\ writes' = [writes EXCEPT ![t] = Tail(@)]
  /\ UNCHANGED flush
OperationEnds(t) ==
  /\ writes' = [writes EXCEPT ![t] = Tail(@)]
  /\ flush' = [flush EXCEPT ![t].ahead = IF @ = 0 THEN 0 ELSE @ - 1]

(* persistAndPublish: the deltas of an operation are one transaction.      *)
StoreBatch(t) ==
  /\ writes[t] # <<>> /\ Head(writes[t]).entries # <<>> /\ t \notin deleted
  /\ log' = [log EXCEPT ![t] = @ \o Head(writes[t]).entries]
  /\ IF Head(writes[t]).event = NoEntry
     THEN OperationEnds(t)
     ELSE writes' = [writes EXCEPT ![t][1].entries = <<>>] /\ UNCHANGED flush
  /\ UNCHANGED <<accepted, batch, failed, flushed, deleted, flushes, faults>>

(* Then its event; a compaction whose window has changed is dropped        *)
(* without an error.                                                       *)
StoreEvent(t) ==
  /\ writes[t] # <<>> /\ Head(writes[t]).entries = <<>> /\ t \notin deleted
  /\ LET event == Head(writes[t]).event
     IN \/ log' = [log EXCEPT ![t] = Append(@, event)]
        \/ event.kind = "compaction" /\ UNCHANGED log
  /\ OperationEnds(t)
  /\ UNCHANGED <<accepted, batch, failed, flushed, deleted, flushes, faults>>

(* A write is refused, for good if the thread is gone; the chain goes on,  *)
(* but fatalError stays.                                                   *)
WriteFails(t) ==
  /\ writes[t] # <<>>
  /\ \/ t \in deleted /\ UNCHANGED faults
     \/ t \notin deleted /\ faults < MaxFaults /\ faults' = faults + 1
  /\ failed' = TRUE
  /\ OperationEnds(t)
  /\ UNCHANGED <<accepted, batch, log, flushed, deleted, flushes>>

Writing(t) == StoreBatch(t) \/ StoreEvent(t) \/ WriteFails(t)
Flushes(t) == FlushAwaitsQueue(t) \/ FlushReturns(t) \/ DeleteThread(t)

Next ==
  \/ AppendDelta \/ AppendEvent \/ FlushThread \/ FlushAll
  \/ \E t \in Thread: TimerFires(t) \/ Writing(t) \/ Flushes(t)

Spec == Init /\ [][Next]_vars

(* Timers fire, the store answers and promises are resumed.                *)
FairSpec ==
  Spec /\ \A t \in Thread: WF_vars(TimerFires(t)) /\ WF_vars(Writing(t)) /\ WF_vars(Flushes(t))

-----------------------------------------------------------------------------
(* Properties.                                                             *)

(* The journal of a thread: everything of it that is stored or on its way, *)
(* in segments that follow each other as the log has or will have them.    *)
(* The first is the log, then come the operations of the chain, then what  *)
(* is buffered.                                                            *)
Contents(op) == IF op.event = NoEntry THEN op.entries ELSE Append(op.entries, op.event)
Segments(t) == 0..(Len(writes[t]) + 1)
Segment(t, s) ==
  IF s = 0 THEN log[t] ELSE IF s <= Len(writes[t]) THEN Contents(writes[t][s]) ELSE batch[t]

Elements(s) == {s[i]: i \in DOMAIN s}
Journal(t) == UNION {Elements(Segment(t, s)): s \in Segments(t)}
Precedes(t, e, f) ==
  \E r, s \in Segments(t): \E i \in DOMAIN Segment(t, r), j \in DOMAIN Segment(t, s):
    /\ r < s \/ (r = s /\ i < j)
    /\ e = Segment(t, r)[i] /\ f = Segment(t, s)[j]

Increasing(s) == \A i, j \in DOMAIN s: i < j => s[i] < s[j]

(* Nobody misses a preview once a later one was accepted, and a compaction *)
(* may be dropped.                                                         *)
Obsolete(t, n, upto) ==
  \/ accepted[t][n] = "compaction"
  \/ accepted[t][n] = "preview" /\ \E m \in (n + 1)..upto: accepted[t][m] = "preview"

(* Each stream is stored as it was produced: its deltas in their order and *)
(* none twice, whatever was merged with whatever; and as long as no write  *)
(* failed none is missing, except previews a later preview replaced.       *)
StreamsAreKept ==
  \A t \in Thread:
    /\ \A e \in Journal(t): Increasing(e.of) /\ \A n \in Elements(e.of): accepted[t][n] = e.kind
    /\ \A e, f \in Journal(t):
         Precedes(t, e, f) /\ e.kind = f.kind => \A m \in Elements(e.of), n \in Elements(f.of): m < n
    /\ ~failed => \A n \in DOMAIN accepted[t]:
                    \/ Obsolete(t, n, Len(accepted[t]))
                    \/ \E e \in Journal(t): n \in Elements(e.of)

(* "without changing the order of terminal and tool lifecycle events"      *)
(* (runtime-event-writer.ts:26): nothing that was appended before such an  *)
(* event is stored after it, and nothing after it before; and a delta      *)
(* moves back only past the other representation of its chunks.            *)
OrderIsKept ==
  \A t \in Thread: \A e, f \in Journal(t):
    (Precedes(t, e, f) /\ \E m \in Elements(e.of), n \in Elements(f.of): m > n)
    => {e.kind, f.kind} \cap Single = {} /\ Twins(e.kind, f.kind)

(* A flush that returned kept its promise: all that was appended before it *)
(* was called is stored, or was obsolete by then.  Direct writes of        *)
(* routes, forks, side conversations, compactions and deletions read or    *)
(* change the log on that promise.                                         *)
FlushMeansStored ==
  \A t \in Thread: \A n \in 1..flushed[t]:
    \/ \E i \in DOMAIN log[t]: n \in Elements(log[t][i].of)
    \/ Obsolete(t, n, flushed[t])

(* The writer comes to rest without another call: timers fire, chains are  *)
(* worked off and flushes return, also after a write failed and although   *)
(* its operation never stores what it had.                                 *)
WriterSettles ==
  \A t \in Thread: []<>(batch[t] = <<>> /\ writes[t] = <<>> /\ flush[t] = NoFlush)

=============================================================================
