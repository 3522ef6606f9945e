--------------------------- MODULE ThreadEventLog ---------------------------
(***************************************************************************)
(* The event log of one thread and the parties that append to it.          *)
(*                                                                         *)
(* SqliteThreadStore gives an event its sequence number when it stores it; *)
(* the thread's writes are chained, so the log has no holes.  What is told *)
(* to the event bus is another matter: each party publishes what it stored *)
(* on its own, after its await.  RuntimeEventWriter serializes its writes  *)
(* and publishes in order.  Routes and use cases (an edit, a deletion of   *)
(* messages, a revert of file changes) append directly and publish later,  *)
(* either their own event or everything since a sequence number they read  *)
(* before, so their publications repeat and overtake the writer's.  Some   *)
(* calls (thread/name/set, thread/archive, thread/rollback, the archiving  *)
(* of a project, the memory mode) append and publish nothing at all.       *)
(*                                                                         *)
(* What an event says is abstracted to what delivery depends on: a delta   *)
(* is archived by retention, a terminal event flushes the IPC batch of the *)
(* host, and a cut (messages deleted, truncated or cleared) cannot be      *)
(* projected onto a window of the last messages.                           *)
(***************************************************************************)
EXTENDS Integers, Sequences

CONSTANTS
  Kind,        \* the kinds of event a run appends, of EventKind
  MaxSeq,      \* a bound on the length of the log
  MaxBlock,    \* a bound on the events of one write of the writer
  MaxSilent,   \* a bound on appends that nobody publishes
  DirectAppends, \* BOOLEAN: routes and use cases append and publish too
  Retention    \* eventRetentionLimit

EventKind == {"delta", "cut", "terminal"}

ASSUME LogAssumption ==
  /\ Kind \subseteq EventKind
  /\ MaxSeq \in Nat /\ MaxBlock \in Nat \ {0} /\ MaxSilent \in Nat
  /\ DirectAppends \in BOOLEAN /\ Retention \in Nat

VARIABLES
  log,        \* runtime_events and their archive: the kinds, seq is the index
  archived,   \* events_archived_through_seq
  writing,    \* the writer's events that are stored and not yet published
  before,     \* the seq a direct appender read before its append, or NoSeq
  own,        \* the event it stored and has not published, or NoSeq
  silent      \* how many events were appended without being published

logVars == <<log, archived, writing, before, own, silent>>

NoSeq == -1
LastSeq == Len(log)
SeqNo == 1 .. LastSeq
Interval_OffByOne(a, b) == [i \in 1 .. b - a |-> a + i + 1]
Interval(a, b) == [i \in 1 .. b - a |-> a + i]

LogTypeOK ==
  /\ log \in Seq(EventKind)
  /\ archived \in 0 .. LastSeq
  /\ writing \in Seq(SeqNo)
  /\ before \in Int
  /\ own \in SeqNo \cup {NoSeq}
  /\ silent \in Nat

LogInit ==
  /\ log = <<>>
  /\ archived = 0
  /\ writing = <<>>
  /\ before = NoSeq
  /\ own = NoSeq
  /\ silent = 0

(* appendEventsUnlocked: one transaction, numbers from last_seq + 1 on. *)
Append1(kind) ==
  /\ LastSeq < MaxSeq
  /\ log' = Append(log, kind)

(* A write of the writer: the deltas it buffered, or one event, or a       *)
(* domain transaction.  The next write waits until this one is published.  *)
WriterStores ==
  \E n \in 1 .. MaxBlock, kinds \in [1 .. MaxBlock -> Kind] :
    /\ writing = <<>>
    /\ LastSeq + n <= MaxSeq
    /\ log' = log \o SubSeq(kinds, 1, n)
    /\ writing' = Interval(LastSeq, LastSeq + n)
    /\ UNCHANGED <<archived, before, own, silent>>

DirectReads ==
  /\ DirectAppends
  /\ before = NoSeq
  /\ before' = LastSeq
  /\ UNCHANGED <<log, archived, writing, own, silent>>

DirectStores ==
  /\ before # NoSeq /\ own = NoSeq
  /\ \E kind \in Kind : Append1(kind)
  /\ own' = LastSeq + 1
  /\ UNCHANGED <<archived, writing, before, silent>>

SilentStores ==
  /\ silent < MaxSilent
  /\ \E kind \in Kind : Append1(kind)
  /\ silent' = silent + 1
  /\ UNCHANGED <<archived, writing, before, own>>

(* archiveTransientEvents, on the checkpoint timer: the deltas older than  *)
(* the retention limit leave the hot table; the mark is the last of them.  *)
ArchiveDeltas ==
  /\ \E s \in archived + 1 .. LastSeq - Retention :
       /\ log[s] = "delta"
       /\ \A d \in s + 1 .. LastSeq - Retention : log[d] # "delta"
       /\ archived' = s
  /\ UNCHANGED <<log, writing, before, own, silent>>

(* replayEvents: what the hot table still holds after sinceSeq, and        *)
(* whether that may lack events the caller has not seen.                   *)
RequiresResync_OffByOne(since) == since + 1 < archived
RequiresResync(since) == since < archived

HotAfter(since) == {s \in since + 1 .. LastSeq : s > archived \/ log[s] # "delta"}

(* What the parties publish when their await returns. *)
PublishesOwn == <<own>>
PublishesSince == Interval(before, LastSeq)

WriterPublished ==
  /\ writing' = <<>>
  /\ UNCHANGED <<log, archived, before, own, silent>>

DirectPublished ==
  /\ before' = NoSeq
  /\ own' = NoSeq
  /\ UNCHANGED <<log, archived, writing, silent>>

(* The runtime process dies: stored events stay, publications are lost. *)
LogCrash ==
  /\ writing' = <<>>
  /\ before' = NoSeq
  /\ own' = NoSeq
  /\ UNCHANGED <<log, archived, silent>>

=============================================================================
