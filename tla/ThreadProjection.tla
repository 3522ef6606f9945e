-------------------------- MODULE ThreadProjection --------------------------
(***************************************************************************)
(* The renderer's projection of the selected thread                        *)
(* (useRuntimeThreadState, runtimeThreadState, useThreadSnapshotRecovery)  *)
(* on top of the stream that feeds it, and the whole path composed.        *)
(*                                                                         *)
(* The window applies batches behind a sequence gate.  An event that skips *)
(* numbers is applied all the same, and a recovery is requested: a React   *)
(* state, whose effect reads snapshots until one is accepted.  Setting the *)
(* state and the effect are apart: React renders later and takes the last  *)
(* value that was set.                                                     *)
(*                                                                         *)
(* Two variables have no counterpart in the code: `missing' is what the    *)
(* window's projection lacks, `setBack' how far it had come when an answer *)
(* that nobody compared with it took it back.                              *)
(***************************************************************************)
EXTENDS ThreadEventStream

CONSTANT
  MaxVisits   \* a bound on how often the user opens or changes the thread

ASSUME ProjectionAssumption == MaxVisits \in Nat

VARIABLES
  seq,        \* lastSeq of the projection
  missing,    \* the events up to seq it lacks
  setBack,    \* the newest lastSeq an ungated answer replaced by an older one
  wanted,     \* pendingThreadId as rendered
  update,     \* the value last given to setPendingThreadId since the render
  recovery,   \* where the effect's loop is
  snapshot,   \* the lastSeq of the snapshot its request read
  fetched,    \* the lastSeq another GET read (poll, mutation, selection)
  visits

projectionVars == <<seq, missing, setBack, wanted, update, recovery, snapshot, fetched, visits>>
vars == <<logVars, streamVars, projectionVars>>

Recovery == {"off", "asked", "read", "retry"}

(* Every variable has its type, in particular every number on its way is   *)
(* the number of an event.                                                 *)
TypeOK ==
  /\ LogTypeOK
  /\ StreamTypeOK
  /\ seq \in Nat
  /\ missing \subseteq Nat
  /\ setBack \in Nat
  /\ wanted \in BOOLEAN
  /\ update \in {"none", "want", "clear"}
  /\ recovery \in Recovery
  /\ snapshot \in Int /\ fetched \in Int
  /\ visits \in Nat

Init ==
  /\ LogInit
  /\ StreamInit
  /\ seq = 0 /\ missing = {} /\ setBack = 0
  /\ wanted = FALSE /\ update = "none"
  /\ recovery = "off" /\ snapshot = NoSeq
  /\ fetched = NoSeq /\ visits = 0

-----------------------------------------------------------------------------
(* The subscription's callback.                                            *)

(* applyCurrentThreadEventBatch.  Batches are increasing, so the events    *)
(* accepted are those beyond the projection, and what lies between them    *)
(* is skipped.  A resync older than the projection is ignored.             *)
Adopts_Always(resync) == resync # NoSeq
Adopts(resync) == resync # NoSeq /\ resync >= seq

Accepted(events, base) == {s \in ToSet(events) : s > base}
Skipped(events, base) ==
  {s \in 1 .. Last(events) : s > base} \ Accepted(events, base)
Cuts(events, base) == {s \in Accepted(events, base) : log[s] = "cut"}

NeedsSnapshot_SkipsFirst(events, base) ==
  \E s \in Accepted(events, base) :
    /\ \E r \in Accepted(events, base) : r < s
    /\ s - 1 \notin Accepted(events, base)
NeedsSnapshot(events, base) ==
  Skipped(events, base) \cup Cuts(events, base) # {}

Request(wants) == update' = IF wants THEN "want" ELSE update

ApplyBatch ==
  /\ ipc # <<>>
  /\ ipc' = Tail(ipc)
  /\ LET resync == Head(ipc).resync
         events == Head(ipc).events
     IN  IF Adopts(resync)
         THEN seq' = resync /\ missing' = {} /\ UNCHANGED update
         ELSE IF events # <<>> /\ Accepted(events, seq) # {}
         THEN /\ seq' = Last(events)
              /\ missing' = missing \cup Skipped(events, seq) \cup Cuts(events, seq)
              /\ Request(NeedsSnapshot(events, seq))
         ELSE UNCHANGED <<seq, missing, update>>
  /\ UNCHANGED <<logVars, phase, sinceSeq, processed, replay, pending, sending, wire,
                 cursor, batch, faults, setBack, wanted, recovery, snapshot, fetched, visits>>

-----------------------------------------------------------------------------
(* useThreadSnapshotRecovery.                                              *)

(* React renders with the last value set.  The effect runs when that       *)
(* changed the state: its cleanup cancels the old loop, TRUE starts one.   *)
Render ==
  /\ update # "none"
  /\ update' = "none"
  /\ wanted' = (update = "want")
  /\ recovery' = IF wanted' = wanted THEN recovery ELSE IF wanted' THEN "asked" ELSE "off"
  /\ UNCHANGED <<logVars, streamVars, seq, missing, setBack, snapshot, fetched, visits>>

RecoveryReads ==
  /\ recovery = "asked"
  /\ recovery' = "read"
  /\ snapshot' = LastSeq
  /\ UNCHANGED <<logVars, streamVars, seq, missing, setBack, wanted, update, fetched, visits>>

(* accept, that is adoptSnapshot: only a snapshot that is not older. *)
Acceptable(s) == s # NoSeq /\ s >= seq

RecoveryReturns ==
  /\ recovery = "read"
  /\ snapshot' = NoSeq
  /\ IF Acceptable(snapshot)
     THEN /\ seq' = snapshot /\ missing' = {}
          /\ update' = "clear"
          /\ recovery' = "off"
     ELSE /\ recovery' = "retry"
          /\ UNCHANGED <<seq, missing, update>>
  /\ UNCHANGED <<logVars, streamVars, setBack, wanted, fetched, visits>>

RecoveryFails ==
  /\ recovery \in {"asked", "read"} /\ faults < MaxFaults
  /\ recovery' = "retry" /\ snapshot' = NoSeq
  /\ faults' = faults + 1
  /\ UNCHANGED <<logVars, phase, sinceSeq, processed, replay, pending, sending, wire, cursor,
                 batch, ipc, seq, missing, setBack, wanted, update, fetched, visits>>

RetryTimer ==
  /\ recovery = "retry"
  /\ recovery' = "asked"
  /\ UNCHANGED <<logVars, streamVars, seq, missing, setBack, wanted, update, snapshot, fetched, visits>>

-----------------------------------------------------------------------------
(* The window's other reads of the thread.                                 *)

ReadThread ==
  /\ fetched = NoSeq
  /\ fetched' = LastSeq
  /\ UNCHANGED <<logVars, streamVars, seq, missing, setBack, wanted, update, recovery, snapshot, visits>>

(* adoptSnapshot, with the answer of a poll, of the clearing or compaction *)
(* of the context, or of what reconciles an approval or a lost submission. *)
AdoptThread ==
  /\ fetched # NoSeq
  /\ fetched' = NoSeq
  /\ IF Acceptable(fetched) THEN seq' = fetched /\ missing' = {}
                            ELSE UNCHANGED <<seq, missing>>
  /\ UNCHANGED <<logVars, streamVars, setBack, wanted, update, recovery, snapshot, visits>>

(* setCurrentThread, with the answer of a renaming, a deletion or an edit  *)
(* of messages, or with the thread the user selects although it is open:   *)
(* nothing is compared, and the subscription stays as it is.               *)
InstallThread ==
  /\ fetched # NoSeq /\ visits < MaxVisits
  /\ visits' = visits + 1
  /\ seq' = fetched /\ missing' = {}
  /\ setBack' = IF fetched < seq /\ setBack < seq THEN seq ELSE setBack
  /\ fetched' = NoSeq
  /\ UNCHANGED <<logVars, streamVars, wanted, update, recovery, snapshot>>

(* The user left the thread and opens it again with the snapshot fetched:  *)
(* the recovery belonged to the owner that was left.                       *)
OpenThread ==
  /\ fetched # NoSeq /\ visits < MaxVisits
  /\ visits' = visits + 1
  /\ seq' = fetched /\ missing' = {} /\ setBack' = 0
  /\ fetched' = NoSeq
  /\ wanted' = FALSE /\ update' = "none" /\ recovery' = "off" /\ snapshot' = NoSeq
  /\ Subscribe(fetched)
  /\ UNCHANGED <<logVars, faults>>

(* The subscription's effect runs again because a dependency changed. *)
Resubscribe ==
  /\ visits < MaxVisits
  /\ visits' = visits + 1
  /\ Subscribe(seq)
  /\ UNCHANGED <<logVars, faults, seq, missing, setBack, wanted, update, recovery, snapshot, fetched>>

-----------------------------------------------------------------------------
(* The composition.                                                        *)

StoreStep ==
  /\ WriterStores \/ DirectReads \/ DirectStores \/ SilentStores \/ ArchiveDeltas
  /\ UNCHANGED <<streamVars, projectionVars>>

WriterPublishes ==
  /\ writing # <<>>
  /\ Deliver(writing)
  /\ WriterPublished
  /\ UNCHANGED projectionVars

DirectPublishes ==
  /\ own # NoSeq
  /\ Deliver(PublishesOwn) \/ Deliver(PublishesSince)
  /\ DirectPublished
  /\ UNCHANGED projectionVars

HandlerStep ==
  /\ Connect \/ ReadMetadata \/ ReadReplay \/ ReadPage \/ WriteResync \/ WriteDone
  /\ UNCHANGED <<logVars, projectionVars>>

HostStep ==
  /\ ReadFrame \/ FlushTimer \/ Disconnect
  /\ UNCHANGED <<logVars, projectionVars>>

DropConnection ==
  /\ LoseConnection
  /\ UNCHANGED <<logVars, projectionVars>>

(* The runtime process dies and the host starts another: requests fail,    *)
(* stored events that were not published never are.                        *)
RuntimeCrash ==
  /\ faults < MaxFaults
  /\ faults' = faults + 1
  /\ LogCrash
  /\ Close
  /\ UNCHANGED <<sinceSeq, processed, wire, cursor, batch, ipc>>
  /\ fetched' = NoSeq
  /\ snapshot' = NoSeq
  /\ recovery' = IF recovery \in {"asked", "read"} THEN "retry" ELSE recovery
  /\ UNCHANGED <<seq, missing, setBack, wanted, update, visits>>

Next ==
  \/ StoreStep \/ WriterPublishes \/ DirectPublishes
  \/ HandlerStep \/ HostStep \/ DropConnection \/ RuntimeCrash
  \/ ApplyBatch \/ Render
  \/ RecoveryReads \/ RecoveryReturns \/ RecoveryFails \/ RetryTimer
  \/ ReadThread \/ AdoptThread \/ InstallThread \/ OpenThread \/ Resubscribe

Spec == Init /\ [][Next]_vars

(* What the two event loops and React run by themselves: continuations,    *)
(* timers, the reconnection, renders and effects.  Nothing else is fair:   *)
(* appends, polls, selections, archiving and faults happen or do not.      *)
Fairness ==
  /\ WF_vars(WriterPublishes) /\ WF_vars(DirectPublishes)
  /\ WF_vars(HandlerStep) /\ WF_vars(HostStep)
  /\ WF_vars(ApplyBatch) /\ WF_vars(Render)
  /\ WF_vars(RecoveryReads \/ RecoveryReturns \/ RetryTimer)

FairSpec == Spec /\ Fairness

-----------------------------------------------------------------------------
(* Safety.                                                                 *)

(* The window implements the abstract view: whatever is duplicated,        *)
(* overtaken, replayed or resynchronized, it never shows an event that is  *)
(* not stored, never goes back to an older snapshot unless the user opens  *)
(* the thread or changes it by a call whose answer nobody compares, and    *)
(* what it lacks stays known as lacking until a snapshot replaces it.      *)
View == INSTANCE ThreadView WITH stored <- LastSeq
ViewSpec == View!Spec

(* When only the event writer appends, delivery is exact: through replay,  *)
(* hand-over to live events, overflow, archived deltas, resyncs, crashes   *)
(* and reconnections the window misses nothing but what it had already     *)
(* shown when an ungated answer took it back, and unless there was such an *)
(* answer it never asks for a recovery.  (For runs without other appenders *)
(* and without cuts.)                                                      *)
LosslessDelivery ==
  /\ missing \subseteq 1 .. setBack
  /\ update # "none" => setBack # 0

(* "A reconnect resumes from cursor.seq, so every accepted event must      *)
(* leave the pending IPC batch": what the host's cursor has passed is in   *)
(* the batcher or on its way to the window, or the window has been there,  *)
(* which an ungated answer may have taken back since.                      *)
InBatches == UNION {ToSet(b.events) \cup {b.resync} : b \in ToSet(ipc)}
AcceptedIsHandedOver ==
  \/ cursor <= seq
  \/ cursor <= setBack
  \/ cursor \in ToSet(batch) \cup InBatches

-----------------------------------------------------------------------------
(* Liveness.                                                               *)

(* The window passes an event its appender is about to publish, although   *)
(* the publication may find the stream closed, replaying, full or past it, *)
(* or never happen because the process died.  (It is there already, or it  *)
(* was when an ungated answer took it back.)                               *)
PublishedArrives ==
  \A s \in 1 .. MaxSeq :
    (s \in ToSet(writing) \/ own = s) ~> (seq >= s \/ setBack >= s)

(* useThreadSnapshotRecovery: "Incomplete projections recover even after   *)
(* the active turn ends."                                                  *)
IncompleteProjectionsRecover == (missing # {}) ~> (missing = {})

(* The same, unless a gap is noticed after a recovery was accepted and     *)
(* before React renders that it is no longer wanted.                       *)
Overlapped == wanted /\ recovery = "off" /\ update = "want"
RecoversUnlessOverlapped == []~Overlapped => IncompleteProjectionsRecover

=============================================================================
