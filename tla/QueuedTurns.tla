----------------------------- MODULE QueuedTurns -----------------------------
(***************************************************************************)
(* RuntimeQueuedTurnCoordinator: the thread's send queue, its automatic    *)
(* dispatch and the user's operations on it, with the steer path of        *)
(* RuntimeTurnInputCoordinator that "send now" uses.                       *)
(*                                                                         *)
(* runExclusive chains the operations of a thread on one promise tail.     *)
(* `tail' is that chain: its head is the operation that runs, the others   *)
(* wait.  The head advances by steps that end at its awaits; everything    *)
(* outside the chain (direct starts, cancellations, the runs themselves)   *)
(* interleaves with them.  An operation is in the chain from its admission *)
(* on: the write of an inferred model binding that precedes it only delays *)
(* it.  A dispatch that fails for a reason of its own (attachments or      *)
(* model no longer usable) is possible when DispatchMayFail.               *)
(***************************************************************************)
EXTENDS TurnExecution

CONSTANTS
  MaxQueued,       \* MAX_QUEUED_INPUTS_PER_THREAD
  DispatchMayFail  \* BOOLEAN

ASSUME QueueAssumption == MaxQueued \in Nat \ {0} /\ DispatchMayFail \in BOOLEAN

VARIABLES
  withdrawn,    \* persisted: inputs with a turn.input_deleted event
  tail,         \* operationTails: the running operation and those behind it
  step,         \* the await the running operation is at
  opInput,      \* the input the running operation dispatches or steers
  opTurn,       \* the turn it waits for or steers
  dispatching,  \* dispatchingInputIds
  paused,       \* the thread is in pausedThreads
  latest,       \* latestObservedRuns: the turn of the last observed run
  unobserved,   \* the turns that are registered and not observed yet
  request       \* input -> where the call that submitted it is, or its answer

queueVars == <<withdrawn, tail, step, opInput, opTurn, dispatching, paused, latest,
             unobserved>>

Step == {"idle", "resume", "withdraw", "reorder", "completed", "interrupted",
         "create", "wait", "register", "observe", "steer", "publish"}
Operation == [do : {"enqueue", "sendNow", "withdraw", "reorder", "settle"},
              input : Input \cup {NoInput}, turn : Turn \cup {NoTurn}, order : Seq(Input)]
Answer == {"accepted", "refused", "unknown"}
Request == {"none", "asking", "sawIdle", "queueing", "enqueue", "create", "wait",
            "register", "observe", "steer", "publish"} \cup Answer

QueueTypeOK ==
  /\ withdrawn \subseteq Input
  /\ tail \in Seq(Operation)
  /\ step \in Step
  /\ opInput \in Input \cup {NoInput}
  /\ opTurn \in Turn \cup {NoTurn}
  /\ dispatching \subseteq Input
  /\ paused \in BOOLEAN
  /\ latest \in Turn \cup {NoTurn}
  /\ unobserved \subseteq Turn
  /\ request \in [Input -> Request]

QueueInit ==
  /\ withdrawn = {}
  /\ tail = <<>>
  /\ step = "idle"
  /\ opInput = NoInput
  /\ opTurn = NoTurn
  /\ dispatching = {}
  /\ paused = FALSE
  /\ latest = NoTurn
  /\ unobserved = {}
  /\ request = [i \in Input |-> "none"]

InputOp(do, i) == [do |-> do, input |-> i, turn |-> NoTurn, order |-> <<>>]
ReorderOp(order) == [do |-> "reorder", input |-> NoInput, turn |-> NoTurn, order |-> order]
SettleOp(t) == [do |-> "settle", input |-> NoInput, turn |-> t, order |-> <<>>]

Busy == tail # <<>>
Op == Head(tail)
Starts(do) == Busy /\ step = "idle" /\ Op.do = do
At(s) == Busy /\ step = s

-----------------------------------------------------------------------------
(* How the running operation advances, ends and dispatches.                *)

Await(s, i, t) ==
  /\ step' = s
  /\ opInput' = i
  /\ opTurn' = t
  /\ UNCHANGED <<tail, latest, unobserved>>

(* The operation is over.  A settlement forgets its run on the way out     *)
(* unless another run was observed since.                                  *)
Leave ==
  /\ tail' = Tail(tail)
  /\ step' = "idle"
  /\ opInput' = NoInput
  /\ opTurn' = NoTurn

EndOp ==
  /\ Leave
  /\ latest' = IF Op.do = "settle" /\ Op.turn = latest THEN NoTurn ELSE latest
  /\ UNCHANGED unobserved

(* What the caller of an enqueue is told when the operation ends. *)
Reply(answer) ==
  request' = IF Op.do = "enqueue" THEN [request EXCEPT ![Op.input] = answer] ELSE request

(* The dispatchable head of the queue. *)
IsNext_SkipsDispatching(i) == queue # <<>> /\ Head(queue) = i
IsNext(i) ==
  \E k \in 1 .. Len(queue) :
    /\ queue[k] = i
    /\ i \notin dispatching
    /\ \A j \in 1 .. k - 1 : queue[j] \in dispatching

(* dispatchInputIfIdle up to its first await: the item stays queued while  *)
(* the thread is paused or has an active turn, and startRegularTurn        *)
(* refuses at once when the thread admits no work.                         *)
HoldsBack(isPaused) == isPaused \/ ActiveTurn # NoTurn

Dispatch(i, isPaused) ==
  IF HoldsBack(isPaused) \/ ~AcceptingWork
    THEN /\ EndOp
         /\ Reply(IF HoldsBack(isPaused) THEN "accepted" ELSE "refused")
         /\ UNCHANGED dispatching
    ELSE /\ dispatching' = dispatching \cup {i}
         /\ Await("create", i, NoTurn)
         /\ UNCHANGED request

-----------------------------------------------------------------------------
(* Starting the dispatched turn: createRegular.                            *)

(* waitForFinalizingRegularTurn looks once; what becomes active later is   *)
(* found by start().                                                       *)
FinalizingRegularTurn ==
  IF ActiveTurn # NoTurn /\ kind[ActiveTurn] = "regular" /\ ActiveTurn \notin accepting
    THEN ActiveTurn ELSE NoTurn

CreateDispatched ==
  /\ At("create")
  /\ IF FinalizingRegularTurn # NoTurn
       THEN Await("wait", opInput, FinalizingRegularTurn)
       ELSE Await("register", opInput, NoTurn)
  /\ UNCHANGED <<registryVars, executionVars, withdrawn, dispatching, paused, request>>

FinalizedTurnSettled ==
  /\ At("wait")
  /\ opTurn \notin registered
  /\ Await("register", opInput, NoTurn)
  /\ UNCHANGED <<registryVars, executionVars, withdrawn, dispatching, paused, request>>

(* The turn is registered; whoever started it learns so some promise hops  *)
(* later, and only then observes the run.  What is in flight goes on in    *)
(* between, but the run does not end: it first has to store an event.      *)
Register(t, k, i) ==
  /\ BeginRun(t, k, i)
  /\ unobserved' = unobserved \cup {t}

(* observeRun: this is the latest run now. *)
Observe_Skips(t) == unobserved' = unobserved \ {t} /\ UNCHANGED latest
Observe(t) ==
  /\ unobserved' = unobserved \ {t}
  /\ latest' = t

StartDispatched(t) ==
  /\ At("register")
  /\ Register(t, "regular", opInput)
  /\ step' = "observe"
  /\ opTurn' = t
  /\ UNCHANGED <<withdrawn, tail, opInput, dispatching, paused, latest, request>>

(* The run is observed and the operation returns "started". *)
ObserveDispatched ==
  /\ At("observe")
  /\ Leave
  /\ Observe(opTurn)
  /\ Reply("accepted")
  /\ UNCHANGED <<registryVars, executionVars, withdrawn, dispatching, paused>>

(* The turn could not start: the item stays as it was.  The caller gets    *)
(* the error unless another turn is active now.                            *)
DispatchFails ==
  /\ At("register")
  /\ ~CanStart \/ DispatchMayFail
  /\ dispatching' = dispatching \ {opInput}
  /\ Reply(IF ActiveTurn # NoTurn THEN "accepted" ELSE "refused")
  /\ EndOp
  /\ UNCHANGED <<registryVars, executionVars, withdrawn, paused>>

-----------------------------------------------------------------------------
(* The operations.                                                         *)

(* enqueue: the capacity check, then turn.input_queued.  Only operations   *)
(* of the chain add to the queue.                                          *)
QueueFull_OffByOne == Len(queue) > MaxQueued
QueueFull == Len(queue) >= MaxQueued

Enqueue ==
  /\ Starts("enqueue")
  /\ IF QueueFull
       THEN /\ EndOp
            /\ Reply("refused")
            /\ UNCHANGED queue
       ELSE /\ queue' = Append(queue, Op.input)
            /\ Await("resume", NoInput, NoTurn)
            /\ UNCHANGED request
  /\ UNCHANGED <<registryVars, publishedIn, started, terminal, runVars,
                 withdrawn, dispatching, paused>>

(* A stored input resumes a paused queue, oldest item first. *)
ResumeAfterEnqueue ==
  /\ At("resume")
  /\ paused' = FALSE
  /\ \/ \E i \in Input : IsNext(i) /\ Dispatch(i, FALSE)
     \/ /\ \A i \in Input : ~IsNext(i)
        /\ EndOp
        /\ Reply("accepted")
        /\ UNCHANGED dispatching
  /\ UNCHANGED <<registryVars, executionVars, withdrawn>>

(* reorder: an exact permutation of the queue, none of it being sent. *)
Reorderable_AllowsStale(order) ==
  Elems(queue) \cap dispatching = {}
Reorderable(order) ==
  /\ Len(order) = Len(queue)
  /\ Elems(order) = Elems(queue)
  /\ Elems(queue) \cap dispatching = {}

CheckReorder ==
  /\ Starts("reorder")
  /\ IF Reorderable(Op.order) /\ Op.order # queue
       THEN Await("reorder", NoInput, NoTurn)
       ELSE EndOp
  /\ UNCHANGED <<registryVars, executionVars, withdrawn, dispatching, paused, request>>

StoreReorder ==
  /\ At("reorder")
  /\ queue' \in [1 .. Len(queue) -> Elems(queue)]
  /\ Sorted(queue', queue, Op.order)
  /\ EndOp
  /\ UNCHANGED <<registryVars, publishedIn, started, terminal, runVars,
                 withdrawn, dispatching, paused, request>>

(* requireQueuedInput and assertNotDispatching. *)
Selectable_IgnoresDispatching(i) == i \in Elems(queue)
Selectable(i) == i \in Elems(queue) \ dispatching

(* delete and retrieve: the same checks and the same event. *)
CheckWithdraw ==
  /\ Starts("withdraw")
  /\ IF Selectable(Op.input)
       THEN Await("withdraw", Op.input, NoTurn)
       ELSE EndOp
  /\ UNCHANGED <<registryVars, executionVars, withdrawn, dispatching, paused, request>>

StoreWithdraw ==
  /\ At("withdraw")
  /\ queue' = Without(queue, opInput)
  /\ withdrawn' = withdrawn \cup {opInput}
  /\ EndOp
  /\ UNCHANGED <<registryVars, publishedIn, started, terminal, runVars,
                 dispatching, paused, request>>

(* sendNow: refused for an item that is gone or being sent, and while an   *)
(* active turn cannot be steered; then it unpauses the thread and steers   *)
(* the active turn, or dispatches the item.                                *)
SendNow ==
  /\ Starts("sendNow")
  /\ \/ /\ ~Selectable(Op.input) \/ (ActiveTurn # NoTurn /\ ~Steerable(kind[ActiveTurn]))
        /\ EndOp
        /\ UNCHANGED <<paused, dispatching, writers, request>>
     \/ /\ Selectable(Op.input)
        /\ ActiveTurn # NoTurn => Steerable(kind[ActiveTurn])
        /\ paused' = FALSE
        /\ IF ActiveTurn # NoTurn /\ ActiveTurn \in accepting
             THEN /\ writers' = [writers EXCEPT ![ActiveTurn] = @ \cup {Op.input}]
                  /\ Await("steer", Op.input, ActiveTurn)
                  /\ UNCHANGED <<dispatching, request>>
             ELSE Dispatch(Op.input, FALSE) /\ UNCHANGED writers
  /\ UNCHANGED <<registryVars, threadVars, pc, kind, source, steers, cancelWrite, withdrawn>>

(* writeSteer after its checks of the attachments: the abort signal is     *)
(* looked at again.  An expired steer falls back to a dispatch; another    *)
(* error ends the operation and leaves the item queued.                    *)
RecheckSendNow ==
  /\ At("steer")
  /\ \/ /\ opTurn \notin aborted
        /\ Await("publish", opInput, opTurn)
        /\ UNCHANGED <<writers, dispatching, request>>
     \/ /\ opTurn \in aborted
        /\ writers' = [writers EXCEPT ![opTurn] = @ \ {opInput}]
        /\ Dispatch(opInput, FALSE)
     \/ /\ DispatchMayFail
        /\ writers' = [writers EXCEPT ![opTurn] = @ \ {opInput}]
        /\ EndOp
        /\ UNCHANGED <<dispatching, request>>
  /\ UNCHANGED <<registryVars, threadVars, pc, kind, source, steers, cancelWrite,
                 withdrawn, paused>>

(* The steer message is durable (which takes the item off the queue), then *)
(* enqueueSteer and settleWrite.                                           *)
AcceptSteer(i, t) ==
  /\ StoreMessage(i, t)
  /\ steers' = [steers EXCEPT ![t] = @ \cup {i}]
  /\ writers' = [writers EXCEPT ![t] = @ \ {i}]

PublishSendNow ==
  /\ At("publish")
  /\ AcceptSteer(opInput, opTurn)
  /\ EndOp
  /\ UNCHANGED <<registryVars, pc, kind, source, cancelWrite,
                 withdrawn, dispatching, paused, request>>

-----------------------------------------------------------------------------
(* Settlement of an observed run.                                          *)

(* done settles: its observer joins the chain, and the item the turn was   *)
(* dispatched for is no longer being sent.                                 *)
SettleRun(t) ==
  /\ t \notin unobserved
  /\ EndRun(t)
  /\ tail' = Append(tail, SettleOp(t))
  /\ dispatching' = dispatching \ {source[t]}
  /\ UNCHANGED <<withdrawn, step, opInput, opTurn, paused, latest, unobserved, request>>

(* onTurnSettled: nothing for a run that is not the latest observed one;   *)
(* otherwise its terminal events are read, where an interruption wins over *)
(* a completion stored later.                                              *)
Superseded_Never(t) == FALSE
Superseded(t) == latest # t

Outcome(t) ==
  IF terminal[t] = {"completed"} THEN "completed" ELSE "interrupted"

ReadOutcome ==
  /\ Starts("settle")
  /\ IF Superseded(Op.turn) THEN EndOp
                            ELSE Await(Outcome(Op.turn), NoInput, NoTurn)
  /\ UNCHANGED <<registryVars, executionVars, withdrawn, dispatching, paused, request>>

PauseAfterInterruption ==
  /\ At("interrupted")
  /\ paused' = (paused \/ (~Superseded(Op.turn) /\ queue # <<>>))
  /\ EndOp
  /\ UNCHANGED <<registryVars, executionVars, withdrawn, dispatching, request>>

ContinueAfterCompletion ==
  /\ At("completed")
  /\ \/ /\ ~Superseded(Op.turn)
        /\ ~paused
        /\ \E i \in Input : IsNext(i) /\ Dispatch(i, paused)
     \/ /\ Superseded(Op.turn) \/ paused \/ \A i \in Input : ~IsNext(i)
        /\ EndOp
        /\ UNCHANGED <<dispatching, request>>
  /\ UNCHANGED <<registryVars, executionVars, withdrawn, paused>>

=============================================================================
