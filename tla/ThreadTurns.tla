----------------------------- MODULE ThreadTurns -----------------------------
(***************************************************************************)
(* One thread of AgentLoop: the registry, the runs and the send queue      *)
(* composed with what drives them: direct starts (startTurn), queued       *)
(* inputs, steers, cancellation, deletion of the thread, preparation of a  *)
(* data migration, and the restart of the runtime process.                 *)
(*                                                                         *)
(* A call that submits an input is a process of its own; request[i] is     *)
(* where it is.  The thread's persisted state survives a restart; all else *)
(* is memory.                                                              *)
(***************************************************************************)
EXTENDS QueuedTurns

CONSTANTS
  MaxPending,   \* bound: operations waiting in the chain when one is added
  MaxOther,     \* bound: review and user shell turns
  OtherKind,    \* the kinds these turns may have
  MaxCancels,   \* bound: user cancellations
  MaxRestarts,  \* bound: restarts of the runtime process
  Deletes,      \* BOOLEAN: the thread may be deleted
  Migrates      \* BOOLEAN: a data migration may be prepared

ASSUME BoundsAssumption ==
  /\ MaxPending \in Nat
  /\ MaxOther \in Nat
  /\ OtherKind \subseteq {"review", "user_shell"}
  /\ MaxCancels \in Nat
  /\ MaxRestarts \in Nat
  /\ Deletes \in BOOLEAN
  /\ Migrates \in BOOLEAN

VARIABLES
  forced,    \* turns a cancel call found active in the log but not running
  target,    \* input -> the turn its call waits for or steers
  deletion,  \* where withThreadDeletionBarrier is
  cancels,   \* user cancellations so far (bound only)
  restarts   \* restarts so far (bound only)

vars == <<registryVars, executionVars, queueVars, request, forced, target,
          deletion, cancels, restarts>>

DeletionStep == {"none", "cancel", "writes", "admissions", "cancel again",
                 "writes again", "operation", "deleted"}

TypeOK ==
  /\ RegistryTypeOK
  /\ ExecutionTypeOK
  /\ QueueTypeOK
  /\ forced \subseteq Turn
  /\ target \in [Input -> Turn \cup {NoTurn}]
  /\ deletion \in DeletionStep
  /\ cancels \in Nat
  /\ restarts \in Nat

Init ==
  /\ RegistryInit
  /\ ExecutionInit
  /\ QueueInit
  /\ forced = {}
  /\ target = [i \in Input |-> NoTurn]
  /\ deletion = "none"
  /\ cancels = 0
  /\ restarts = 0

idleDriver == <<forced, target, deletion, cancels, restarts>>

-----------------------------------------------------------------------------
(* The calls of the client.                                                *)

Ask(i, from, to, t) ==
  /\ request[i] \in from
  /\ request' = [request EXCEPT ![i] = to]
  /\ target' = [target EXCEPT ![i] = t]
  /\ UNCHANGED <<forced, deletion, cancels, restarts>>

Add(op) ==
  /\ tail' = Append(tail, op)
  /\ UNCHANGED <<withdrawn, step, opInput, opTurn, dispatching, paused, latest, unobserved>>

(* startTurn is admitted. *)
StartTurn(i) ==
  /\ AcceptingWork
  /\ Ask(i, {"none"}, "asking", NoTurn)
  /\ UNCHANGED <<registryVars, executionVars, queueVars>>

(* startTurn of an automation: it does not look at the queue. *)
StartUnattended(i) ==
  /\ AcceptingWork
  /\ Ask(i, {"none"}, "create", NoTurn)
  /\ UNCHANGED <<registryVars, executionVars, queueVars>>

(* It looks for an active turn first, then, an await later, at the queue.  *)
LookForActive(i) ==
  /\ Ask(i, {"asking"}, IF ActiveTurn # NoTurn THEN "queueing" ELSE "sawIdle", NoTurn)
  /\ UNCHANGED <<registryVars, executionVars, queueVars>>

LookAtQueue(i) ==
  /\ Ask(i, {"sawIdle"}, IF queue # <<>> THEN "queueing" ELSE "create", NoTurn)
  /\ UNCHANGED <<registryVars, executionVars, queueVars>>

(* The input goes to the queue: enqueue joins the chain. *)
RedirectToQueue(i) ==
  /\ Ask(i, {"queueing"}, "enqueue", NoTurn)
  /\ Add(InputOp("enqueue", i))
  /\ UNCHANGED <<registryVars, executionVars>>

(* queueTurnInput. *)
QueueInput(i) ==
  /\ AcceptingWork
  /\ Len(tail) < MaxPending
  /\ Ask(i, {"none"}, "enqueue", NoTurn)
  /\ Add(InputOp("enqueue", i))
  /\ UNCHANGED <<registryVars, executionVars>>

(* createRegular outside the chain. *)
CreateDirect(i) ==
  /\ Ask(i, {"create"}, IF FinalizingRegularTurn # NoTurn THEN "wait" ELSE "register",
         FinalizingRegularTurn)
  /\ UNCHANGED <<registryVars, executionVars, queueVars>>

DirectWaitOver(i) ==
  /\ target[i] \notin registered
  /\ Ask(i, {"wait"}, "register", NoTurn)
  /\ UNCHANGED <<registryVars, executionVars, queueVars>>

(* The run is registered inside the factory and observed by its caller.    *)
StartDirect(i, t) ==
  /\ Ask(i, {"register"}, "observe", t)
  /\ Register(t, "regular", i)
  /\ UNCHANGED <<withdrawn, tail, step, opInput, opTurn, dispatching, paused, latest>>

ObserveDirect(i) ==
  /\ Ask(i, {"observe"}, "accepted", NoTurn)
  /\ Observe(target[i])
  /\ UNCHANGED <<registryVars, executionVars, withdrawn, tail, step, opInput, opTurn,
                 dispatching, paused>>

DirectFails(i) ==
  /\ ~CanStart \/ DispatchMayFail
  /\ Ask(i, {"register"}, "refused", NoTurn)
  /\ UNCHANGED <<registryVars, executionVars, queueVars>>

(* steerTurn: the checks and beginWrite. *)
SteerTurn(i) ==
  /\ AcceptingWork
  /\ ActiveTurn \in accepting
  /\ Ask(i, {"none"}, "steer", ActiveTurn)
  /\ writers' = [writers EXCEPT ![ActiveTurn] = @ \cup {i}]
  /\ UNCHANGED <<registryVars, threadVars, pc, kind, source, steers, cancelWrite, queueVars>>

RecheckSteer_DropsExpired(i) ==
  /\ target[i] \notin aborted
  /\ Ask(i, {"steer"}, "publish", target[i])
  /\ UNCHANGED <<registryVars, executionVars, queueVars>>
RecheckSteer(i) ==
  /\ \/ /\ target[i] \notin aborted
        /\ Ask(i, {"steer"}, "publish", target[i])
        /\ UNCHANGED writers
     \/ /\ target[i] \in aborted \/ DispatchMayFail
        /\ Ask(i, {"steer"}, "refused", NoTurn)
        /\ writers' = [writers EXCEPT ![target[i]] = @ \ {i}]
  /\ UNCHANGED <<registryVars, threadVars, pc, kind, source, steers, cancelWrite, queueVars>>

PublishSteer(i) ==
  /\ Ask(i, {"publish"}, "accepted", NoTurn)
  /\ AcceptSteer(i, target[i])
  /\ UNCHANGED <<registryVars, pc, kind, source, cancelWrite, queueVars>>

(* The operations on a queued item the user sees. *)
Click(op) ==
  /\ AcceptingWork
  /\ Len(tail) < MaxPending
  /\ Add(op)
  /\ UNCHANGED <<registryVars, executionVars, request, idleDriver>>

ClickSendNow(i) == i \in Elems(queue) /\ Click(InputOp("sendNow", i))
ClickWithdraw(i) == i \in Elems(queue) /\ Click(InputOp("withdraw", i))
Drag ==
  \E order \in [1 .. Len(queue) -> Elems(queue)] :
    /\ Elems(order) = Elems(queue)
    /\ order # queue
    /\ Click(ReorderOp(order))

(* A review is started by a factory too; a user shell turn is registered   *)
(* and observed at once.                                                   *)
OtherAllowed ==
  /\ AcceptingWork
  /\ Cardinality({u \in Turn : source[u] = NoInput /\ pc[u] # "none"}) < MaxOther

StartReview(t) ==
  /\ OtherAllowed
  /\ "review" \in OtherKind
  /\ Register(t, "review", NoInput)
  /\ UNCHANGED <<withdrawn, tail, step, opInput, opTurn, dispatching, paused, latest,
                 request, idleDriver>>

ObserveReview(t) ==
  /\ t \in unobserved
  /\ kind[t] = "review"
  /\ Observe(t)
  /\ UNCHANGED <<registryVars, executionVars, withdrawn, tail, step, opInput, opTurn,
                 dispatching, paused, request, idleDriver>>

StartShell(t) ==
  /\ OtherAllowed
  /\ "user_shell" \in OtherKind
  /\ BeginRun(t, "user_shell", NoInput)
  /\ Observe(t)
  /\ UNCHANGED <<withdrawn, tail, step, opInput, opTurn, dispatching, paused,
                 request, idleDriver>>

(* Turns the log shows as running. *)
StaleTurns == {t \in started : terminal[t] = {}}

(* cancelTurn: abort, then the terminal event before anything else.  Its    *)
(* caller knows the turn from the answer of the start or from turn.started, *)
(* so the run is observed by then.                                          *)
CancelTurn(t) ==
  /\ cancels < MaxCancels
  /\ t \notin unobserved
  /\ Cancellable(t)
  /\ AbortTask(t)
  /\ cancelWrite' = [cancelWrite EXCEPT ![t] = "check"]
  /\ cancels' = cancels + 1
  /\ UNCHANGED <<threadVars, pc, kind, source, steers, writers, queueVars, request,
                 forced, target, deletion, restarts>>

(* cancelRuntimeTurn when cancelTurn found nothing to cancel: a turn that   *)
(* the thread still shows as running gets its turn.cancelled directly, an   *)
(* await after the thread was read.                                         *)
ForceCancel(t) ==
  /\ cancels < MaxCancels
  /\ ~Cancellable(t)
  /\ t \in StaleTurns
  /\ forced' = forced \cup {t}
  /\ cancels' = cancels + 1
  /\ UNCHANGED <<registryVars, executionVars, queueVars, request, target, deletion, restarts>>

WriteForced(t) ==
  /\ t \in forced
  /\ forced' = forced \ {t}
  /\ StoreTerminal(t, "cancelled")
  /\ UNCHANGED <<registryVars, runVars, queueVars, request, target, deletion,
                 cancels, restarts>>

-----------------------------------------------------------------------------
(* withThreadDeletionBarrier.                                              *)

(* ThreadMutationAdmissions: the calls in flight, the shell command that   *)
(* is admitted until it ends, a review until its run is observed, and the  *)
(* nested admission of a dispatch.                                         *)
Admitted ==
  \/ \E i \in Input : request[i] \notin {"none"} \cup Answer
  \/ \E k \in 1 .. Len(tail) : tail[k].do # "settle"
  \/ step \in {"create", "wait", "register"}
  \/ \E t \in registered : kind[t] = "user_shell"
  \/ \E t \in unobserved : kind[t] = "review"

Deletion(from, to) ==
  /\ deletion = from
  /\ deletion' = to
  /\ UNCHANGED <<request, forced, target, cancels, restarts, queueVars>>

BeginDeletion ==
  /\ Deletes
  /\ AcceptingWork
  /\ Deletion("none", "cancel")
  /\ Refuse("deleting")
  /\ UNCHANGED executionVars

(* cancelThreadTurnsAndWait: the slot's task is cancelled and awaited,     *)
(* until the slot is empty.                                                *)
CancelSlot_AnySlot ==
  /\ deletion \in {"cancel", "cancel again"}
  /\ current \notin aborted
  /\ AbortTask(current)
  /\ cancelWrite' = [cancelWrite EXCEPT ![current] = "check"]
  /\ UNCHANGED <<threadVars, pc, kind, source, steers, writers, queueVars, request, idleDriver>>
CancelSlot ==
  /\ deletion \in {"cancel", "cancel again"}
  /\ current # NoTurn
  /\ current \notin aborted
  /\ AbortTask(current)
  /\ cancelWrite' = [cancelWrite EXCEPT ![current] = "check"]
  /\ UNCHANGED <<threadVars, pc, kind, source, steers, writers, queueVars, request, idleDriver>>

SlotEmpty ==
  /\ current = NoTurn
  /\ \/ Deletion("cancel", "writes")
     \/ Deletion("cancel again", "writes again")
  /\ UNCHANGED <<registryVars, executionVars>>

CancellationsWritten ==
  /\ \A t \in Turn : cancelWrite[t] = "idle"
  /\ \/ Deletion("writes", "admissions")
     \/ Deletion("writes again", "operation")
  /\ UNCHANGED <<registryVars, executionVars>>

AdmissionsDrained_Skipped ==
  /\ Deletion("admissions", "cancel again")
  /\ UNCHANGED <<registryVars, executionVars>>
AdmissionsDrained ==
  /\ ~Admitted
  /\ Deletion("admissions", "cancel again")
  /\ UNCHANGED <<registryVars, executionVars>>

DeleteThread ==
  /\ Deletion("operation", "deleted")
  /\ UNCHANGED <<registryVars, executionVars>>

DeletionFails ==
  /\ Deletion("operation", "none")
  /\ Readmit("deleting")
  /\ UNCHANGED executionVars

-----------------------------------------------------------------------------
(* The maintenance gate and restarts.                                      *)

(* A request in flight keeps the gate open: a cancellation or a deletion   *)
(* is one too.                                                             *)
RequestsInFlight ==
  deletion # "none" \/ forced # {} \/ \E t \in Turn : cancelWrite[t] # "idle"

Quiescent_IgnoresHidden == ActiveTurn = NoTurn /\ ~Admitted /\ ~RequestsInFlight
Quiescent == registered = {} /\ ~Admitted /\ ~RequestsInFlight

PrepareMigration ==
  /\ Migrates
  /\ "migrating" \notin closed
  /\ Quiescent
  /\ Refuse("migrating")
  /\ UNCHANGED <<executionVars, queueVars, request, idleDriver>>

CancelMigration ==
  /\ "migrating" \in closed
  /\ Readmit("migrating")
  /\ UNCHANGED <<executionVars, queueVars, request, idleDriver>>

(* The process dies and a new one comes up; before it serves requests,     *)
(* settleStaleRuntimeTurns cancels every turn the log shows as running.    *)
(* A call cut off by the crash has no known answer.                        *)
Restart ==
  /\ restarts < MaxRestarts
  /\ restarts' = restarts + 1
  /\ registered' = {}
  /\ current' = NoTurn
  /\ aborted' = {}
  /\ accepting' = {}
  /\ closed' = {}
  /\ terminal' = [t \in Turn |-> IF t \in StaleTurns THEN {"cancelled"} ELSE terminal[t]]
  /\ pc' = [t \in Turn |-> IF pc[t] = "none" THEN "none" ELSE "done"]
  /\ steers' = [t \in Turn |-> {}]
  /\ writers' = [t \in Turn |-> {}]
  /\ cancelWrite' = [t \in Turn |-> "idle"]
  /\ tail' = <<>>
  /\ step' = "idle"
  /\ opInput' = NoInput
  /\ opTurn' = NoTurn
  /\ dispatching' = {}
  /\ paused' = FALSE
  /\ latest' = NoTurn
  /\ unobserved' = {}
  /\ request' = [i \in Input |-> IF request[i] \in {"none"} \cup Answer
                                   THEN request[i] ELSE "unknown"]
  /\ forced' = {}
  /\ target' = [i \in Input |-> NoTurn]
  /\ deletion' = "none"
  /\ UNCHANGED <<queue, publishedIn, started, kind, source, withdrawn, cancels>>

-----------------------------------------------------------------------------
(* What a run and its cancellation writer do when nothing fails. *)
Proceed(t) ==
  /\ \/ WriteStarted(t)
     \/ ShellUnavailable(t)
     \/ PublishInput(t)
     \/ DrainSteers(t)
     \/ CloseTurn(t)
     \/ FinalDrain(t)
     \/ CompleteTurn(t)
     \/ StopByHook(t)
     \/ CompleteStopped(t)
     \/ CompleteShell(t)
     \/ WriteError(t)
     \/ NoticeAbort(t)
     \/ LeaveAborted(t)
     \/ CheckTerminal(t)
     \/ WriteCancelled(t)
  /\ UNCHANGED <<queueVars, request, idleDriver>>

RunnerStep(t) ==
  \/ Proceed(t)
  \/ FailTurn(t) /\ UNCHANGED <<queueVars, request, idleDriver>>

ChainStep ==
  /\ \/ \E t \in Turn : StartDispatched(t)
     \/ CreateDispatched
     \/ FinalizedTurnSettled
     \/ ObserveDispatched
     \/ DispatchFails
     \/ Enqueue
     \/ ResumeAfterEnqueue
     \/ CheckReorder
     \/ StoreReorder
     \/ CheckWithdraw
     \/ StoreWithdraw
     \/ SendNow
     \/ RecheckSendNow
     \/ PublishSendNow
     \/ ReadOutcome
     \/ PauseAfterInterruption
     \/ ContinueAfterCompletion
  /\ UNCHANGED idleDriver

CallStep(i) ==
  \/ LookForActive(i)
  \/ LookAtQueue(i)
  \/ RedirectToQueue(i)
  \/ CreateDirect(i)
  \/ DirectWaitOver(i)
  \/ \E t \in Turn : StartDirect(i, t)
  \/ ObserveDirect(i)
  \/ DirectFails(i)
  \/ RecheckSteer(i)
  \/ PublishSteer(i)

User ==
  \/ \E i \in Input :
       \/ StartTurn(i)
       \/ StartUnattended(i)
       \/ QueueInput(i)
       \/ SteerTurn(i)
       \/ ClickSendNow(i)
       \/ ClickWithdraw(i)
  \/ Drag
  \/ \E t \in Turn : CancelTurn(t) \/ ForceCancel(t)
  \/ \E t \in Turn : StartReview(t) \/ StartShell(t)

DeletionProgress ==
  \/ CancelSlot
  \/ SlotEmpty
  \/ CancellationsWritten
  \/ AdmissionsDrained
  \/ DeleteThread
  \/ DeletionFails

(* A deleted thread has no further history: what still runs cannot store.  *)
Next ==
  /\ deletion # "deleted"
  /\ \/ User
     \/ \E t \in Turn : RunnerStep(t)
     \/ \E t \in Turn : SettleRun(t) /\ UNCHANGED idleDriver
     \/ \E t \in Turn : ObserveReview(t)
     \/ \E t \in Turn : WriteForced(t)
     \/ ChainStep
     \/ \E i \in Input : CallStep(i)
     \/ BeginDeletion
     \/ DeletionProgress
     \/ PrepareMigration
     \/ CancelMigration
     \/ Restart

Spec == Init /\ [][Next]_vars

(* Promise continuations are run by the event loop: a runner, a cancellation *)
(* writer, a chain, a call and a deletion that can go on eventually do.  The *)
(* user, errors, crashes and the maintenance gate owe nothing.               *)
Fairness ==
  /\ \A t \in Turn :
       /\ WF_vars(Proceed(t))
       /\ WF_vars(SettleRun(t) /\ UNCHANGED idleDriver)
       /\ WF_vars(ObserveReview(t))
  /\ WF_vars(ChainStep)
  /\ \A i \in Input : WF_vars(CallStep(i))
  /\ WF_vars(DeletionProgress)

FairSpec == Spec /\ Fairness

-----------------------------------------------------------------------------
(* Properties.                                                             *)

(* The promise of the send queue, "nothing lost, nothing sent twice": the  *)
(* user message of an input is stored in one turn, once.                   *)
SentAtMostOnce == \A i \in Input : Len(publishedIn[i]) <= 1

(* An input the user took back never reaches a turn: a withdrawal and a    *)
(* dispatch, a steer or a direct start of the same input exclude another.  *)
WithdrawnIsNotSent ==
  \A i \in withdrawn : publishedIn[i] = <<>> /\ i \notin Elems(queue)

(* However many cancelled turns still unwind, the thread has one turn that *)
(* was not cancelled, and it is the one activeForThread answers.           *)
SingleActive == registered \ aborted \subseteq {current}

(* No input drives two runs, not even when the first of them was cancelled *)
(* and still unwinds while the queue goes on.                              *)
OneRunPerInput ==
  \A t, u \in Turn :
    Running(t) /\ Running(u) /\ source[t] = source[u] /\ source[t] # NoInput => t = u

(* A turn that was not cancelled passes its last drain only with every     *)
(* accepted steer handed to the model and no steer write in flight.        *)
NoStrandedSteer ==
  \A t \in Turn \ aborted :
    pc[t] = "finalizing" => steers[t] = {} /\ writers[t] = {}

(* A turn whose done promise settled has told the log how it ended.        *)
SettledTurnHasEnded == \A t \in started : pc[t] = "done" => terminal[t] # {}

(* When the barrier lets the deletion run, nothing the user asked for can  *)
(* still start or change a turn: only runs that were cancelled are left.   *)
DeletionHasDrained ==
  deletion \in {"operation", "deleted"} =>
    /\ current = NoTurn
    /\ registered \subseteq aborted
    /\ ~Admitted

(* An input whose call was answered with success is queued, or was sent or *)
(* withdrawn, or is what a run that has not stored it yet was started for. *)
Kept(i) ==
  \/ i \in Elems(queue) \cup withdrawn
  \/ publishedIn[i] # <<>>
  \/ \E t \in Turn : Running(t) /\ source[t] = i
AcceptedInputIsKept == \A i \in Input : request[i] = "accepted" => Kept(i)

(* The capacity check and the event it admits are two awaits apart, but    *)
(* the queue never holds more than its limit.                              *)
QueueIsBounded == Len(queue) <= MaxQueued

(* A thread at rest with a queue that nobody paused would never send it:   *)
(* somebody always still owes the next dispatch.                           *)
AtRest ==
  /\ closed = {}
  /\ tail = <<>>
  /\ registered = {}
  /\ \A i \in Input : request[i] \in {"none"} \cup Answer
QueueDoesNotStall == AtRest /\ queue # <<>> => paused

(* "The late settlement of an old run must not pause or continue what a    *)
(* new run resumed": the queue is never paused while another turn is on,   *)
(* but in the hops between the registration of that turn and the moment    *)
(* its caller observes it, when the old run still is the latest one.       *)
LateSettlementDoesNotPause ==
  [][~paused /\ paused' => ActiveTurn \in {NoTurn} \cup unobserved]_vars

(* The order that is stored is the order the user dragged to.              *)
ReorderIsExact == [][At("reorder") /\ tail' = Tail(tail) => queue' = Op.order]_vars

(* The snapshot a data migration copies does not change under it.          *)
MigrationFreezesThread ==
  [][{"migrating"} \subseteq closed \cap closed'
       => UNCHANGED <<threadVars, withdrawn>>]_vars

(* The thread implements the ledger of InputLedger: the projection of the  *)
(* event log is the ledger, everything else is how it gets there.          *)
Ledger == INSTANCE InputLedger WITH waiting <- Elems(queue), sent <- publishedIn
LedgerSpec == Ledger!LedgerSpec

(* Under fairness: a waiting input is sent or withdrawn, unless the queue  *)
(* was paused; in a thread somebody tries to delete it may wait for ever,  *)
(* as a deletion that fails repeats no dispatch it made the queue refuse.  *)
QueueDrains ==
  [](deletion = "none") =>
    \A i \in Input : i \in Elems(queue) ~> i \notin Elems(queue) \/ paused

(* Every call that submits an input is answered: the chain, the turns it   *)
(* waits for and the barrier never wait on each other in a circle.         *)
CallsAreAnswered ==
  \A i \in Input : request[i] # "none" ~> request[i] \in Answer

(* The barrier, which waits for turns, their cancellations and admitted    *)
(* calls in turn, gets to the deletion.                                    *)
DeletionIsReached == deletion = "cancel" ~> deletion \in {"operation", "none"}

=============================================================================
