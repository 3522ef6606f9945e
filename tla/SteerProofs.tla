----------------------------- MODULE SteerProofs -----------------------------
(***************************************************************************)
(* No accepted steer is left behind by the turn that accepted it.  Three   *)
(* facts meet here: the slot of the thread holds the only turn that was    *)
(* not cancelled, so the last drain of that turn really drains; a turn     *)
(* past its close accepts no steer; and a steer write that is in flight is *)
(* counted for its turn until it is stored, as nobody else holds its input *)
(* and could end the count early.                                          *)
(***************************************************************************)
EXTENDS InputOwnershipProofs

(* writesInFlight counts every steer that was begun and is not settled. *)
CallWrites ==
  \A i \in Input : request[i] \in {"steer", "publish"} => i \in writers[target[i]]

OpWrites == step \in {"steer", "publish"} => opInput \in writers[opTurn]

(* A turn that was not cancelled accepts no steer after it closed. *)
ClosedTurn(t) ==
  t \notin aborted /\ pc[t] \in {"closing", "finalizing"} => t \notin accepting

FinalTurn(t) ==
  t \notin aborted /\ pc[t] = "finalizing" => steers[t] = {} /\ writers[t] = {}

SteerInv ==
  /\ CallWrites
  /\ OpWrites
  /\ \A t \in Turn : ClosedTurn(t) /\ FinalTurn(t)

Context == OwnershipInv /\ SingleActive /\ EndedInv

(* The input a call steers with is not the one the chain steers with. *)
LEMMA WritersDiffer ==
  ASSUME Context, NEW i \in Input, request[i] \in {"steer", "publish"},
         step \in {"steer", "publish"}
  PROVE  i # opInput
BY DEF Context, OwnershipInv, OneHolder, HeldByCall, CallPhase, Untouched, HeldByOperation

(* A registered turn that was not cancelled is the active turn. *)
LEMMA RunnerIsActive ==
  ASSUME Context, NEW t \in Turn, t \notin aborted, Running(t)
  PROVE  ActiveTurn = t
BY DEF Context, SingleActive, EndedInv, EndedTurn, ActiveTurn

(* The active turn was not cancelled. *)
LEMMA ActiveNotAborted == ActiveTurn # NoTurn => ActiveTurn \notin aborted
BY DEF ActiveTurn

-----------------------------------------------------------------------------
(* What the steps preserve.                                                *)

(* Runs that do not move and writes that do not change. *)
LEMMA SteersStay ==
  ASSUME SteerInv, UNCHANGED <<pc, steers, writers, accepting, step, opInput, opTurn, request, target>>,
         aborted \subseteq aborted'
  PROVE  SteerInv'
BY DEF SteerInv, CallWrites, OpWrites, ClosedTurn, FinalTurn

(* A call or an operation that neither steers nor steered goes on. *)
LEMMA SteersApart ==
  ASSUME SteerInv, UNCHANGED <<pc, steers, writers, accepting, aborted>>,
         \/ UNCHANGED <<step, opInput, opTurn>>
         \/ step' \notin {"steer", "publish"},
         \A i \in Input : \/ request'[i] = request[i] /\ target'[i] = target[i]
                          \/ request'[i] \notin {"steer", "publish"}
  PROVE  SteerInv'
BY DEF SteerInv, CallWrites, OpWrites, ClosedTurn, FinalTurn

(* A run is registered. *)
LEMMA BeginRunSteers ==
  ASSUME TypeInv, SteerInv, NEW t \in Turn, NEW k, NEW j, BeginRun(t, k, j),
         \/ UNCHANGED <<step, opInput, opTurn>>
         \/ step' \notin {"steer", "publish"},
         \A i \in Input : \/ request'[i] = request[i] /\ target'[i] = target[i]
                          \/ request'[i] \notin {"steer", "publish"}
  PROVE  SteerInv'
<1>1. /\ UNCHANGED <<steers, writers, aborted>>
      /\ pc' = [pc EXCEPT ![t] = "registered"]
      /\ accepting' \subseteq accepting \cup {t}
  BY DEF BeginRun, StartTask
<1>2. CallWrites' /\ OpWrites'
  BY <1>1 DEF SteerInv, CallWrites, OpWrites
<1>3. ASSUME NEW u \in Turn PROVE (ClosedTurn(u) /\ FinalTurn(u))'
  <2>1. CASE u = t
    BY <1>1, <2>1 DEF TypeInv, ExecutionTypeOK, ClosedTurn, FinalTurn
  <2>2. CASE u # t
    BY <1>1, <2>2 DEF SteerInv, TypeInv, ExecutionTypeOK, ClosedTurn, FinalTurn
  <2> QED BY <2>1, <2>2
<1> QED BY <1>2, <1>3 DEF SteerInv

(* Steps of a run and of its cancellation writer. *)
LEMMA RunnerStepSteers ==
  ASSUME Context, SteerInv, NEW t \in Turn, RunnerStep(t)
  PROVE  SteerInv'
<1>a. TypeInv
  BY DEF Context, OwnershipInv
<1>b. UNCHANGED <<aborted, writers, step, opInput, opTurn, request, target>>
  BY DEF RunnerStep, Proceed, WriteStarted, ShellUnavailable, PublishInput, DrainSteers,
     CloseTurn, FinalDrain, CompleteTurn, StopByHook, CompleteStopped, CompleteShell, FailTurn,
     WriteError, NoticeAbort, LeaveAborted, CheckTerminal, WriteCancelled, StopAcceptingSteers,
     registryVars, queueVars, idleDriver
<1>c. CallWrites' /\ OpWrites'
  BY <1>b DEF SteerInv, CallWrites, OpWrites
<1>d. ASSUME UNCHANGED <<pc, accepting>>, steers' = [steers EXCEPT ![t] = @ \ Drained(t)]
      PROVE  SteerInv'
  BY <1>a, <1>b, <1>c, <1>d DEF SteerInv, ClosedTurn, FinalTurn, TypeInv, ExecutionTypeOK
<1>e. ASSUME NEW to, pc' = [pc EXCEPT ![t] = to], to \notin {"closing", "finalizing"},
             UNCHANGED steers, accepting' \subseteq accepting \cup {t}
      PROVE  SteerInv'
  <2>1. ASSUME NEW u \in Turn PROVE (ClosedTurn(u) /\ FinalTurn(u))'
    <3>1. CASE u = t
      BY <1>a, <1>b, <1>e, <3>1 DEF TypeInv, ExecutionTypeOK, ClosedTurn, FinalTurn
    <3>2. CASE u # t
      BY <1>a, <1>b, <1>e, <3>2 DEF SteerInv, TypeInv, ExecutionTypeOK, ClosedTurn, FinalTurn
    <3> QED BY <3>1, <3>2
  <2> QED BY <1>c, <2>1 DEF SteerInv
<1>1. CASE DrainSteers(t)
  BY <1>d, <1>1 DEF DrainSteers, registryVars
<1>2. CASE CloseTurn(t)
  <2>1. /\ pc[t] = "running"
        /\ pc' = [pc EXCEPT ![t] = "closing"]
        /\ accepting' = IF ActiveTurn = t THEN accepting \ {t} ELSE accepting
        /\ UNCHANGED steers
    BY <1>2 DEF CloseTurn, Goto, StopAcceptingSteers
  <2>2. t \notin aborted => t \notin accepting'
    BY <2>1, RunnerIsActive DEF Running
  <2>3. ASSUME NEW u \in Turn PROVE (ClosedTurn(u) /\ FinalTurn(u))'
    <3>1. CASE u = t
      BY <1>a, <1>b, <2>1, <2>2, <3>1 DEF TypeInv, ExecutionTypeOK, ClosedTurn, FinalTurn
    <3>2. CASE u # t
      BY <1>a, <1>b, <2>1, <3>2 DEF SteerInv, TypeInv, ExecutionTypeOK, ClosedTurn, FinalTurn
    <3> QED BY <3>1, <3>2
  <2> QED BY <1>c, <2>3 DEF SteerInv
<1>3. CASE FinalDrain(t)
  <2>1. /\ pc[t] = "closing"
        /\ CanDrain(t)
    BY <1>3 DEF FinalDrain, Goto
  <2>2. CASE Drained(t) # {}
    <3>1. /\ pc' = [pc EXCEPT ![t] = "running"]
          /\ steers' = [steers EXCEPT ![t] = @ \ Drained(t)]
          /\ accepting' = accepting \cup {t}
      BY <1>3, <2>2 DEF FinalDrain, Goto
    <3>2. ASSUME NEW u \in Turn PROVE (ClosedTurn(u) /\ FinalTurn(u))'
      <4>1. CASE u = t
        BY <1>a, <1>b, <3>1, <4>1 DEF TypeInv, ExecutionTypeOK, ClosedTurn, FinalTurn
      <4>2. CASE u # t
        BY <1>a, <1>b, <3>1, <4>2 DEF SteerInv, TypeInv, ExecutionTypeOK, ClosedTurn, FinalTurn
      <4> QED BY <4>1, <4>2
    <3> QED BY <1>c, <3>2 DEF SteerInv
  <2>3. CASE Drained(t) = {}
    <3>1. /\ pc' = [pc EXCEPT ![t] = "finalizing"]
          /\ UNCHANGED <<steers, accepting>>
      BY <1>3, <2>3 DEF FinalDrain, Goto
    <3>2. t \notin aborted => steers[t] = {} /\ writers[t] = {}
      BY <2>1, <2>3, RunnerIsActive DEF Running, CanDrain, Drained
    <3>3. ASSUME NEW u \in Turn PROVE (ClosedTurn(u) /\ FinalTurn(u))'
      <4>1. CASE u = t
        BY <1>a, <1>b, <2>1, <3>1, <3>2, <4>1
           DEF SteerInv, TypeInv, ExecutionTypeOK, ClosedTurn, FinalTurn
      <4>2. CASE u # t
        BY <1>a, <1>b, <3>1, <4>2 DEF SteerInv, TypeInv, ExecutionTypeOK, ClosedTurn, FinalTurn
      <4> QED BY <4>1, <4>2
    <3> QED BY <1>c, <3>3 DEF SteerInv
  <2> QED BY <2>2, <2>3
<1>4. CASE CheckTerminal(t) \/ WriteCancelled(t)
  BY <1>b, <1>4, SteersStay DEF CheckTerminal, WriteCancelled, registryVars
<1>5. ASSUME WriteStarted(t) \/ ShellUnavailable(t) \/ PublishInput(t) \/ CompleteTurn(t) \/ StopByHook(t)
             \/ CompleteStopped(t) \/ CompleteShell(t) \/ FailTurn(t) \/ WriteError(t) \/ NoticeAbort(t)
             \/ LeaveAborted(t)
      PROVE  SteerInv'
  <2>1. /\ \E to \in PC \ {"closing", "finalizing"} : pc' = [pc EXCEPT ![t] = to]
        /\ UNCHANGED steers
        /\ accepting' \subseteq accepting
    BY <1>5 DEF WriteStarted, ShellUnavailable, PublishInput, CompleteTurn, StopByHook,
       CompleteStopped, CompleteShell, FailTurn, WriteError, NoticeAbort, LeaveAborted, Goto,
       StopAcceptingSteers, registryVars, PC
  <2> QED BY <1>e, <2>1
<1> QED BY <1>1, <1>2, <1>3, <1>4, <1>5 DEF RunnerStep, Proceed

-----------------------------------------------------------------------------
(* A steer begins, lands or is dropped.                                    *)

(* beginWrite: only the active turn, and only while it accepts steers. *)
LEMMA SteerBegins ==
  ASSUME TypeInv, SteerInv, NEW i, ActiveTurn \in accepting,
         writers' = [writers EXCEPT ![ActiveTurn] = @ \cup {i}],
         UNCHANGED <<pc, steers, accepting, aborted>>, CallWrites', OpWrites'
  PROVE  SteerInv'
<1>1. ActiveTurn \in Turn /\ ActiveTurn \notin aborted
  BY ActiveNotAborted, NoTurnAssumption DEF TypeInv, RegistryTypeOK
<1>2. ASSUME NEW u \in Turn PROVE (ClosedTurn(u) /\ FinalTurn(u))'
  <2>1. CASE u = ActiveTurn
    BY <1>1, <2>1 DEF SteerInv, ClosedTurn, FinalTurn
  <2>2. CASE u # ActiveTurn
    BY <1>1, <2>2 DEF SteerInv, ClosedTurn, FinalTurn, TypeInv, ExecutionTypeOK
  <2> QED BY <2>1, <2>2
<1> QED BY <1>2 DEF SteerInv

(* enqueueSteer and settleWrite: a turn with a write in flight is not past *)
(* its last drain.                                                         *)
LEMMA SteerLands ==
  ASSUME TypeInv, SteerInv, NEW t \in Turn, NEW i \in writers[t],
         steers' = [steers EXCEPT ![t] = @ \cup {i}],
         writers' = [writers EXCEPT ![t] = @ \ {i}],
         UNCHANGED <<pc, accepting, aborted>>, CallWrites', OpWrites'
  PROVE  SteerInv'
<1>2. ASSUME NEW u \in Turn PROVE (ClosedTurn(u) /\ FinalTurn(u))'
  <2>1. CASE u = t
    BY <2>1 DEF SteerInv, ClosedTurn, FinalTurn
  <2>2. CASE u # t
    BY <2>2 DEF SteerInv, ClosedTurn, FinalTurn, TypeInv, ExecutionTypeOK
  <2> QED BY <2>1, <2>2
<1> QED BY <1>2 DEF SteerInv

(* settleWrite of a steer that failed or expired. *)
LEMMA SteerDropped ==
  ASSUME TypeInv, SteerInv, NEW t \in Turn, NEW i,
         writers' = [writers EXCEPT ![t] = @ \ {i}],
         UNCHANGED <<pc, steers, accepting, aborted>>, CallWrites', OpWrites'
  PROVE  SteerInv'
BY DEF SteerInv, ClosedTurn, FinalTurn, TypeInv, ExecutionTypeOK

(* The operation at the head of the chain takes its input out of the       *)
(* writes of its turn: the steers of the calls stay counted.               *)
LEMMA OperationSettlesWrite ==
  ASSUME Context, SteerInv, step \in {"steer", "publish"},
         writers' = [writers EXCEPT ![opTurn] = @ \ {opInput}], UNCHANGED target,
         \A i \in Input : request'[i] \in {"steer", "publish"} => request'[i] = request[i]
  PROVE  CallWrites'
<1> SUFFICES ASSUME NEW i \in Input, request[i] \in {"steer", "publish"}
             PROVE  i \in writers'[target[i]]
  BY DEF CallWrites
<1>1. i # opInput /\ i \in writers[target[i]] /\ target[i] \in Turn /\ opTurn \in Turn
  BY WritersDiffer DEF SteerInv, CallWrites, Context, OwnershipInv, TypeInv, CallTypeOK, ChainTypeOK
<1> QED BY <1>1 DEF Context, OwnershipInv, TypeInv, ExecutionTypeOK

(* A call takes its input out of the writes of its turn: the steer of the  *)
(* chain and those of the other calls stay counted.                        *)
LEMMA CallSettlesWrite ==
  ASSUME Context, SteerInv, NEW i \in Input, request[i] \in {"steer", "publish"},
         writers' = [writers EXCEPT ![target[i]] = @ \ {i}],
         NEW to \in Answer, Ask(i, {request[i]}, to, NoTurn), UNCHANGED <<step, opInput, opTurn>>
  PROVE  CallWrites' /\ OpWrites'
<1>1. target[i] \in Turn /\ (step \in {"steer", "publish"} => i # opInput /\ opTurn \in Turn)
  BY WritersDiffer DEF Context, OwnershipInv, TypeInv, CallTypeOK, ChainTypeOK
<1>2. OpWrites'
  BY <1>1 DEF SteerInv, OpWrites, Context, OwnershipInv, TypeInv, ExecutionTypeOK
<1>3. CallWrites'
  <2> SUFFICES ASSUME NEW j \in Input, request'[j] \in {"steer", "publish"}
               PROVE  j \in writers'[target'[j]]
    BY DEF CallWrites
  <2>1. request' = [request EXCEPT ![i] = to] /\ target' = [target EXCEPT ![i] = NoTurn]
    BY DEF Ask
  <2>2. j # i
    BY <2>1 DEF Answer, Context, OwnershipInv, TypeInv, CallTypeOK
  <2>3. request[j] \in {"steer", "publish"} /\ target'[j] = target[j] /\ target[j] \in Turn
    BY <2>1, <2>2 DEF Context, OwnershipInv, TypeInv, CallTypeOK
  <2> QED BY <1>1, <2>2, <2>3 DEF SteerInv, CallWrites, Context, OwnershipInv, TypeInv, ExecutionTypeOK
<1> QED BY <1>2, <1>3

-----------------------------------------------------------------------------
(* The chain, the calls and the user.                                      *)

(* Steps of the operation at the head of the chain. *)
LEMMA ChainStepSteers ==
  ASSUME Context, SteerInv, ChainStep
  PROVE  SteerInv'
<1>a. TypeInv /\ UNCHANGED target
  BY DEF Context, OwnershipInv, ChainStep, idleDriver
<1>b. EndOp => step' = "idle"
  BY DEF EndOp, Leave
<1>c. ASSUME NEW i, NEW p, Dispatch(i, p)
      PROVE  /\ step' \in {"idle", "create"}
             /\ \A j \in Input : request'[j] \in {"steer", "publish"} => request'[j] = request[j]
  BY <1>a, <1>c DEF Dispatch, EndOp, Leave, Await, Reply, TypeInv, CallTypeOK
<1>d. ASSUME NEW a \in Answer, Reply(a)
      PROVE  \A j \in Input : request'[j] \in {"steer", "publish"} => request'[j] = request[j]
  BY <1>a, <1>d DEF Reply, Answer, TypeInv, CallTypeOK
<1>e. (\A j \in Input : request'[j] \in {"steer", "publish"} => request'[j] = request[j]) =>
        \A j \in Input : \/ request'[j] = request[j] /\ target'[j] = target[j]
                         \/ request'[j] \notin {"steer", "publish"}
  BY <1>a
<1>1. ASSUME NEW t \in Turn, StartDispatched(t) PROVE SteerInv'
  <2>1. BeginRun(t, "regular", opInput) /\ step' = "observe" /\ UNCHANGED request
    BY <1>1 DEF StartDispatched, Register
  <2> QED BY <1>a, <1>e, <2>1, BeginRunSteers
<1>2. CASE CreateDispatched \/ ObserveDispatched \/ FinalizedTurnSettled \/ DispatchFails \/ Enqueue \/ ResumeAfterEnqueue
           \/ CheckReorder \/ StoreReorder \/ CheckWithdraw \/ StoreWithdraw \/ ReadOutcome
           \/ PauseAfterInterruption \/ ContinueAfterCompletion
  <2>1. UNCHANGED <<pc, steers, writers, accepting, aborted>>
    BY <1>2 DEF CreateDispatched, ObserveDispatched, FinalizedTurnSettled, DispatchFails, Enqueue, ResumeAfterEnqueue,
       CheckReorder, StoreReorder, CheckWithdraw, StoreWithdraw, ReadOutcome, PauseAfterInterruption,
       ContinueAfterCompletion, registryVars, executionVars, runVars
  <2>2. step' \notin {"steer", "publish"}
    BY <1>c, <1>2 DEF CreateDispatched, ObserveDispatched, FinalizedTurnSettled, DispatchFails, Enqueue,
       ResumeAfterEnqueue, CheckReorder, StoreReorder, CheckWithdraw, StoreWithdraw, ReadOutcome,
       Outcome, PauseAfterInterruption, ContinueAfterCompletion, EndOp, Leave, Await
  <2>3. \A j \in Input : request'[j] \in {"steer", "publish"} => request'[j] = request[j]
    <3>1. UNCHANGED request \/ Reply("accepted") \/ Reply("refused")
          \/ \E i \in Input, p \in {FALSE, paused} : Dispatch(i, p)
      BY <1>2 DEF CreateDispatched, ObserveDispatched, FinalizedTurnSettled, DispatchFails, Enqueue, ResumeAfterEnqueue,
         CheckReorder, StoreReorder, CheckWithdraw, StoreWithdraw, ReadOutcome,
         PauseAfterInterruption, ContinueAfterCompletion
    <3> QED BY <1>c, <1>d, <3>1 DEF Answer
  <2> QED BY <1>e, <2>1, <2>2, <2>3, SteersApart
<1>3. CASE SendNow
  <2>1. UNCHANGED <<pc, steers, accepting, aborted>>
    BY <1>3 DEF SendNow, registryVars
  <2>2. CASE UNCHANGED writers /\ step' \notin {"steer", "publish"}
             /\ (UNCHANGED request \/ \E i \in Input : Dispatch(i, FALSE))
    BY <1>c, <1>e, <2>1, <2>2, SteersApart
  <2>3. CASE /\ ActiveTurn \in accepting
             /\ writers' = [writers EXCEPT ![ActiveTurn] = @ \cup {Op.input}]
             /\ Await("steer", Op.input, ActiveTurn)
             /\ UNCHANGED request
    <3>1. ActiveTurn \in Turn
      BY <1>a, <2>3 DEF TypeInv, RegistryTypeOK
    <3>2. OpWrites'
      BY <1>a, <2>3, <3>1 DEF OpWrites, Await, TypeInv, ExecutionTypeOK
    <3>3. CallWrites'
      BY <1>a, <2>3, <3>1 DEF CallWrites, SteerInv, TypeInv, ExecutionTypeOK, CallTypeOK
    <3> QED BY <1>a, <2>1, <2>3, <3>2, <3>3, SteerBegins
  <2>4. ASSUME Selectable(Op.input), Dispatch(Op.input, FALSE)
        PROVE  Op.input \in Input /\ step' \in {"idle", "create"}
    <3>1. Op.input \in Input
      BY <1>a, <2>4, ElemsSubset DEF Selectable, TypeInv, ExecutionTypeOK
    <3> QED BY <1>c, <2>4, <3>1
  <2> QED BY <1>3, <1>b, <2>2, <2>3, <2>4 DEF SendNow
<1>4. CASE RecheckSendNow
  <2>1. /\ step = "steer"
        /\ UNCHANGED <<pc, steers, accepting, aborted>>
    BY <1>4 DEF RecheckSendNow, At, registryVars
  <2>2. CASE Await("publish", opInput, opTurn) /\ UNCHANGED <<writers, request>>
    BY <1>a, <2>1, <2>2 DEF Await, SteerInv, CallWrites, OpWrites, ClosedTurn, FinalTurn
  <2>3. CASE /\ writers' = [writers EXCEPT ![opTurn] = @ \ {opInput}]
             /\ Dispatch(opInput, FALSE) \/ (EndOp /\ UNCHANGED request)
    <3>1. opTurn \in Turn /\ opInput \in Input
      BY <1>a, <2>1 DEF TypeInv, ChainTypeOK
    <3>2. /\ step' \in {"idle", "create"}
          /\ \A j \in Input : request'[j] \in {"steer", "publish"} => request'[j] = request[j]
      BY <1>b, <1>c, <2>3, <3>1
    <3>3. CallWrites'
      BY <1>a, <2>1, <2>3, <3>2, OperationSettlesWrite
    <3>4. OpWrites'
      BY <3>2 DEF OpWrites
    <3> QED BY <1>a, <2>1, <2>3, <3>1, <3>3, <3>4, SteerDropped
  <2> QED BY <1>4, <2>2, <2>3 DEF RecheckSendNow
<1>5. CASE PublishSendNow
  <2>1. /\ step = "publish" /\ step' = "idle"
        /\ UNCHANGED <<pc, accepting, aborted, request>>
        /\ steers' = [steers EXCEPT ![opTurn] = @ \cup {opInput}]
        /\ writers' = [writers EXCEPT ![opTurn] = @ \ {opInput}]
    BY <1>5 DEF PublishSendNow, At, EndOp, Leave, AcceptSteer, registryVars
  <2>2. opTurn \in Turn /\ opInput \in writers[opTurn]
    BY <1>a, <2>1 DEF TypeInv, ChainTypeOK, SteerInv, OpWrites
  <2>3. CallWrites' /\ OpWrites'
    BY <1>a, <2>1, OperationSettlesWrite DEF OpWrites
  <2> QED BY <1>a, <2>1, <2>2, <2>3, SteerLands
<1> QED BY <1>1, <1>2, <1>3, <1>4, <1>5 DEF ChainStep

(* Steps of a call in flight. *)
LEMMA CallStepSteers ==
  ASSUME Context, SteerInv, NEW i \in Input, CallStep(i)
  PROVE  SteerInv'
<1>a. TypeInv
  BY DEF Context, OwnershipInv
<1>b. ASSUME NEW from, NEW to, NEW t, Ask(i, from, to, t), to \notin {"steer", "publish"}
      PROVE  \A j \in Input : \/ request'[j] = request[j] /\ target'[j] = target[j]
                              \/ request'[j] \notin {"steer", "publish"}
  BY <1>a, <1>b DEF Ask, TypeInv, CallTypeOK
<1>1. CASE LookForActive(i) \/ LookAtQueue(i) \/ RedirectToQueue(i) \/ CreateDirect(i)
           \/ DirectWaitOver(i) \/ DirectFails(i) \/ ObserveDirect(i)
  <2>1. UNCHANGED <<pc, steers, writers, accepting, aborted, step, opInput, opTurn>>
    BY <1>1 DEF LookForActive, LookAtQueue, RedirectToQueue, Add, CreateDirect, DirectWaitOver,
       DirectFails, ObserveDirect, registryVars, executionVars, runVars, queueVars
  <2>2. \E from, t : \E to \in Request \ {"steer", "publish"} : Ask(i, from, to, t)
    BY <1>1 DEF LookForActive, LookAtQueue, RedirectToQueue, CreateDirect, DirectWaitOver,
       DirectFails, ObserveDirect, Request, Answer
  <2> QED BY <1>b, <2>1, <2>2, SteersApart
<1>2. ASSUME NEW t \in Turn, StartDirect(i, t) PROVE SteerInv'
  <2>1. /\ BeginRun(t, "regular", i)
        /\ Ask(i, {"register"}, "observe", t)
        /\ UNCHANGED <<step, opInput, opTurn>>
    BY <1>2 DEF StartDirect, Register
  <2> QED BY <1>a, <1>b, <2>1, BeginRunSteers
<1>3. CASE RecheckSteer(i)
  <2>1. /\ request[i] = "steer" /\ target[i] \in Turn
        /\ UNCHANGED <<pc, steers, accepting, aborted, step, opInput, opTurn>>
    BY <1>a, <1>3 DEF RecheckSteer, Ask, TypeInv, CallTypeOK, registryVars, queueVars
  <2>2. CASE Ask(i, {"steer"}, "publish", target[i]) /\ UNCHANGED writers
    BY <1>a, <2>1, <2>2 DEF Ask, SteerInv, CallWrites, OpWrites, ClosedTurn, FinalTurn, TypeInv, CallTypeOK
  <2>3. CASE /\ Ask(i, {"steer"}, "refused", NoTurn)
             /\ writers' = [writers EXCEPT ![target[i]] = @ \ {i}]
    BY <1>a, <2>1, <2>3, CallSettlesWrite, SteerDropped DEF Answer
  <2> QED BY <1>3, <2>2, <2>3 DEF RecheckSteer
<1>4. CASE PublishSteer(i)
  <2>1. /\ request[i] = "publish"
        /\ Ask(i, {"publish"}, "accepted", NoTurn)
        /\ UNCHANGED <<pc, accepting, aborted, step, opInput, opTurn>>
        /\ steers' = [steers EXCEPT ![target[i]] = @ \cup {i}]
        /\ writers' = [writers EXCEPT ![target[i]] = @ \ {i}]
    BY <1>4 DEF PublishSteer, Ask, AcceptSteer, registryVars, queueVars
  <2>2. target[i] \in Turn /\ i \in writers[target[i]]
    BY <1>a, <2>1 DEF TypeInv, CallTypeOK, SteerInv, CallWrites
  <2>3. CallWrites' /\ OpWrites'
    BY <2>1, CallSettlesWrite DEF Answer
  <2> QED BY <1>a, <2>1, <2>2, <2>3, SteerLands
<1> QED BY <1>1, <1>2, <1>3, <1>4 DEF CallStep

(* What the user does. *)
LEMMA UserSteers ==
  ASSUME Context, SteerInv, User
  PROVE  SteerInv'
<1>a. TypeInv
  BY DEF Context, OwnershipInv
<1>1. ASSUME NEW i \in Input, StartTurn(i) \/ StartUnattended(i) \/ QueueInput(i) PROVE SteerInv'
  <2>1. UNCHANGED <<pc, steers, writers, accepting, aborted, step, opInput, opTurn>>
    BY <1>1 DEF StartTurn, StartUnattended, QueueInput, Add, registryVars, executionVars, runVars, queueVars
  <2>2. \E to \in {"asking", "create", "enqueue"} :
          request' = [request EXCEPT ![i] = to] /\ target' = [target EXCEPT ![i] = NoTurn]
    BY <1>1 DEF StartTurn, StartUnattended, QueueInput, Ask
  <2>3. \A j \in Input : \/ request'[j] = request[j] /\ target'[j] = target[j]
                         \/ request'[j] \notin {"steer", "publish"}
    BY <1>a, <2>2 DEF TypeInv, CallTypeOK
  <2> QED BY <2>1, <2>3, SteersApart
<1>2. ASSUME NEW i \in Input, SteerTurn(i) PROVE SteerInv'
  <2>1. /\ ActiveTurn \in accepting /\ ActiveTurn \in Turn
        /\ request' = [request EXCEPT ![i] = "steer"]
        /\ target' = [target EXCEPT ![i] = ActiveTurn]
        /\ writers' = [writers EXCEPT ![ActiveTurn] = @ \cup {i}]
        /\ UNCHANGED <<pc, steers, accepting, aborted, step, opInput, opTurn>>
    BY <1>a, <1>2 DEF SteerTurn, Ask, registryVars, queueVars, TypeInv, RegistryTypeOK
  <2>2. CallWrites'
    BY <1>a, <2>1 DEF SteerInv, CallWrites, TypeInv, ExecutionTypeOK, CallTypeOK
  <2>3. OpWrites'
    BY <1>a, <2>1 DEF SteerInv, OpWrites, TypeInv, ExecutionTypeOK, ChainTypeOK
  <2> QED BY <1>a, <2>1, <2>2, <2>3, SteerBegins
<1>3. ASSUME NEW op, Click(op) PROVE SteerInv'
  BY <1>3, SteersStay DEF Click, Add, registryVars, executionVars, runVars, idleDriver
<1>4. ASSUME NEW t \in Turn, CancelTurn(t) \/ ForceCancel(t) PROVE SteerInv'
  BY <1>4, SteersStay DEF CancelTurn, ForceCancel, AbortTask, registryVars, executionVars, runVars, queueVars
<1>5. ASSUME NEW t \in Turn, StartReview(t) \/ StartShell(t) PROVE SteerInv'
  <2>1. (\E k \in Kind : BeginRun(t, k, NoInput)) /\ UNCHANGED <<step, opInput, opTurn, request, target>>
    BY <1>5 DEF StartReview, StartShell, Register, Kind, idleDriver
  <2> QED BY <1>a, <2>1, BeginRunSteers
<1> QED BY <1>1, <1>2, <1>3, <1>4, <1>5 DEF User, ClickSendNow, ClickWithdraw, Drag

(* Every step keeps the count of steer writes and what a drain found. *)
LEMMA NextSteers == Context /\ SteerInv /\ [Next]_vars => SteerInv'
<1> SUFFICES ASSUME Context, SteerInv, [Next]_vars PROVE SteerInv'
  OBVIOUS
<1>1. CASE UNCHANGED vars
  BY <1>1, SteersStay DEF vars, registryVars, executionVars, runVars, queueVars
<1>2. ASSUME NEW t \in Turn, SettleRun(t), UNCHANGED idleDriver PROVE SteerInv'
  <2>1. /\ pc' = [pc EXCEPT ![t] = "done"]
        /\ UNCHANGED <<steers, writers, accepting, aborted, step, opInput, opTurn, request, target>>
    BY <1>2 DEF SettleRun, EndRun, Goto, FinishTask, idleDriver
  <2> QED BY <2>1 DEF Context, OwnershipInv, TypeInv, ExecutionTypeOK, SteerInv, CallWrites, OpWrites,
                      ClosedTurn, FinalTurn
<1>3. ASSUME NEW t \in Turn, WriteForced(t) \/ ObserveReview(t) PROVE SteerInv'
  BY <1>3, SteersStay DEF WriteForced, ObserveReview, registryVars, executionVars, runVars, queueVars, idleDriver
<1>4. CASE BeginDeletion \/ DeletionProgress
  BY <1>4, SteersStay DEF BeginDeletion, DeletionProgress, CancelSlot, SlotEmpty, CancellationsWritten,
     AdmissionsDrained, DeleteThread, DeletionFails, Deletion, Refuse, Readmit, AbortTask,
     registryVars, executionVars, runVars, queueVars, idleDriver
<1>5. CASE PrepareMigration \/ CancelMigration
  BY <1>5, SteersStay DEF PrepareMigration, CancelMigration, Refuse, Readmit, executionVars, runVars,
     queueVars, idleDriver
<1>6. CASE Restart
  <2>1. /\ pc' = [t \in Turn |-> IF pc[t] = "none" THEN "none" ELSE "done"]
        /\ step' = "idle"
        /\ request' = [i \in Input |-> IF request[i] \in {"none"} \cup Answer
                                         THEN request[i] ELSE "unknown"]
    BY <1>6 DEF Restart
  <2> QED BY <2>1 DEF SteerInv, CallWrites, OpWrites, ClosedTurn, FinalTurn, Answer
<1> QED BY <1>1, <1>2, <1>3, <1>4, <1>5, <1>6, RunnerStepSteers, ChainStepSteers, CallStepSteers,
        UserSteers DEF Next

(* Every steer the turn accepted has reached the model, and no steer write *)
(* is in flight, when a turn that was not cancelled passes its last drain: *)
(* a steer is answered with success only if the turn will still see it.    *)
THEOREM NoSteerIsStranded == Spec => []NoStrandedSteer
<1> DEFINE Inv == Context /\ SteerInv
<1>1. Init => Inv
  BY InitTyped, InitHolds, InitEnded
     DEF Context, OwnershipInv, Init, RegistryInit, ExecutionInit, QueueInit, SingleActive,
         SteerInv, CallWrites, OpWrites, ClosedTurn, FinalTurn
<1>2. Inv /\ [Next]_vars => Inv'
  BY NextTyped, NextHolds, NextSingleActive, NextEnded, NextSteers
     DEF Context, OwnershipInv, SingleActiveInv
<1>3. Inv => NoStrandedSteer
  BY DEF SteerInv, FinalTurn, NoStrandedSteer
<1> QED BY <1>1, <1>2, <1>3, PTL DEF Spec

=============================================================================
