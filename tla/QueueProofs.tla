---------------------------- MODULE QueueProofs -----------------------------
(***************************************************************************)
(* What the send queue owes the user: an input whose call was answered     *)
(* with success is not lost while the process lives; the settlement of an  *)
(* old run does not pause a thread in which a newer turn is active; and    *)
(* the queue does not stall: as long as the process lives and nothing      *)
(* refuses a dispatch for a reason of its own (an input that cannot be     *)
(* sent, a deletion, a migration), a thread at rest with a queue is        *)
(* paused.                                                                 *)
(***************************************************************************)
EXTENDS InputOwnershipProofs, WellFoundedInduction

-----------------------------------------------------------------------------
(* An accepted input is kept.                                              *)

(* A run stores its input before anything can end it, and the runs that    *)
(* may end earlier have none.                                              *)
RunOfInput(t) ==
  /\ Running(t) /\ pc[t] \notin {"registered", "started"} /\ source[t] # NoInput =>
       publishedIn[source[t]] # <<>>
  /\ kind[t] = "user_shell" => source[t] = NoInput

RunInv == \A t \in Turn : RunOfInput(t)

(* What the log says of an input: it waits, was sent or was taken back. *)
Recorded(i) == i \in Elems(queue) \cup withdrawn \/ publishedIn[i] # <<>>

(* The log never forgets an input, whatever step is taken. *)
LEMMA RecordedStays ==
  ASSUME OwnershipInv, [Next]_vars, NEW i \in Input, Recorded(i)
  PROVE  Recorded(i)'
<1>1. LedgerStep
  BY NextIsLedgerStep
<1>2. CASE UNCHANGED Ledger!ledgerVars
  BY <1>2 DEF Ledger!ledgerVars, Recorded
<1>3. CASE Ledger!LedgerNext
  <2>1. PICK j \in Input : Ledger!Wait(j) \/ Ledger!TakeBack(j) \/ \E t \in Turn : Ledger!Send(j, t)
    BY <1>3 DEF Ledger!LedgerNext
  <2>2. CASE Ledger!Wait(j) \/ Ledger!TakeBack(j)
    BY <2>2 DEF Ledger!Wait, Ledger!TakeBack, Recorded
  <2>3. ASSUME NEW t \in Turn, Ledger!Send(j, t) PROVE Recorded(i)'
    <3>1. publishedIn' = [publishedIn EXCEPT ![j] = <<t>>] /\ Elems(queue)' = Elems(queue) \ {j}
          /\ UNCHANGED withdrawn
      BY <2>3 DEF Ledger!Send
    <3>2. CASE i = j
      <4>1. publishedIn'[i] = <<t>> /\ <<t>> # <<>>
        BY <3>1, <3>2 DEF OwnershipInv, TypeInv, ExecutionTypeOK
      <4> QED BY <4>1 DEF Recorded
    <3>3. CASE i # j
      BY <3>1, <3>3 DEF Recorded, OwnershipInv, TypeInv, ExecutionTypeOK
    <3> QED BY <3>2, <3>3
  <2> QED BY <2>1, <2>2, <2>3
<1> QED BY <1>1, <1>2, <1>3 DEF LedgerStep

(* An input whose message was stored has one. *)
LEMMA MessagesGrow ==
  ASSUME TypeInv, NEW i \in Input, NEW t \in Turn
  PROVE  Append(publishedIn[i], t) # <<>>
<1>1. publishedIn[i] \in Seq(Turn)
  BY DEF TypeInv, ExecutionTypeOK
<1>2. Len(Append(publishedIn[i], t)) = Len(publishedIn[i]) + 1 /\ Len(publishedIn[i]) \in Nat
  BY <1>1, AppendProperties, LenProperties
<1>3. Len(<<>>) = 0
  OBVIOUS
<1> QED BY <1>2, <1>3

(* The registration of a run. *)
LEMMA BeginRunOfInput ==
  ASSUME TypeInv, RunInv, NEW t \in Turn, NEW k, NEW j, BeginRun(t, k, j),
         k = "user_shell" => j = NoInput
  PROVE  RunInv'
BY DEF RunInv, RunOfInput, Running, BeginRun, threadVars, TypeInv, ExecutionTypeOK

(* Steps of a run and of its cancellation writer. *)
LEMMA RunnerStepOfInput ==
  ASSUME OwnershipInv, RunInv, NEW t \in Turn, RunnerStep(t)
  PROVE  RunInv'
<1>a. TypeInv /\ UNCHANGED <<kind, source>>
  BY DEF OwnershipInv, RunnerStep, Proceed, WriteStarted, ShellUnavailable, PublishInput, DrainSteers,
     CloseTurn, FinalDrain, CompleteTurn, StopByHook, CompleteStopped, CompleteShell, FailTurn,
     WriteError, NoticeAbort, LeaveAborted, CheckTerminal, WriteCancelled
<1>b. \A i \in Input : publishedIn[i] # <<>> => publishedIn'[i] # <<>>
  <2>1. CASE PublishInput(t) /\ source[t] # NoInput
    <3>1. source[t] \in Input /\ StoreMessage(source[t], t)
      BY <1>a, <2>1 DEF PublishInput, TypeInv, ExecutionTypeOK
    <3>2. Append(publishedIn[source[t]], t) # <<>>
      BY <1>a, <3>1, MessagesGrow DEF TypeInv, ExecutionTypeOK
    <3> QED BY <1>a, <3>1, <3>2 DEF StoreMessage, TypeInv, ExecutionTypeOK
  <2>2. CASE ~(PublishInput(t) /\ source[t] # NoInput)
    BY <2>2 DEF RunnerStep, Proceed, WriteStarted, ShellUnavailable, PublishInput, DrainSteers,
       CloseTurn, FinalDrain, CompleteTurn, StopByHook, CompleteStopped, CompleteShell, FailTurn,
       WriteError, NoticeAbort, LeaveAborted, CheckTerminal, WriteCancelled, StoreTerminal, threadVars
  <2> QED BY <2>1, <2>2
<1>c. \A u \in Turn : source[u] # NoInput => source[u] \in Input
  BY <1>a DEF TypeInv, ExecutionTypeOK
<1>1. ASSUME NEW u \in Turn, u # t PROVE RunOfInput(u)'
  <2>1. pc'[u] = pc[u]
    BY <1>a, <1>1 DEF RunnerStep, Proceed, WriteStarted, ShellUnavailable, PublishInput, DrainSteers,
       CloseTurn, FinalDrain, CompleteTurn, StopByHook, CompleteStopped, CompleteShell, FailTurn,
       WriteError, NoticeAbort, LeaveAborted, CheckTerminal, WriteCancelled, Goto, TypeInv, ExecutionTypeOK
  <2> QED BY <1>a, <1>b, <1>c, <2>1 DEF RunInv, RunOfInput, Running
<1>2. RunOfInput(t)'
  <2>1. CASE PublishInput(t)
    <3>1. CASE source[t] = NoInput
      BY <1>a, <3>1 DEF RunOfInput, TypeInv, ExecutionTypeOK
    <3>2. CASE source[t] # NoInput
      <4>1. source[t] \in Input /\ StoreMessage(source[t], t)
        BY <1>a, <2>1, <3>2 DEF PublishInput, TypeInv, ExecutionTypeOK
      <4>2. Append(publishedIn[source[t]], t) # <<>>
        BY <1>a, <4>1, MessagesGrow DEF TypeInv, ExecutionTypeOK
      <4>3. publishedIn'[source[t]] # <<>>
        BY <1>a, <4>1, <4>2 DEF StoreMessage, TypeInv, ExecutionTypeOK
      <4> QED BY <1>a, <4>3 DEF RunInv, RunOfInput
    <3> QED BY <3>1, <3>2
  <2>2. CASE WriteStarted(t) \/ ShellUnavailable(t)
    BY <1>a, <2>2 DEF WriteStarted, ShellUnavailable, Goto, RunInv, RunOfInput, TypeInv, ExecutionTypeOK
  <2>3. ASSUME pc'[t] = pc[t] PROVE RunOfInput(t)'
    BY <1>a, <1>b, <1>c, <2>3 DEF RunInv, RunOfInput, Running
  <2>4. ASSUME pc[t] \notin {"none", "done", "registered", "started"} PROVE RunOfInput(t)'
    BY <1>a, <1>b, <1>c, <2>4 DEF RunInv, RunOfInput, Running
  <2>5. CASE DrainSteers(t) \/ CheckTerminal(t) \/ WriteCancelled(t)
    BY <2>3, <2>5 DEF DrainSteers, CheckTerminal, WriteCancelled
  <2>6. CASE CloseTurn(t) \/ FinalDrain(t) \/ CompleteTurn(t) \/ StopByHook(t) \/ CompleteStopped(t)
             \/ CompleteShell(t) \/ FailTurn(t) \/ WriteError(t) \/ NoticeAbort(t) \/ LeaveAborted(t)
    BY <2>4, <2>6 DEF CloseTurn, FinalDrain, CompleteTurn, StopByHook, CompleteStopped, CompleteShell,
       FailTurn, WriteError, NoticeAbort, LeaveAborted, Goto
  <2> QED BY <2>1, <2>2, <2>5, <2>6 DEF RunnerStep, Proceed
<1> QED BY <1>1, <1>2 DEF RunInv

(* Every step keeps what runs have stored of their inputs. *)
LEMMA NextRunInv == OwnershipInv /\ RunInv /\ [Next]_vars => RunInv'
<1> SUFFICES ASSUME OwnershipInv, RunInv, [Next]_vars PROVE RunInv'
  OBVIOUS
<1>a. TypeInv
  BY DEF OwnershipInv
<1>b. ASSUME UNCHANGED <<pc, kind, source, publishedIn>> PROVE RunInv'
  BY <1>b DEF RunInv, RunOfInput, Running
<1>c. ASSUME NEW i \in Input, NEW t \in Turn, StoreMessage(i, t), UNCHANGED <<pc, kind, source>>
      PROVE  RunInv'
  <2>1. Append(publishedIn[i], t) # <<>>
    BY <1>a, MessagesGrow DEF TypeInv, ExecutionTypeOK
  <2> QED BY <1>a, <1>c, <2>1 DEF StoreMessage, RunInv, RunOfInput, Running, TypeInv, ExecutionTypeOK
<1>1. CASE UNCHANGED vars
  BY <1>b, <1>1 DEF vars, executionVars, threadVars, runVars
<1>2. ASSUME NEW t \in Turn, SettleRun(t) PROVE RunInv'
  BY <1>a, <1>2 DEF SettleRun, EndRun, Goto, threadVars, RunInv, RunOfInput, Running, TypeInv, ExecutionTypeOK
<1>3. ASSUME ChainStep PROVE RunInv'
  <2>1. ASSUME NEW t \in Turn, StartDispatched(t) PROVE RunInv'
    BY <1>a, <2>1, BeginRunOfInput DEF StartDispatched, Register, ObserveDispatched
  <2>2. CASE PublishSendNow
    BY <1>a, <1>c, <2>2 DEF PublishSendNow, AcceptSteer, At, TypeInv, ChainTypeOK
  <2>3. CASE UNCHANGED <<pc, kind, source, publishedIn>>
    BY <1>b, <2>3
  <2> QED BY <1>3, <2>1, <2>2, <2>3 DEF ChainStep, ObserveDispatched, CreateDispatched, FinalizedTurnSettled, DispatchFails,
     Enqueue, ResumeAfterEnqueue, CheckReorder, StoreReorder, CheckWithdraw, StoreWithdraw, SendNow,
     RecheckSendNow, ReadOutcome, PauseAfterInterruption, ContinueAfterCompletion,
     executionVars, threadVars, runVars
<1>4. ASSUME NEW i \in Input, CallStep(i) PROVE RunInv'
  <2>1. ASSUME NEW t \in Turn, StartDirect(i, t) PROVE RunInv'
    BY <1>a, <2>1, BeginRunOfInput DEF StartDirect, Register, ObserveDirect
  <2>2. CASE PublishSteer(i)
    BY <1>a, <1>c, <2>2 DEF PublishSteer, AcceptSteer, Ask, TypeInv, CallTypeOK
  <2>3. CASE UNCHANGED <<pc, kind, source, publishedIn>>
    BY <1>b, <2>3
  <2> QED BY <1>4, <2>1, <2>2, <2>3 DEF CallStep, ObserveDirect, LookForActive, LookAtQueue, RedirectToQueue,
     CreateDirect, DirectWaitOver, DirectFails, RecheckSteer, executionVars, threadVars, runVars
<1>5. ASSUME User PROVE RunInv'
  <2>1. ASSUME NEW t \in Turn, StartReview(t) \/ StartShell(t) PROVE RunInv'
    BY <1>a, <2>1, BeginRunOfInput DEF StartReview, StartShell, Register
  <2>2. CASE UNCHANGED <<pc, kind, source, publishedIn>>
    BY <1>b, <2>2
  <2> QED BY <1>5, <2>1, <2>2 DEF User, StartTurn, StartUnattended, QueueInput, SteerTurn, ClickSendNow,
     ClickWithdraw, Drag, Click, CancelTurn, ForceCancel, executionVars, threadVars, runVars
<1>6. ASSUME BeginDeletion \/ DeletionProgress \/ PrepareMigration \/ CancelMigration
             \/ \E t \in Turn : WriteForced(t) \/ ObserveReview(t)
      PROVE  RunInv'
  BY <1>b, <1>6 DEF BeginDeletion, DeletionProgress, CancelSlot, SlotEmpty, CancellationsWritten,
     AdmissionsDrained, DeleteThread, DeletionFails, PrepareMigration, CancelMigration, WriteForced, ObserveReview,
     StoreTerminal, executionVars, threadVars, runVars
<1>7. ASSUME Restart PROVE RunInv'
  BY <1>7 DEF Restart, RunInv, RunOfInput, Running
<1> QED BY <1>1, <1>2, <1>3, <1>4, <1>5, <1>6, <1>7, RunnerStepOfInput DEF Next

(* An accepted input is kept by every step of a process that lives. *)
LEMMA KeptStays ==
  ASSUME OwnershipInv, RunInv, [Next]_vars, ~Restart, NEW i \in Input, Kept(i)
  PROVE  Kept(i)'
<1>a. TypeInv
  BY DEF OwnershipInv
<1>1. CASE Recorded(i)
  BY <1>1, RecordedStays DEF Recorded, Kept
<1>2. ASSUME NEW t \in Turn, Running(t), source[t] = i PROVE Kept(i)'
  <2>a. ASSUME pc'[t] = pc[t] \/ pc'[t] \notin {"none", "done"}, source'[t] = source[t] PROVE Kept(i)'
    BY <1>2, <2>a DEF Kept, Running
  <2>b. ASSUME NEW u \in Turn, NEW k, NEW j, BeginRun(u, k, j) PROVE Kept(i)'
    <3>1. u # t
      BY <1>2, <2>b DEF BeginRun, Running
    <3> QED BY <1>a, <2>a, <2>b, <3>1 DEF BeginRun, TypeInv, ExecutionTypeOK
  <2>1. CASE UNCHANGED vars
    BY <2>a, <2>1 DEF vars, executionVars, runVars
  <2>2. ASSUME NEW u \in Turn, RunnerStep(u) PROVE Kept(i)'
    <3>1. UNCHANGED source
      BY <2>2 DEF RunnerStep, Proceed, WriteStarted, ShellUnavailable, PublishInput, DrainSteers,
         CloseTurn, FinalDrain, CompleteTurn, StopByHook, CompleteStopped, CompleteShell, FailTurn,
         WriteError, NoticeAbort, LeaveAborted, CheckTerminal, WriteCancelled
    <3>2. pc' = pc \/ \E to \in PC \ {"none", "done"} : pc' = [pc EXCEPT ![u] = to]
      BY <2>2 DEF RunnerStep, Proceed, WriteStarted, ShellUnavailable, PublishInput, DrainSteers,
         CloseTurn, FinalDrain, CompleteTurn, StopByHook, CompleteStopped, CompleteShell, FailTurn,
         WriteError, NoticeAbort, LeaveAborted, CheckTerminal, WriteCancelled, Goto, PC
    <3> QED BY <1>a, <2>a, <3>1, <3>2 DEF TypeInv, ExecutionTypeOK
  <2>3. ASSUME NEW u \in Turn, SettleRun(u) PROVE Kept(i)'
    <3>1. pc[u] = "settling" /\ pc' = [pc EXCEPT ![u] = "done"] /\ UNCHANGED source
      BY <2>3 DEF SettleRun, EndRun, Goto
    <3>2. CASE u = t
      <4>1. publishedIn[i] # <<>>
        BY <1>2, <3>1, <3>2, NoInputAssumption DEF RunInv, RunOfInput, Running
      <4> QED BY <1>1, <4>1 DEF Recorded
    <3>3. CASE u # t
      BY <1>a, <2>a, <3>1, <3>3 DEF TypeInv, ExecutionTypeOK
    <3> QED BY <3>2, <3>3
  <2>4. ASSUME ChainStep PROVE Kept(i)'
    <3>1. (\E u \in Turn : BeginRun(u, "regular", opInput)) \/ UNCHANGED <<pc, source>>
      BY <2>4 DEF ChainStep, StartDispatched, Register, ObserveDispatched, CreateDispatched, FinalizedTurnSettled, DispatchFails,
         Enqueue, ResumeAfterEnqueue, CheckReorder, StoreReorder, CheckWithdraw, StoreWithdraw, SendNow,
         RecheckSendNow, PublishSendNow, ReadOutcome, PauseAfterInterruption, ContinueAfterCompletion,
         executionVars, runVars
    <3> QED BY <2>a, <2>b, <3>1
  <2>5. ASSUME NEW j \in Input, CallStep(j) PROVE Kept(i)'
    <3>1. (\E u \in Turn : BeginRun(u, "regular", j)) \/ UNCHANGED <<pc, source>>
      BY <2>5 DEF CallStep, LookForActive, LookAtQueue, RedirectToQueue, CreateDirect, DirectWaitOver,
         StartDirect, Register, ObserveDirect, DirectFails, RecheckSteer, PublishSteer, executionVars, runVars
    <3> QED BY <2>a, <2>b, <3>1
  <2>6. ASSUME User PROVE Kept(i)'
    <3>1. (\E u \in Turn, k \in {"review", "user_shell"} : BeginRun(u, k, NoInput)) \/ UNCHANGED <<pc, source>>
      BY <2>6 DEF User, StartTurn, StartUnattended, QueueInput, SteerTurn, ClickSendNow, ClickWithdraw,
         Drag, Click, CancelTurn, ForceCancel, StartReview, StartShell, Register, executionVars, runVars
    <3> QED BY <2>a, <2>b, <3>1
  <2>7. ASSUME BeginDeletion \/ DeletionProgress \/ PrepareMigration \/ CancelMigration
               \/ \E u \in Turn : WriteForced(u) \/ ObserveReview(u)
        PROVE  Kept(i)'
    <3>1. UNCHANGED <<pc, source>>
      BY <2>7 DEF BeginDeletion, DeletionProgress, CancelSlot, SlotEmpty, CancellationsWritten,
         AdmissionsDrained, DeleteThread, DeletionFails, PrepareMigration, CancelMigration, WriteForced,
         ObserveReview, executionVars, runVars
    <3> QED BY <2>a, <3>1
  <2> QED BY <2>1, <2>2, <2>3, <2>4, <2>5, <2>6, <2>7 DEF Next
<1> QED BY <1>1, <1>2 DEF Kept, Recorded

(* The input of an answered call, and of a direct start that registered    *)
(* its run, is kept; so is that of an enqueue before it answers.  An       *)
(* operation that is at an await is at the head of the chain.              *)
Promised == \A i \in Input : request[i] \in {"observe", "accepted"} => Kept(i)

AcceptInv ==
  /\ Promised
  /\ step # "idle" => Busy
  /\ step # "idle" /\ Op.do = "enqueue" => Kept(Op.input)

(* Every step of a process that lives keeps what was promised. *)
LEMMA NextAccepted ==
  OwnershipInv /\ RunInv /\ AcceptInv /\ [Next]_vars /\ ~Restart => AcceptInv'
<1> SUFFICES ASSUME OwnershipInv, RunInv, AcceptInv, [Next]_vars, ~Restart
             PROVE  AcceptInv'
  OBVIOUS
<1>a. TypeInv
  BY DEF OwnershipInv
<1>b. \A i \in Input : Kept(i) => Kept(i)'
  BY KeptStays
<1>c. ASSUME \A i \in Input : request'[i] \in {"observe", "accepted"} =>
                               request[i] \in {"observe", "accepted"}
      PROVE  Promised'
  BY <1>b, <1>c DEF AcceptInv, Promised
<1>d. Busy /\ Op.do = "enqueue" => Op.input \in Input
  BY <1>a, HeadTyped DEF TypeInv
<1>e. ASSUME UNCHANGED step, UNCHANGED tail \/ \E op : tail' = Append(tail, op)
      PROVE  /\ step' # "idle" => Busy'
             /\ step' # "idle" /\ Op'.do = "enqueue" => Kept(Op.input)'
  <2>1. Busy => Busy' /\ Op' = Op
    BY <1>a, <1>e DEF Busy, Op, TypeInv, ChainTypeOK
  <2>2. CASE step' = "idle"
    BY <2>2
  <2>3. CASE step' # "idle"
    <3>1. Busy' /\ Op' = Op
      BY <1>e, <2>1, <2>3 DEF AcceptInv
    <3>2. Op.do = "enqueue" => Op.input \in Input /\ Kept(Op.input)
      BY <1>d, <1>e, <2>1, <2>3 DEF AcceptInv
    <3>3. Op.do = "enqueue" => Kept(Op.input)'
      <4> SUFFICES ASSUME Op.do = "enqueue" PROVE Kept(Op.input)'
        OBVIOUS
      <4>1. PICK i \in Input : i = Op.input /\ Kept(i)'
        BY <1>b, <3>2
      <4> QED BY <3>1, <4>1 DEF Kept
    <3> QED BY <3>1, <3>3
  <2> QED BY <2>2, <2>3
<1>f. ASSUME Leave, Promised' PROVE AcceptInv'
  BY <1>f DEF Leave, AcceptInv
<1>g. ASSUME NEW s, NEW i, NEW t, Await(s, i, t), Busy, Promised',
             Op.do = "enqueue" => Kept(Op.input)
      PROVE  AcceptInv'
  <2>1. Busy' /\ Op' = Op
    BY <1>g DEF Await, Busy, Op
  <2>2. ASSUME Op.do = "enqueue" PROVE Kept(Op.input)'
    <3>1. PICK i_1 \in Input : i_1 = Op.input /\ Kept(i_1)'
      BY <1>b, <1>d, <1>g, <2>2
    <3> QED BY <2>1, <3>1 DEF Kept
  <2> QED BY <1>g, <2>1, <2>2 DEF AcceptInv
<1>h. ASSUME NEW a \in Answer, Reply(a), Busy, a = "accepted" => step # "idle" \/ Op.do # "enqueue"
      PROVE  Promised'
  <2> SUFFICES ASSUME NEW i \in Input, request'[i] \in {"observe", "accepted"} PROVE Kept(i)'
    BY DEF Promised
  <2>1. CASE request[i] \in {"observe", "accepted"}
    BY <1>b, <2>1 DEF AcceptInv, Promised
  <2>2. CASE request[i] \notin {"observe", "accepted"}
    <3>1. Op.do = "enqueue" /\ i = Op.input /\ a = "accepted"
      BY <1>a, <1>h, <2>2 DEF Reply, Answer, TypeInv, CallTypeOK
    <3> QED BY <1>b, <1>h, <3>1 DEF AcceptInv, Answer
  <2> QED BY <2>1, <2>2
<1>i. UNCHANGED request => Promised'
  BY <1>c
<1>j. ASSUME NEW i, NEW p, Dispatch(i, p), Busy, step # "idle" \/ Op.do # "enqueue"
      PROVE  AcceptInv'
  <2>1. CASE EndOp /\ \E a \in Answer : Reply(a)
    BY <1>f, <1>h, <1>j, <2>1 DEF EndOp, Answer
  <2>2. CASE Await("create", i, NoTurn) /\ UNCHANGED request
    BY <1>g, <1>i, <1>j, <2>2 DEF AcceptInv
  <2> QED BY <1>j, <2>1, <2>2 DEF Dispatch, Answer
<1>1. CASE UNCHANGED vars
  BY <1>e, <1>i, <1>1 DEF vars, queueVars, AcceptInv
<1>2. ASSUME UNCHANGED request, UNCHANGED step, UNCHANGED tail \/ \E op : tail' = Append(tail, op)
      PROVE  AcceptInv'
  BY <1>e, <1>i, <1>2 DEF AcceptInv
<1>3. ASSUME ChainStep PROVE AcceptInv'
  <2>1. CASE \E t \in Turn : StartDispatched(t)
    <3>1. Busy /\ step # "idle" /\ step' = "observe" /\ UNCHANGED <<tail, request>>
      BY <2>1 DEF StartDispatched, At
    <3>2. Busy' /\ Op' = Op
      BY <3>1 DEF Busy, Op
    <3>3. ASSUME Op.do = "enqueue" PROVE Kept(Op.input)'
      <4>1. PICK i \in Input : i = Op.input /\ Kept(i)'
        BY <1>b, <1>d, <3>1, <3>3 DEF AcceptInv
      <4> QED BY <3>2, <4>1 DEF Kept
    <3> QED BY <1>i, <3>1, <3>2, <3>3 DEF AcceptInv
  <2>11. CASE ObserveDispatched
    BY <1>f, <1>h, <2>11 DEF ObserveDispatched, At, Answer
  <2>2. CASE DispatchFails
    <3>1. Busy /\ step # "idle" /\ EndOp /\ \E a \in Answer : Reply(a)
      BY <2>2 DEF DispatchFails, At, Answer
    <3> QED BY <1>f, <1>h, <3>1 DEF EndOp, Answer
  <2>3. CASE CreateDispatched \/ FinalizedTurnSettled
    <3>1. Busy /\ step # "idle" /\ UNCHANGED request /\ \E s, i, t : Await(s, i, t)
      BY <2>3 DEF CreateDispatched, FinalizedTurnSettled, At
    <3> QED BY <1>g, <1>i, <3>1 DEF AcceptInv
  <2>4. CASE Enqueue
    <3>1. Busy /\ step = "idle" /\ Op.do = "enqueue" /\ Op.input \in Input
      BY <1>d, <2>4 DEF Enqueue, Starts
    <3>2. CASE QueueFull
      BY <1>f, <1>h, <2>4, <3>1, <3>2 DEF EndOp, Enqueue, Answer
    <3>3. CASE ~QueueFull
      <4>1. /\ queue' = Append(queue, Op.input)
            /\ step' = "resume" /\ tail' = tail
            /\ UNCHANGED request
        BY <2>4, <3>3 DEF Enqueue, Await
      <4>2. PICK i \in Input : i = Op.input
        BY <3>1
      <4>3. i \in Elems(queue)'
        <5>1. /\ Len(Append(queue, i)) = Len(queue) + 1
              /\ Append(queue, i)[Len(queue) + 1] = i
              /\ Len(queue) \in Nat
          BY <1>a, AppendProperties, LenProperties DEF TypeInv, ExecutionTypeOK
        <5> QED BY <4>1, <4>2, <5>1 DEF Elems
      <4>4. Busy' /\ Op' = Op /\ Kept(i)'
        BY <3>1, <4>1, <4>3 DEF Busy, Op, Kept
      <4>5. Kept(Op.input)'
        BY <4>2, <4>4 DEF Kept
      <4> QED BY <1>i, <4>1, <4>4, <4>5 DEF AcceptInv
    <3> QED BY <3>2, <3>3
  <2>5. CASE ResumeAfterEnqueue
    <3>1. Busy /\ step # "idle"
      BY <2>5 DEF ResumeAfterEnqueue, At
    <3> QED BY <1>f, <1>h, <1>j, <2>5, <3>1 DEF EndOp, ResumeAfterEnqueue, Answer
  <2>6. CASE ContinueAfterCompletion
    <3>1. Busy /\ step # "idle"
      BY <2>6 DEF ContinueAfterCompletion, At
    <3> QED BY <1>f, <1>i, <1>j, <2>6, <3>1 DEF EndOp, ContinueAfterCompletion
  <2>7. CASE CheckReorder \/ CheckWithdraw \/ ReadOutcome
    <3>1. Busy /\ Op.do # "enqueue" /\ UNCHANGED request
      BY <2>7 DEF CheckReorder, CheckWithdraw, ReadOutcome, Starts
    <3>2. EndOp \/ \E s, i, t : Await(s, i, t)
      BY <2>7 DEF CheckReorder, CheckWithdraw, ReadOutcome
    <3> QED BY <1>f, <1>g, <1>i, <3>1, <3>2 DEF EndOp
  <2>8. CASE StoreReorder \/ StoreWithdraw \/ PublishSendNow \/ PauseAfterInterruption
    BY <1>f, <1>i, <2>8 DEF EndOp, StoreReorder, StoreWithdraw, PublishSendNow, PauseAfterInterruption
  <2>9. CASE SendNow
    <3>1. Busy /\ Op.do # "enqueue"
      BY <2>9 DEF SendNow, Starts
    <3>2. \/ EndOp /\ UNCHANGED request
          \/ Await("steer", Op.input, ActiveTurn) /\ UNCHANGED request
          \/ Dispatch(Op.input, FALSE)
      BY <2>9 DEF SendNow
    <3> QED BY <1>f, <1>g, <1>i, <1>j, <3>1, <3>2 DEF EndOp
  <2>10. CASE RecheckSendNow
    <3>1. Busy /\ step # "idle"
      BY <2>10 DEF RecheckSendNow, At
    <3>2. \/ EndOp /\ UNCHANGED request
          \/ Await("publish", opInput, opTurn) /\ UNCHANGED request
          \/ Dispatch(opInput, FALSE)
      BY <2>10 DEF RecheckSendNow
    <3> QED BY <1>f, <1>g, <1>i, <1>j, <3>1, <3>2 DEF EndOp, AcceptInv
  <2> QED BY <1>3, <2>1, <2>2, <2>3, <2>4, <2>5, <2>6, <2>7, <2>8, <2>9, <2>10, <2>11 DEF ChainStep
<1>4. ASSUME NEW i \in Input, CallStep(i) PROVE AcceptInv'
  <2>1. UNCHANGED step /\ (UNCHANGED tail \/ \E op : tail' = Append(tail, op))
    BY <1>4 DEF CallStep, LookForActive, LookAtQueue, RedirectToQueue, Add, CreateDirect,
       DirectWaitOver, StartDirect, Register, ObserveDirect, DirectFails, RecheckSteer, PublishSteer, queueVars
  <2>2. ASSUME Kept(i)' PROVE Promised'
    <3>1. \A j \in Input : j # i => request'[j] = request[j]
      BY <1>a, <1>4 DEF CallStep, LookForActive, LookAtQueue, RedirectToQueue, CreateDirect,
         DirectWaitOver, StartDirect, Register, ObserveDirect, DirectFails, RecheckSteer, PublishSteer, Ask, TypeInv, CallTypeOK
    <3> QED BY <1>b, <2>2, <3>1 DEF AcceptInv, Promised
  <2>3. ASSUME NEW t \in Turn, StartDirect(i, t) PROVE Kept(i)'
    BY <1>a, <2>3 DEF StartDirect, Register, BeginRun, Kept, Running, TypeInv, ExecutionTypeOK
  <2>4. CASE PublishSteer(i)
    <3>1. StoreMessage(i, target[i]) /\ target[i] \in Turn
      BY <1>a, <2>4 DEF PublishSteer, AcceptSteer, Ask, TypeInv, CallTypeOK
    <3>2. publishedIn'[i] # <<>>
      BY <1>a, <3>1, MessagesGrow DEF StoreMessage, TypeInv, ExecutionTypeOK
    <3>3. Kept(i)'
      BY <3>2 DEF Kept
    <3> QED BY <1>e, <2>1, <2>2, <3>3 DEF AcceptInv
  <2>5. CASE LookForActive(i) \/ LookAtQueue(i) \/ RedirectToQueue(i) \/ CreateDirect(i)
             \/ DirectWaitOver(i) \/ DirectFails(i) \/ RecheckSteer(i) \/ ObserveDirect(i)
    <3>1. \E to \in Request :
            /\ to \in {"observe", "accepted"} => request[i] = "observe"
            /\ request' = [request EXCEPT ![i] = to]
      BY <2>5 DEF LookForActive, LookAtQueue, RedirectToQueue, CreateDirect, DirectWaitOver,
         DirectFails, RecheckSteer, ObserveDirect, Ask, Request, Answer
    <3>2. Promised'
      BY <1>a, <1>c, <3>1 DEF TypeInv, CallTypeOK
    <3> QED BY <1>e, <2>1, <3>2 DEF AcceptInv
  <2>6. ASSUME NEW t \in Turn, StartDirect(i, t) PROVE AcceptInv'
    BY <1>e, <2>1, <2>2, <2>3, <2>6 DEF AcceptInv
  <2> QED BY <1>4, <2>4, <2>5, <2>6 DEF CallStep
<1>5. ASSUME User PROVE AcceptInv'
  <2>1. UNCHANGED step /\ (UNCHANGED tail \/ \E op : tail' = Append(tail, op))
    BY <1>5 DEF User, StartTurn, StartUnattended, QueueInput, Add, SteerTurn, ClickSendNow,
       ClickWithdraw, Drag, Click, CancelTurn, ForceCancel, StartReview, StartShell, Register, queueVars
  <2>2. UNCHANGED request \/ \E i \in Input, to \in Request \ {"observe", "accepted"} :
                               request' = [request EXCEPT ![i] = to]
    BY <1>5 DEF User, StartTurn, StartUnattended, QueueInput, SteerTurn, ClickSendNow, ClickWithdraw,
       Drag, Click, CancelTurn, ForceCancel, StartReview, StartShell, Register, idleDriver, Ask, Request, Answer
  <2>3. Promised'
    BY <1>a, <1>c, <2>2 DEF TypeInv, CallTypeOK
  <2> QED BY <1>e, <2>1, <2>3 DEF AcceptInv
<1>6. ASSUME NEW t \in Turn, RunnerStep(t) \/ SettleRun(t) \/ WriteForced(t)
                               \/ ObserveReview(t)
      PROVE  AcceptInv'
  BY <1>2, <1>6 DEF RunnerStep, Proceed, SettleRun, WriteForced, ObserveReview, queueVars, idleDriver
<1>7. ASSUME BeginDeletion \/ DeletionProgress \/ PrepareMigration \/ CancelMigration PROVE AcceptInv'
  BY <1>2, <1>7 DEF BeginDeletion, DeletionProgress, CancelSlot, SlotEmpty, CancellationsWritten,
     AdmissionsDrained, DeleteThread, DeletionFails, Deletion, PrepareMigration, CancelMigration, queueVars
<1> QED BY <1>1, <1>3, <1>4, <1>5, <1>6, <1>7 DEF Next

(* Only a restart counts as one. *)
LEMMA RestartsStay == Next => Restart \/ UNCHANGED restarts
BY DEF Next, User, RunnerStep, Proceed, ChainStep, CallStep, DeletionProgress, StartTurn,
   StartUnattended, QueueInput, SteerTurn, ClickSendNow, ClickWithdraw, Drag, Click, CancelTurn,
   ForceCancel, StartReview, StartShell, Register, WriteForced, LookForActive, LookAtQueue, RedirectToQueue, CreateDirect,
   DirectWaitOver, StartDirect, ObserveDirect, DirectFails, RecheckSteer, PublishSteer, Ask, BeginDeletion,
   ObserveReview, CancelSlot, SlotEmpty, CancellationsWritten, AdmissionsDrained, DeleteThread,
   DeletionFails, Deletion, PrepareMigration, CancelMigration, idleDriver

(* As long as the process lives, an input whose call was answered with     *)
(* success is queued, was sent or taken back, or is what a run that has    *)
(* not stored it yet was started for.  (A crash may lose the input of a    *)
(* direct start between its answer and its message.)                       *)
THEOREM NothingAcceptedIsLost == Spec => [](restarts = 0 => AcceptedInputIsKept)
<1> DEFINE Inv == OwnershipInv /\ RunInv /\ (restarts = 0 => AcceptInv)
<1>1. Init => Inv
  BY InitTyped, InitHolds
     DEF OwnershipInv, Init, ExecutionInit, QueueInit, RunInv, RunOfInput, Running, AcceptInv,
         Promised
<1>2. Inv /\ [Next]_vars => Inv'
  <2> SUFFICES ASSUME Inv, [Next]_vars PROVE Inv'
    OBVIOUS
  <2>1. OwnershipInv' /\ RunInv'
    BY NextTyped, NextHolds, NextRunInv DEF OwnershipInv
  <2>2. ASSUME restarts' = 0 PROVE AcceptInv'
    <3>1. ~Restart
      BY <2>2 DEF OwnershipInv, TypeInv, DriverTypeOK, Restart
    <3>2. restarts = 0
      BY <2>2, <3>1, RestartsStay DEF vars
    <3> QED BY <3>1, <3>2, NextAccepted
  <2> QED BY <2>1, <2>2
<1>3. Inv => (restarts = 0 => AcceptedInputIsKept)
  BY DEF AcceptInv, Promised, AcceptedInputIsKept
<1> QED BY <1>1, <1>2, <1>3, PTL DEF Spec

-----------------------------------------------------------------------------
(* A late settlement does not pause.                                       *)

SettledOp(op) == op.do = "settle" => op.turn \in Turn /\ pc[op.turn] = "done"

(* The turn in the slot is the latest observed run or waits to be          *)
(* observed, what is registered is not over, and a settlement in the chain *)
(* is of a run that is over.                                               *)
LatestInv ==
  /\ current # NoTurn => current \in registered /\ (latest = current \/ current \in unobserved)
  /\ \A t \in registered : Running(t)
  /\ \A k \in 1 .. Len(tail) : SettledOp(tail[k])
  /\ step = "interrupted" => Busy /\ Op.do = "settle"

(* The settlement at the head of the chain is not of the turn in the slot. *)
LEMMA SettledHead ==
  ASSUME TypeInv, LatestInv, Busy
  PROVE  SettledOp(Op) /\ (Op.do = "settle" => Op.turn # current)
<1>1. Op = tail[1] /\ 1 \in 1 .. Len(tail)
  BY HeadTailProperties, LenProperties, EmptySeq DEF TypeInv, ChainTypeOK, Busy, Op
<1>2. SettledOp(Op)
  BY <1>1 DEF LatestInv
<1>3. current # NoTurn => pc[current] # "done"
  BY DEF LatestInv, Running
<1> QED BY <1>2, <1>3, NoTurnAssumption DEF SettledOp

(* An operation ends: the chain loses its head, and only a settlement that *)
(* is over forgets the latest run.                                         *)
LEMMA EndOpLatest ==
  ASSUME TypeInv, LatestInv, Busy, EndOp, UNCHANGED <<registered, current, pc>>
  PROVE  LatestInv'
<1>1. /\ tail' = Tail(tail) /\ Len(Tail(tail)) = Len(tail) - 1 /\ Len(tail) \in Nat
      /\ \A k \in 1 .. Len(Tail(tail)) : Tail(tail)[k] = tail[k + 1]
  BY HeadTailProperties, LenProperties DEF EndOp, Leave, TypeInv, ChainTypeOK, Busy
<1>2. \A k \in 1 .. Len(tail') : SettledOp(tail[k + 1])
  BY <1>1 DEF LatestInv
<1>3. \A k \in 1 .. Len(tail') : SettledOp(tail[k])'
  BY <1>1, <1>2 DEF SettledOp
<1>4. current' # NoTurn => current' \in registered' /\ (latest' = current' \/ current' \in unobserved')
  <2>1. latest = current => ~(Op.do = "settle" /\ Op.turn = latest)
    BY SettledHead DEF LatestInv
  <2> QED BY <2>1 DEF EndOp, LatestInv
<1>5. step' = "idle" /\ \A t \in registered' : Running(t)'
  BY DEF EndOp, Leave, LatestInv, Running
<1> QED BY <1>3, <1>4, <1>5 DEF LatestInv

(* A run is registered. *)
LEMMA BeginRunLatest ==
  ASSUME TypeInv, LatestInv, NEW t \in Turn, NEW k, NEW i, BeginRun(t, k, i),
         UNCHANGED tail, t \in unobserved' \/ latest' = t,
         step' = "observe" \/ UNCHANGED step
  PROVE  LatestInv'
<1>1. /\ registered' = registered \cup {t} /\ current' = t
      /\ pc[t] = "none" /\ pc' = [pc EXCEPT ![t] = "registered"]
  BY DEF BeginRun, StartTask
<1>2. \A u \in registered' : Running(u)'
  BY <1>1 DEF LatestInv, Running, TypeInv, RegistryTypeOK, ExecutionTypeOK
<1>3. ASSUME NEW op, SettledOp(op) PROVE op.do = "settle" => op.turn \in Turn /\ pc'[op.turn] = "done"
  BY <1>1, <1>3 DEF SettledOp, TypeInv, ExecutionTypeOK
<1>4. \A j \in 1 .. Len(tail') : SettledOp(tail[j])
  BY DEF LatestInv
<1>5. \A j \in 1 .. Len(tail') : SettledOp(tail[j])'
  BY <1>3, <1>4 DEF SettledOp
<1> QED BY <1>1, <1>2, <1>5 DEF LatestInv, Busy, Op

(* The run in the slot is observed. *)
LEMMA ObserveLatest ==
  ASSUME TypeInv, LatestInv, current # NoTurn => latest' = current, UNCHANGED <<registered, current, pc>>,
         UNCHANGED <<tail, step>> \/ (Busy /\ Leave)
  PROVE  LatestInv'
<1>1. CASE UNCHANGED <<tail, step>>
  BY <1>1 DEF LatestInv, SettledOp, Running, Busy, Op
<1>2. CASE Busy /\ Leave
  <2>1. /\ tail' = Tail(tail) /\ Len(Tail(tail)) = Len(tail) - 1 /\ Len(tail) \in Nat
        /\ \A k \in 1 .. Len(Tail(tail)) : Tail(tail)[k] = tail[k + 1]
    BY <1>2, HeadTailProperties, LenProperties DEF Leave, TypeInv, ChainTypeOK, Busy
  <2>2. \A k \in 1 .. Len(tail') : SettledOp(tail[k + 1])
    BY <2>1 DEF LatestInv
  <2>3. \A k \in 1 .. Len(tail') : SettledOp(tail[k])'
    BY <2>1, <2>2 DEF SettledOp
  <2>4. step' = "idle" /\ \A t \in registered' : Running(t)'
    BY <1>2 DEF Leave, LatestInv, Running
  <2> QED BY <2>3, <2>4 DEF LatestInv
<1> QED BY <1>1, <1>2

(* An operation joins the chain. *)
LEMMA AddLatest ==
  ASSUME TypeInv, LatestInv, NEW op \in Operation, tail' = Append(tail, op), SettledOp(op)',
         \A k \in 1 .. Len(tail) : SettledOp(tail[k]) => SettledOp(tail[k])',
         UNCHANGED <<step, latest, unobserved>>, current' # NoTurn => current' = current /\ current' \in registered',
         \A t \in registered' : Running(t)'
  PROVE  LatestInv'
<1>1. /\ Len(tail') = Len(tail) + 1
      /\ \A k \in 1 .. Len(tail) : tail'[k] = tail[k]
      /\ tail'[Len(tail) + 1] = op
      /\ Len(tail) \in Nat
  BY AppendProperties, LenProperties DEF TypeInv, ChainTypeOK
<1>2. ASSUME NEW k \in 1 .. Len(tail') PROVE SettledOp(tail[k])'
  <2>1. CASE k \in 1 .. Len(tail)
    <3>1. SettledOp(tail[k]) /\ tail'[k] = tail[k]
      BY <1>1, <2>1 DEF LatestInv
    <3> QED BY <2>1, <3>1 DEF SettledOp
  <2>2. CASE k = Len(tail) + 1
    BY <1>1, <2>2 DEF SettledOp
  <2> QED BY <1>1, <1>2, <2>1, <2>2
<1>3. Busy => Busy' /\ Op' = Op
  BY DEF Busy, Op, TypeInv, ChainTypeOK
<1> QED BY <1>2, <1>3 DEF LatestInv

-----------------------------------------------------------------------------
(* A run between its registration and its observation.                     *)

(* The turn that is not observed yet is in the slot and was not cancelled, *)
(* unless by a deletion.                                                   *)
UnobservedInSlot ==
  /\ unobserved \subseteq {current}
  /\ unobserved \cap aborted # {} => "deleting" \in closed
  /\ \A t \in aborted : pc[t] # "none"

(* Whoever started it is on the way to observe it, and is alone there.     *)
ChainObserves ==
  step = "observe" => /\ opTurn \in unobserved
                      /\ kind[opTurn] = "regular"
                      /\ \A i \in Input : request[i] # "observe"

CallObserves ==
  \A i \in Input : request[i] = "observe" =>
    /\ target[i] \in unobserved
    /\ kind[target[i]] = "regular"
    /\ \A j \in Input : request[j] = "observe" => j = i

ObserveInv == UnobservedInSlot /\ ChainObserves /\ CallObserves

(* No turn is registered while another one waits to be observed. *)
LEMMA RegisterAlone ==
  ASSUME TypeInv, ObserveInv, NEW t \in Turn, NEW k, NEW i, BeginRun(t, k, i)
  PROVE  /\ unobserved = {} /\ t \notin aborted
         /\ step # "observe" /\ \A j \in Input : request[j] # "observe"
<1>1. "deleting" \notin closed /\ ActiveTurn = NoTurn /\ pc[t] = "none"
  BY DEF BeginRun, CanStart
<1>2. unobserved \cap aborted = {} /\ unobserved \subseteq {current} /\ unobserved \subseteq Turn
  BY <1>1 DEF ObserveInv, UnobservedInSlot, TypeInv, ChainTypeOK
<1>3. unobserved = {}
  BY <1>1, <1>2, NoTurnAssumption DEF ActiveTurn
<1> QED BY <1>1, <1>3 DEF ObserveInv, UnobservedInSlot, ChainObserves, CallObserves

(* A run is registered: it is the only one in the window. *)
LEMMA RegisterObserves ==
  ASSUME TypeInv, ObserveInv, NEW t \in Turn, NEW k, NEW i, BeginRun(t, k, i),
         unobserved' \subseteq {t},
         ChainObserves', CallObserves'
  PROVE  ObserveInv'
<1>1. t \notin aborted
  BY RegisterAlone
<1>2. /\ current' = t /\ UNCHANGED <<aborted, closed>>
      /\ pc' = [pc EXCEPT ![t] = "registered"]
  BY DEF BeginRun, StartTask
<1>3. UnobservedInSlot'
  BY <1>1, <1>2 DEF ObserveInv, UnobservedInSlot, TypeInv, RegistryTypeOK, ExecutionTypeOK
<1> QED BY <1>3 DEF ObserveInv

(* Nobody starts or observes a run. *)
LEMMA ObservationStays ==
  ASSUME ObserveInv, UnobservedInSlot', UNCHANGED <<kind, unobserved>>,
         step' # "observe" \/ UNCHANGED <<step, opTurn>>,
         \A i \in Input : request'[i] = "observe" => request[i] = "observe" /\ target'[i] = target[i]
  PROVE  ObserveInv'
BY DEF ObserveInv, ChainObserves, CallObserves

(* Every step keeps the window to one turn and one observer. *)
LEMMA NextObserve ==
  ASSUME TypeInv, DeletionInv, LatestInv, ObserveInv, [Next]_vars
  PROVE  ObserveInv'
<1>a. ASSUME UNCHANGED <<current, aborted, closed, pc, unobserved>> PROVE UnobservedInSlot'
  BY <1>a DEF ObserveInv, UnobservedInSlot
<1>b. ASSUME NEW i \in Input, NEW from, NEW to \in Request \ {"observe"}, NEW t, Ask(i, from, to, t)
      PROVE  \A j \in Input : request'[j] = "observe" => request[j] = "observe" /\ target'[j] = target[j]
  BY <1>b DEF Ask, TypeInv, CallTypeOK
<1>c. ASSUME NEW a \in Answer, Reply(a), UNCHANGED target
      PROVE  \A j \in Input : request'[j] = "observe" => request[j] = "observe" /\ target'[j] = target[j]
  BY <1>c DEF Reply, Answer, TypeInv, CallTypeOK
<1>1. CASE UNCHANGED vars
  BY <1>a, <1>1, ObservationStays DEF vars, registryVars, executionVars, runVars, queueVars
<1>2. ASSUME NEW t \in Turn, RunnerStep(t) PROVE ObserveInv'
  <2>1. UNCHANGED <<current, aborted, closed, kind, unobserved, step, opTurn, request, target>>
    BY <1>2 DEF RunnerStep, Proceed, WriteStarted, ShellUnavailable, PublishInput, DrainSteers,
       CloseTurn, FinalDrain, CompleteTurn, StopByHook, CompleteStopped, CompleteShell, FailTurn,
       WriteError, NoticeAbort, LeaveAborted, CheckTerminal, WriteCancelled, StopAcceptingSteers,
       registryVars, queueVars, idleDriver
  <2>2. pc' = pc \/ \E to \in PC \ {"none"} : pc' = [pc EXCEPT ![t] = to]
    BY <1>2 DEF RunnerStep, Proceed, WriteStarted, ShellUnavailable, PublishInput, DrainSteers,
       CloseTurn, FinalDrain, CompleteTurn, StopByHook, CompleteStopped, CompleteShell, FailTurn,
       WriteError, NoticeAbort, LeaveAborted, CheckTerminal, WriteCancelled, Goto, PC
  <2>3. UnobservedInSlot'
    BY <2>1, <2>2 DEF ObserveInv, UnobservedInSlot, TypeInv, RegistryTypeOK, ExecutionTypeOK
  <2> QED BY <2>1, <2>3, ObservationStays
<1>3. ASSUME NEW t \in Turn, SettleRun(t), UNCHANGED idleDriver PROVE ObserveInv'
  <2>1. /\ pc' = [pc EXCEPT ![t] = "done"] /\ t \notin unobserved
        /\ current' = IF current = t THEN NoTurn ELSE current
        /\ UNCHANGED <<aborted, closed, kind, unobserved, step, opTurn, request, target>>
    BY <1>3 DEF SettleRun, EndRun, Goto, FinishTask, idleDriver
  <2>2. UnobservedInSlot'
    BY <2>1 DEF ObserveInv, UnobservedInSlot, TypeInv, RegistryTypeOK, ExecutionTypeOK
  <2> QED BY <2>1, <2>2, ObservationStays
<1>4. ASSUME NEW t \in Turn, ObserveReview(t) PROVE ObserveInv'
  <2>1. /\ t \in unobserved /\ kind[t] = "review" /\ unobserved' = unobserved \ {t}
        /\ UNCHANGED <<current, aborted, closed, pc, kind, step, opTurn, request, target>>
    BY <1>4 DEF ObserveReview, Observe, registryVars, executionVars, runVars, idleDriver
  <2>2. UnobservedInSlot'
    BY <2>1 DEF ObserveInv, UnobservedInSlot
  <2> QED BY <2>1, <2>2 DEF ObserveInv, ChainObserves, CallObserves
<1>5. ASSUME NEW t \in Turn, WriteForced(t) PROVE ObserveInv'
  BY <1>a, <1>5, ObservationStays DEF WriteForced, registryVars, runVars, queueVars
<1>6. ASSUME ChainStep PROVE ObserveInv'
  <2>a. UNCHANGED target
    BY <1>6 DEF ChainStep, idleDriver
  <2>1. ASSUME NEW t \in Turn, StartDispatched(t) PROVE ObserveInv'
    <3>1. /\ BeginRun(t, "regular", opInput) /\ unobserved' = unobserved \cup {t}
          /\ step' = "observe" /\ opTurn' = t /\ UNCHANGED request
      BY <2>1 DEF StartDispatched, Register
    <3>2. unobserved = {} /\ \A j \in Input : request[j] # "observe"
      BY <3>1, RegisterAlone
    <3>3. kind' = [kind EXCEPT ![t] = "regular"]
      BY <3>1 DEF BeginRun
    <3>4. ChainObserves' /\ CallObserves'
      BY <3>1, <3>2, <3>3 DEF ChainObserves, CallObserves, TypeInv, ExecutionTypeOK
    <3> QED BY <3>1, <3>2, <3>4, RegisterObserves
  <2>2. CASE ObserveDispatched
    <3>1. /\ step = "observe" /\ step' = "idle" /\ unobserved' = unobserved \ {opTurn}
          /\ UNCHANGED <<current, aborted, closed, pc, kind>> /\ Reply("accepted")
      BY <2>2 DEF ObserveDispatched, At, Leave, Observe, registryVars, executionVars, runVars
    <3>2. \A i \in Input : request'[i] # "observe"
      BY <1>c, <2>a, <3>1 DEF ObserveInv, ChainObserves, Answer
    <3>3. UnobservedInSlot'
      BY <3>1 DEF ObserveInv, UnobservedInSlot
    <3> QED BY <3>1, <3>2, <3>3 DEF ObserveInv, ChainObserves, CallObserves
  <2>3. CASE ~ObserveDispatched /\ ~\E t \in Turn : StartDispatched(t)
    <3>1. UNCHANGED <<current, aborted, closed, pc, kind, unobserved>> /\ step' # "observe"
      BY <1>6, <2>3 DEF ChainStep, CreateDispatched, FinalizedTurnSettled, DispatchFails, Enqueue,
         ResumeAfterEnqueue, CheckReorder, StoreReorder, CheckWithdraw, StoreWithdraw, SendNow,
         RecheckSendNow, PublishSendNow, ReadOutcome, Outcome, PauseAfterInterruption,
         ContinueAfterCompletion, Dispatch, Await, EndOp, Leave, registryVars, executionVars, runVars
    <3>2. UNCHANGED request \/ \E a \in Answer : Reply(a)
      BY <1>6, <2>3 DEF ChainStep, CreateDispatched, FinalizedTurnSettled, DispatchFails, Enqueue,
         ResumeAfterEnqueue, CheckReorder, StoreReorder, CheckWithdraw, StoreWithdraw, SendNow,
         RecheckSendNow, PublishSendNow, ReadOutcome, PauseAfterInterruption,
         ContinueAfterCompletion, Dispatch, Answer
    <3> QED BY <1>a, <1>c, <2>a, <3>1, <3>2, ObservationStays
  <2> QED BY <2>1, <2>2, <2>3
<1>7. ASSUME NEW i \in Input, CallStep(i) PROVE ObserveInv'
  <2>1. ASSUME NEW t \in Turn, StartDirect(i, t) PROVE ObserveInv'
    <3>1. /\ BeginRun(t, "regular", i) /\ unobserved' = unobserved \cup {t}
          /\ Ask(i, {"register"}, "observe", t) /\ UNCHANGED step
      BY <2>1 DEF StartDirect, Register
    <3>2. unobserved = {} /\ step # "observe" /\ \A j \in Input : request[j] # "observe"
      BY <3>1, RegisterAlone
    <3>3. kind' = [kind EXCEPT ![t] = "regular"]
      BY <3>1 DEF BeginRun
    <3>4. kind'[t] = "regular" /\ \A j \in Input : request'[j] = "observe" => j = i /\ target'[j] = t
      BY <3>1, <3>2, <3>3 DEF Ask, TypeInv, ExecutionTypeOK, CallTypeOK
    <3>5. ChainObserves' /\ CallObserves'
      BY <3>1, <3>2, <3>4 DEF ChainObserves, CallObserves
    <3> QED BY <3>1, <3>2, <3>5, RegisterObserves
  <2>2. CASE ObserveDirect(i)
    <3>1. /\ request[i] = "observe" /\ Ask(i, {"observe"}, "accepted", NoTurn)
          /\ unobserved' = unobserved \ {target[i]}
          /\ UNCHANGED <<current, aborted, closed, pc, kind, step, opTurn>>
      BY <2>2 DEF ObserveDirect, Ask, Observe, registryVars, executionVars, runVars
    <3>2. step # "observe" /\ \A j \in Input : request[j] = "observe" => j = i
      BY <3>1 DEF ObserveInv, ChainObserves, CallObserves
    <3>3. \A j \in Input : request'[j] # "observe"
      BY <3>1, <3>2 DEF Ask, TypeInv, CallTypeOK
    <3>4. UnobservedInSlot'
      BY <3>1 DEF ObserveInv, UnobservedInSlot
    <3> QED BY <3>1, <3>2, <3>3, <3>4 DEF ObserveInv, ChainObserves, CallObserves
  <2>3. CASE ~ObserveDirect(i) /\ ~\E t \in Turn : StartDirect(i, t)
    <3>1. UNCHANGED <<current, aborted, closed, pc, kind, unobserved, step, opTurn>>
      BY <1>7, <2>3 DEF CallStep, LookForActive, LookAtQueue, RedirectToQueue, Add, CreateDirect,
         DirectWaitOver, DirectFails, RecheckSteer, PublishSteer, registryVars, executionVars, runVars,
         queueVars
    <3>2. \E from, t : \E to \in Request \ {"observe"} : Ask(i, from, to, t)
      BY <1>7, <2>3 DEF CallStep, LookForActive, LookAtQueue, RedirectToQueue, CreateDirect,
         DirectWaitOver, DirectFails, RecheckSteer, PublishSteer, Request, Answer
    <3> QED BY <1>a, <1>b, <3>1, <3>2, ObservationStays
  <2> QED BY <2>1, <2>2, <2>3
<1>8. ASSUME User PROVE ObserveInv'
  <2>1. ASSUME NEW t \in Turn, StartReview(t) \/ StartShell(t) PROVE ObserveInv'
    <3>1. /\ \E k \in {"review", "user_shell"} : BeginRun(t, k, NoInput)
          /\ unobserved' \subseteq unobserved \cup {t}
          /\ UNCHANGED <<step, request>>
      BY <2>1 DEF StartReview, StartShell, Register, Observe
    <3>2. unobserved = {} /\ step # "observe" /\ \A j \in Input : request[j] # "observe"
      BY <3>1, RegisterAlone
    <3>3. ChainObserves' /\ CallObserves'
      BY <3>1, <3>2 DEF ChainObserves, CallObserves
    <3> QED BY <3>1, <3>2, <3>3, RegisterObserves
  <2>2. ASSUME NEW t \in Turn, CancelTurn(t) PROVE ObserveInv'
    <3>1. /\ t \notin unobserved /\ t \in registered /\ aborted' = aborted \cup {t}
          /\ UNCHANGED <<current, closed, pc, kind, unobserved, step, opTurn, request, target>>
      BY <2>2 DEF CancelTurn, Cancellable, AbortTask, queueVars
    <3>2. UnobservedInSlot'
      BY <3>1 DEF ObserveInv, UnobservedInSlot, LatestInv, Running
    <3> QED BY <3>1, <3>2, ObservationStays
  <2>3. CASE ~(\E t \in Turn : StartReview(t) \/ StartShell(t)) /\ ~\E t \in Turn : CancelTurn(t)
    <3>1. UNCHANGED <<current, aborted, closed, pc, kind, unobserved, step, opTurn>>
      BY <1>8, <2>3 DEF User, StartTurn, StartUnattended, QueueInput, Add, SteerTurn, ClickSendNow,
         ClickWithdraw, Drag, Click, ForceCancel, registryVars, executionVars, runVars, queueVars
    <3>2. UNCHANGED <<request, target>>
          \/ \E i \in Input, to \in Request \ {"observe"} : \E from, t : Ask(i, from, to, t)
      BY <1>8, <2>3 DEF User, StartTurn, StartUnattended, QueueInput, SteerTurn, ClickSendNow,
         ClickWithdraw, Drag, Click, ForceCancel, idleDriver, Request, Answer
    <3> QED BY <1>a, <1>b, <3>1, <3>2, ObservationStays
  <2> QED BY <2>1, <2>2, <2>3
<1>9. ASSUME BeginDeletion \/ DeletionProgress \/ PrepareMigration \/ CancelMigration PROVE ObserveInv'
  <2>1. UNCHANGED <<current, pc, kind, unobserved, step, opTurn, request, target>>
    BY <1>9 DEF BeginDeletion, DeletionProgress, CancelSlot, SlotEmpty, CancellationsWritten,
       AdmissionsDrained, DeleteThread, DeletionFails, Deletion, PrepareMigration, CancelMigration,
       Refuse, Readmit, AbortTask, registryVars, executionVars, runVars, queueVars, idleDriver
  <2>2. CASE CancelSlot
    <3>1. /\ "deleting" \in closed /\ UNCHANGED closed
          /\ aborted' = aborted \cup {current} /\ current \in registered
      BY <2>2 DEF CancelSlot, AbortTask, DeletionInv, LatestInv
    <3>2. UnobservedInSlot'
      BY <2>1, <3>1 DEF ObserveInv, UnobservedInSlot, LatestInv, Running
    <3> QED BY <2>1, <3>2, ObservationStays
  <2>3. CASE DeletionFails
    <3>1. unobserved = {} /\ UNCHANGED aborted
      BY <2>3, NoTurnAssumption DEF DeletionFails, Deletion, Readmit, DeletionInv, ObserveInv,
         UnobservedInSlot, TypeInv, ChainTypeOK
    <3>2. UnobservedInSlot'
      BY <2>1, <3>1 DEF ObserveInv, UnobservedInSlot
    <3> QED BY <2>1, <3>2, ObservationStays
  <2>4. CASE ~CancelSlot /\ ~DeletionFails
    <3>1. UNCHANGED aborted /\ ("deleting" \in closed => "deleting" \in closed')
      BY <1>9, <2>4 DEF BeginDeletion, DeletionProgress, SlotEmpty, CancellationsWritten,
         AdmissionsDrained, DeleteThread, PrepareMigration, CancelMigration, Refuse, Readmit,
         registryVars
    <3>2. UnobservedInSlot'
      BY <2>1, <3>1 DEF ObserveInv, UnobservedInSlot
    <3> QED BY <2>1, <3>2, ObservationStays
  <2> QED BY <2>2, <2>3, <2>4
<1>10. ASSUME Restart PROVE ObserveInv'
  <2>1. /\ unobserved' = {} /\ aborted' = {} /\ step' = "idle"
        /\ \A i \in Input : request'[i] # "observe"
    BY <1>10 DEF Restart, Answer
  <2> QED BY <2>1 DEF ObserveInv, UnobservedInSlot, ChainObserves, CallObserves
<1> QED BY <1>1, <1>2, <1>3, <1>4, <1>5, <1>6, <1>7, <1>8, <1>9, <1>10 DEF Next

-----------------------------------------------------------------------------
(* The latest observed run.                                                *)

(* Every step keeps the slot, the latest run and the settlements in line. *)
LEMMA NextLatest == TypeInv /\ ObserveInv /\ LatestInv /\ [Next]_vars => LatestInv'
<1> SUFFICES ASSUME TypeInv, ObserveInv, LatestInv, [Next]_vars PROVE LatestInv'
  OBVIOUS
<1>a. ASSUME UNCHANGED <<registered, current, pc, latest, unobserved, tail, step>> PROVE LatestInv'
  BY <1>a DEF LatestInv, SettledOp, Running, Busy, Op
<1>b. ASSUME NEW op \in Operation, op.do # "settle", tail' = Append(tail, op),
             UNCHANGED <<registered, current, pc, latest, unobserved, step>>
      PROVE  LatestInv'
  <2>1. \A k \in 1 .. Len(tail) : tail'[k] = tail[k]
    BY <1>b, AppendProperties DEF TypeInv, ChainTypeOK
  <2>2. \A k \in 1 .. Len(tail) : SettledOp(tail[k]) => SettledOp(tail[k])'
    BY <1>b, <2>1 DEF SettledOp
  <2>3. op.do # "settle" => SettledOp(op)'
    BY DEF SettledOp
  <2>4. current' # NoTurn => current' = current /\ current' \in registered'
    BY <1>b DEF LatestInv
  <2>5. \A t \in registered' : Running(t)'
    BY <1>b DEF LatestInv, Running
  <2> QED BY <1>b, <2>2, <2>3, <2>4, <2>5, AddLatest
<1>c. ASSUME NEW s \in Step, NEW i, NEW t, Await(s, i, t), UNCHANGED <<registered, current, pc>>,
             s = "interrupted" => Busy /\ Op.do = "settle"
      PROVE  LatestInv'
  BY <1>c DEF Await, LatestInv, SettledOp, Running, Busy, Op
<1>d. ASSUME NEW i, NEW p, Dispatch(i, p), Busy, UNCHANGED <<registered, current, pc>> PROVE LatestInv'
  BY <1>c, <1>d, EndOpLatest DEF Dispatch, Step
<1>1. CASE UNCHANGED vars
  BY <1>a, <1>1 DEF vars, registryVars, executionVars, runVars, queueVars
<1>2. ASSUME NEW t \in Turn, RunnerStep(t) PROVE LatestInv'
  <2>1. UNCHANGED <<registered, current, latest, unobserved, tail, step>>
    BY <1>2 DEF RunnerStep, Proceed, WriteStarted, ShellUnavailable, PublishInput, DrainSteers,
       CloseTurn, FinalDrain, CompleteTurn, StopByHook, CompleteStopped, CompleteShell, FailTurn,
       WriteError, NoticeAbort, LeaveAborted, CheckTerminal, WriteCancelled, StopAcceptingSteers,
       registryVars, queueVars
  <2>2. \/ pc' = pc
        \/ Running(t) /\ \E to \in PC \ {"none", "done"} : pc' = [pc EXCEPT ![t] = to]
    BY <1>2 DEF RunnerStep, Proceed, WriteStarted, ShellUnavailable, PublishInput, DrainSteers,
       CloseTurn, FinalDrain, CompleteTurn, StopByHook, CompleteStopped, CompleteShell, FailTurn,
       WriteError, NoticeAbort, LeaveAborted, CheckTerminal, WriteCancelled, Goto, PC, Running
  <2>3. ASSUME Running(t), NEW to \in PC \ {"none", "done"}, pc' = [pc EXCEPT ![t] = to]
        PROVE  LatestInv'
    <3>1. \A u \in Turn : (pc[u] = "done" => pc'[u] = "done") /\ (Running(u) => Running(u)')
      BY <2>3 DEF Running, TypeInv, ExecutionTypeOK
    <3> QED BY <2>1, <3>1 DEF LatestInv, SettledOp, Busy, Op, TypeInv, RegistryTypeOK
  <2> QED BY <1>a, <2>1, <2>2, <2>3
<1>3. ASSUME NEW t \in Turn, SettleRun(t) PROVE LatestInv'
  <2>1. /\ pc' = [pc EXCEPT ![t] = "done"]
        /\ registered' = registered \ {t}
        /\ current' = IF current = t THEN NoTurn ELSE current
        /\ tail' = Append(tail, SettleOp(t))
        /\ UNCHANGED <<step, latest, unobserved>>
    BY <1>3 DEF SettleRun, EndRun, Goto, FinishTask
  <2>2. SettleOp(t) \in Operation /\ SettleOp(t).do = "settle" /\ SettleOp(t).turn = t
    BY EmptySeq DEF SettleOp, Operation
  <2>3. \A k \in 1 .. Len(tail) : tail'[k] = tail[k]
    BY <2>1, <2>2, AppendProperties DEF TypeInv, ChainTypeOK
  <2>4. \A k \in 1 .. Len(tail) : SettledOp(tail[k]) => SettledOp(tail[k])'
    BY <2>1, <2>3 DEF SettledOp, TypeInv, ExecutionTypeOK
  <2>5. SettledOp(SettleOp(t))'
    BY <2>1, <2>2 DEF SettledOp, SettleOp, TypeInv, ExecutionTypeOK
  <2>6. current' # NoTurn => current' = current /\ current' \in registered'
    BY <2>1 DEF LatestInv
  <2>7. \A u \in registered' : Running(u)'
    BY <2>1 DEF LatestInv, Running, TypeInv, RegistryTypeOK, ExecutionTypeOK
  <2> QED BY <2>1, <2>2, <2>4, <2>5, <2>6, <2>7, AddLatest
<1>4. ASSUME ChainStep PROVE LatestInv'
  <2>1. ASSUME NEW t \in Turn, StartDispatched(t) PROVE LatestInv'
    BY <2>1, BeginRunLatest DEF StartDispatched, Register
  <2>5. CASE ObserveDispatched
    <3>1. /\ Busy /\ Leave /\ step = "observe" /\ latest' = opTurn
          /\ UNCHANGED <<registered, current, pc>>
      BY <2>5 DEF ObserveDispatched, At, Observe, registryVars, executionVars, runVars
    <3>2. opTurn = current
      BY <3>1 DEF ObserveInv, ChainObserves, UnobservedInSlot
    <3> QED BY <3>1, <3>2, ObserveLatest
  <2>2. ASSUME ~\E t \in Turn : StartDispatched(t) PROVE Busy /\ UNCHANGED <<registered, current, pc>>
    BY <1>4, <2>2 DEF ChainStep, ObserveDispatched, CreateDispatched, FinalizedTurnSettled, DispatchFails, Enqueue,
       ResumeAfterEnqueue, CheckReorder, StoreReorder, CheckWithdraw, StoreWithdraw, SendNow,
       RecheckSendNow, PublishSendNow, ReadOutcome, PauseAfterInterruption, ContinueAfterCompletion,
       Starts, At, registryVars, executionVars, runVars
  <2>3. ASSUME ~ObserveDispatched, ~\E t \in Turn : StartDispatched(t)
        PROVE  \/ EndOp
               \/ \E i, p : Dispatch(i, p)
               \/ \E s \in Step \ {"interrupted"} : \E i, t : Await(s, i, t)
               \/ Op.do = "settle" /\ \E i, t : Await("interrupted", i, t)
    BY <1>4, <2>3 DEF ChainStep, CreateDispatched, FinalizedTurnSettled, DispatchFails, Enqueue,
       ResumeAfterEnqueue, CheckReorder, StoreReorder, CheckWithdraw, StoreWithdraw, SendNow,
       RecheckSendNow, PublishSendNow, ReadOutcome, Outcome, PauseAfterInterruption,
       ContinueAfterCompletion, Starts, Step
  <2>4. "interrupted" \in Step
    BY DEF Step
  <2> QED BY <1>c, <1>d, <2>1, <2>2, <2>3, <2>4, <2>5, EndOpLatest
<1>5. ASSUME NEW i \in Input, CallStep(i) PROVE LatestInv'
  <2>1. ASSUME NEW t \in Turn, StartDirect(i, t) PROVE LatestInv'
    BY <2>1, BeginRunLatest DEF StartDirect, Register
  <2>4. CASE ObserveDirect(i)
    <3>1. /\ request[i] = "observe" /\ latest' = target[i]
          /\ UNCHANGED <<registered, current, pc, tail, step>>
      BY <2>4 DEF ObserveDirect, Ask, Observe, registryVars, executionVars, runVars
    <3>2. target[i] = current
      BY <3>1 DEF ObserveInv, CallObserves, UnobservedInSlot
    <3> QED BY <3>1, <3>2, ObserveLatest
  <2>2. CASE RedirectToQueue(i)
    <3>1. InputOp("enqueue", i) \in Operation /\ InputOp("enqueue", i).do = "enqueue"
      BY EmptySeq DEF InputOp, Operation
    <3> QED BY <1>b, <2>2, <3>1 DEF RedirectToQueue, Add, registryVars, executionVars, runVars
  <2>3. CASE UNCHANGED <<registered, current, pc, latest, unobserved, tail, step>>
    BY <1>a, <2>3
  <2> QED BY <1>5, <2>1, <2>2, <2>3, <2>4 DEF CallStep, LookForActive, LookAtQueue, CreateDirect,
     DirectWaitOver, DirectFails, RecheckSteer, PublishSteer, registryVars, executionVars, runVars, queueVars
<1>6. ASSUME User PROVE LatestInv'
  <2>1. ASSUME NEW t \in Turn, StartReview(t) \/ StartShell(t) PROVE LatestInv'
    BY <2>1, BeginRunLatest DEF StartReview, StartShell, Register, Observe
  <2>2. ASSUME NEW i \in Input, QueueInput(i) \/ ClickSendNow(i) \/ ClickWithdraw(i) PROVE LatestInv'
    <3>1. \A do \in {"enqueue", "sendNow", "withdraw"} :
            InputOp(do, i) \in Operation /\ InputOp(do, i).do = do
      BY EmptySeq DEF InputOp, Operation
    <3>2. \E do \in {"enqueue", "sendNow", "withdraw"} : tail' = Append(tail, InputOp(do, i))
      BY <2>2 DEF QueueInput, ClickSendNow, ClickWithdraw, Click, Add
    <3>3. UNCHANGED <<registered, current, pc, latest, unobserved, step>>
      BY <2>2 DEF QueueInput, ClickSendNow, ClickWithdraw, Click, Add, registryVars, executionVars, runVars
    <3> QED BY <1>b, <3>1, <3>2, <3>3
  <2>3. CASE Drag
    <3>1. PICK order \in [1 .. Len(queue) -> Elems(queue)] : Click(ReorderOp(order))
      BY <2>3 DEF Drag
    <3>2. order \in Seq(Input)
      <4>1. Len(queue) \in Nat /\ Elems(queue) \subseteq Input
        BY LenProperties, ElemsSubset DEF TypeInv, ExecutionTypeOK
      <4> QED BY <4>1
    <3>3. ReorderOp(order) \in Operation /\ ReorderOp(order).do = "reorder"
      BY <3>2 DEF ReorderOp, Operation
    <3> QED BY <1>b, <3>1, <3>3 DEF Click, Add, registryVars, executionVars, runVars
  <2>4. CASE UNCHANGED <<registered, current, pc, latest, unobserved, tail, step>>
    BY <1>a, <2>4
  <2> QED BY <1>6, <2>1, <2>2, <2>3, <2>4 DEF User, StartTurn, StartUnattended, SteerTurn, CancelTurn,
     ForceCancel, AbortTask, registryVars, executionVars, runVars, queueVars
<1>7. ASSUME BeginDeletion \/ DeletionProgress \/ PrepareMigration \/ CancelMigration
             \/ \E t \in Turn : WriteForced(t)
      PROVE  LatestInv'
  BY <1>a, <1>7 DEF BeginDeletion, DeletionProgress, CancelSlot, SlotEmpty, CancellationsWritten,
     AdmissionsDrained, DeleteThread, DeletionFails, Deletion, PrepareMigration, CancelMigration,
     WriteForced, Refuse, Readmit, AbortTask, registryVars, executionVars, runVars, queueVars
<1>9. ASSUME NEW t \in Turn, ObserveReview(t) PROVE LatestInv'
  <2>1. /\ t \in unobserved /\ latest' = t
        /\ UNCHANGED <<registered, current, pc, tail, step>>
    BY <1>9 DEF ObserveReview, Observe, registryVars, executionVars, runVars
  <2>2. t = current
    BY <2>1 DEF ObserveInv, UnobservedInSlot
  <2> QED BY <2>1, <2>2, ObserveLatest
<1>8. ASSUME Restart PROVE LatestInv'
  <2>1. registered' = {} /\ current' = NoTurn /\ tail' = <<>> /\ step' = "idle"
    BY <1>8 DEF Restart
  <2>2. 1 .. Len(tail') = {}
    BY <2>1
  <2> QED BY <2>1, <2>2 DEF LatestInv
<1> QED BY <1>1, <1>2, <1>3, <1>4, <1>5, <1>6, <1>7, <1>8, <1>9 DEF Next

(* At first nothing is registered, observed or settling. *)
LEMMA InitObserved == Init => StepInv /\ DeletionInv /\ ObserveInv /\ LatestInv
<1> SUFFICES ASSUME Init PROVE StepInv /\ DeletionInv /\ ObserveInv /\ LatestInv
  OBVIOUS
<1>1. /\ registered = {} /\ aborted = {} /\ unobserved = {}
      /\ current = NoTurn /\ tail = <<>> /\ step = "idle" /\ deletion = "none"
      /\ request = [i \in Input |-> "none"]
  BY DEF Init, RegistryInit, QueueInit
<1>2. 1 .. Len(tail) = {}
  BY <1>1
<1> QED BY <1>1, <1>2 DEF StepInv, DeletionInv, ObserveInv, UnobservedInSlot, ChainObserves,
                         CallObserves, LatestInv

(* "The late settlement of an old run must not pause what a new run        *)
(* resumed": the settlement that pauses is of the latest observed run, so  *)
(* the slot is empty, or its turn was registered and is not observed yet:  *)
(* the hops in which the code has not superseded the old run.              *)
THEOREM OldSettlementsDoNotPause == Spec => LateSettlementDoesNotPause
<1> DEFINE Inv == TypeInv /\ StepInv /\ DeletionInv /\ ObserveInv /\ LatestInv
<1>1. Init => Inv
  BY InitTyped, InitObserved
<1>2. Inv /\ [Next]_vars => Inv'
  BY NextTyped, NextStepInv, NextDeletion, NextObserve, NextLatest
<1>3. Inv /\ [Next]_vars => [~paused /\ paused' => ActiveTurn \in {NoTurn} \cup unobserved]_vars
  <2> SUFFICES ASSUME Inv, Next, ~paused, paused' PROVE ActiveTurn \in {NoTurn} \cup unobserved
    OBVIOUS
  <2>1. PauseAfterInterruption
    BY DEF Next, User, RunnerStep, Proceed, ChainStep, CallStep, DeletionProgress,
       StartTurn, StartUnattended, QueueInput, Add, SteerTurn, ClickSendNow, ClickWithdraw, Drag,
       Click, CancelTurn, ForceCancel, StartReview, StartShell, Register, SettleRun, WriteForced, ObserveReview, StartDispatched, ObserveDispatched,
       CreateDispatched, FinalizedTurnSettled, DispatchFails, Enqueue, ResumeAfterEnqueue,
       CheckReorder, StoreReorder, CheckWithdraw, StoreWithdraw, SendNow, RecheckSendNow,
       PublishSendNow, ReadOutcome, ContinueAfterCompletion, LookForActive, LookAtQueue,
       RedirectToQueue, CreateDirect, DirectWaitOver, StartDirect, ObserveDirect, DirectFails, RecheckSteer,
       PublishSteer, BeginDeletion, CancelSlot, SlotEmpty, CancellationsWritten, AdmissionsDrained,
       DeleteThread, DeletionFails, Deletion, PrepareMigration, CancelMigration, Restart, queueVars
  <2>2. Busy /\ Op.do = "settle" /\ latest = Op.turn
    BY <2>1 DEF PauseAfterInterruption, At, LatestInv, Superseded
  <2>3. current = NoTurn \/ current \in unobserved
    BY <2>2, SettledHead DEF LatestInv
  <2> QED BY <2>3 DEF ActiveTurn
<1> QED BY <1>1, <1>2, <1>3, PTL DEF Spec, LateSettlementDoesNotPause

-----------------------------------------------------------------------------
(* The head of the queue that is not being sent.                           *)

(* A set of numbers has a least element. *)
LEMMA LeastElement ==
  ASSUME NEW S, S \subseteq Nat, S # {}
  PROVE  \E n \in S : \A m \in S : n <= m
<1> DEFINE R == OpToRel(<, Nat)
<1>1. IsWellFoundedOn(R, Nat)
  BY NatLessThanWellFounded, Zenon
<1> HIDE DEF R
<1>2. \E x \in S : \A y \in S : ~(<<y, x>> \in R)
  BY <1>1, WFMin, Zenon
<1>3. \A x, y \in Nat : y < x => <<y, x>> \in R
  BY DEF R, OpToRel
<1>4. PICK x \in S : \A y \in S : ~(<<y, x>> \in R)
  BY <1>2
<1>5. \A y \in S : ~(y < x)
  BY <1>3, <1>4
<1>6. \A y \in S : x <= y
  BY <1>5, SMT
<1> QED BY <1>6

(* The queued inputs nobody is sending. *)
Unmarked == Elems(queue) \ dispatching

(* The dispatchable head is found unless there is none. *)
LEMMA NextExists ==
  ASSUME TypeInv, \A i \in Input : ~IsNext(i)
  PROVE  Unmarked = {}
<1> SUFFICES ASSUME Unmarked # {} PROVE FALSE
  OBVIOUS
<1>a. queue \in Seq(Input) /\ Len(queue) \in Nat /\ \A k \in 1 .. Len(queue) : queue[k] \in Input
  BY LenProperties, ElementOfSeq DEF TypeInv, ExecutionTypeOK
<1> DEFINE S == {k \in 1 .. Len(queue) : queue[k] \notin dispatching}
<1>1. S \subseteq Nat /\ S # {}
  BY <1>a DEF Unmarked, Elems
<1>2. PICK k \in S : \A m \in S : k <= m
  BY <1>1, LeastElement, Zenon
<1>3. \A j \in 1 .. k - 1 : queue[j] \in dispatching
  BY <1>a, <1>2
<1>4. IsNext(queue[k])
  BY <1>2, <1>3 DEF IsNext
<1> QED BY <1>a, <1>2, <1>4

(* The dispatchable head is queued and nobody is sending it. *)
LEMMA NextIsUnmarked == ASSUME NEW i, IsNext(i) PROVE i \in Unmarked
BY DEF IsNext, Unmarked, Elems

-----------------------------------------------------------------------------
(* Who owes the next dispatch.                                             *)

(* The latest observed run has not settled, or its settlement is in the    *)
(* chain.                                                                  *)
LatestSettles ==
  latest # NoTurn =>
    \/ latest \in registered
    \/ \E k \in 1 .. Len(tail) : tail[k].do = "settle" /\ tail[k].turn = latest

(* A run is observed, or will be. *)
RunOwes == latest # NoTurn \/ unobserved # {}

(* While the thread is not paused, an input nobody is sending waits for    *)
(* such a run, or for the operation that is about to dispatch.             *)
SomeoneOwes ==
  Unmarked # {} /\ ~paused =>
    RunOwes \/ step \in {"resume", "create", "wait", "register"}

(* What is marked as being sent has reached the log. *)
MarkedIsRecorded == \A i \in dispatching : Recorded(i)

(* A queued input that is marked is being sent: by the operation at the    *)
(* head of the chain, or by a run that has not settled.                    *)
MarkedIsHeld ==
  \A i \in Elems(queue) \cap dispatching :
    \/ step \in {"create", "wait", "register"} /\ opInput = i
    \/ \E t \in Turn : Running(t) /\ source[t] = i

DispatchInv ==
  /\ closed = {}
  /\ LatestSettles
  /\ SomeoneOwes
  /\ MarkedIsRecorded
  /\ MarkedIsHeld

NothingRefuses == ~DispatchMayFail /\ ~Deletes /\ ~Migrates

(* What the other theorems know of the thread. *)
ThreadInv ==
  /\ OwnershipInv
  /\ RunInv
  /\ EndedInv
  /\ StepInv
  /\ DeletionInv
  /\ ObserveInv
  /\ LatestInv

(* An active turn is the latest observed run or will be, and the operation *)
(* that ends is not its settlement.                                        *)
LEMMA ActiveOwes ==
  ASSUME TypeInv, LatestInv, Busy, ActiveTurn # NoTurn
  PROVE  RunOwes /\ (EndOp => RunOwes')
<1>1. current # NoTurn /\ (latest = current \/ current \in unobserved)
  BY DEF ActiveTurn, LatestInv
<1>2. latest = current => ~(Op.do = "settle" /\ Op.turn = latest)
  BY SettledHead
<1> QED BY <1>1, <1>2 DEF EndOp, RunOwes

-----------------------------------------------------------------------------
(* The latest run settles.                                                 *)

LEMMA EndOpSettles ==
  ASSUME TypeInv, LatestSettles, Busy, EndOp, UNCHANGED registered
  PROVE  LatestSettles'
<1>1. /\ tail' = Tail(tail) /\ Len(Tail(tail)) = Len(tail) - 1 /\ Len(tail) \in Nat
      /\ \A k \in 1 .. Len(Tail(tail)) : Tail(tail)[k] = tail[k + 1]
      /\ Op = tail[1]
  BY HeadTailProperties, LenProperties DEF EndOp, Leave, TypeInv, ChainTypeOK, Busy, Op
<1> SUFFICES ASSUME latest' # NoTurn, latest' \notin registered
             PROVE  \E k \in 1 .. Len(tail') : tail'[k].do = "settle" /\ tail'[k].turn = latest'
  BY DEF LatestSettles
<1>2. latest' = latest /\ ~(Op.do = "settle" /\ Op.turn = latest)
  BY DEF EndOp
<1>3. PICK k \in 1 .. Len(tail) : tail[k].do = "settle" /\ tail[k].turn = latest
  BY <1>2 DEF LatestSettles
<1>4. k # 1
  BY <1>1, <1>2, <1>3
<1>5. k - 1 \in 1 .. Len(tail') /\ tail'[k - 1] = tail[k]
  BY <1>1, <1>4
<1> QED BY <1>2, <1>3, <1>5

(* An operation joins the chain; a run that leaves the registry joins it.  *)
LEMMA AddSettles ==
  ASSUME TypeInv, LatestSettles, NEW op \in Operation, tail' = Append(tail, op), UNCHANGED latest,
         \A t \in registered : t \in registered' \/ (op.do = "settle" /\ op.turn = t)
  PROVE  LatestSettles'
<1>1. /\ Len(tail') = Len(tail) + 1 /\ Len(tail) \in Nat
      /\ \A k \in 1 .. Len(tail) : tail'[k] = tail[k]
      /\ tail'[Len(tail) + 1] = op
  BY AppendProperties, LenProperties DEF TypeInv, ChainTypeOK
<1>2. Len(tail) + 1 \in 1 .. Len(tail') /\ \A k \in 1 .. Len(tail) : k \in 1 .. Len(tail')
  BY <1>1
<1> SUFFICES ASSUME latest # NoTurn, latest \notin registered'
             PROVE  \E k \in 1 .. Len(tail') : tail'[k].do = "settle" /\ tail'[k].turn = latest
  BY DEF LatestSettles
<1>3. CASE latest \in registered
  BY <1>1, <1>2, <1>3
<1>4. CASE latest \notin registered
  BY <1>1, <1>2, <1>4 DEF LatestSettles
<1> QED BY <1>3, <1>4

(* The operations a client adds. *)
LEMMA ClientOperations ==
  /\ \A i \in Input, do \in {"enqueue", "sendNow", "withdraw"} : InputOp(do, i) \in Operation
  /\ TypeInv => \A order \in [1 .. Len(queue) -> Elems(queue)] : ReorderOp(order) \in Operation
<1>1. \A i \in Input, do \in {"enqueue", "sendNow", "withdraw"} : InputOp(do, i) \in Operation
  BY OperationsTyped
<1>2. ASSUME TypeInv, NEW order \in [1 .. Len(queue) -> Elems(queue)]
      PROVE  ReorderOp(order) \in Operation
  <2>1. Len(queue) \in Nat /\ Elems(queue) \subseteq Input
    BY <1>2, LenProperties, ElemsSubset DEF TypeInv, ExecutionTypeOK
  <2>2. order \in Seq(Input)
    BY <2>1
  <2> QED BY <2>2, OperationsTyped
<1> QED BY <1>1, <1>2

(* What a step outside the chain does to the operations. *)
LEMMA OutsideChain ==
  ASSUME TypeInv, Next, ~ChainStep, ~Restart
  PROVE  /\ UNCHANGED <<step, opInput, opTurn, paused>>
         /\ \/ \E t \in Turn : SettleRun(t)
            \/ /\ UNCHANGED dispatching
               /\ UNCHANGED tail \/ \E op \in Operation : tail' = Append(tail, op)
<1>1. CASE \E t \in Turn : SettleRun(t)
  BY <1>1 DEF SettleRun
<1>2. CASE \E t \in Turn : RunnerStep(t)
  BY <1>2 DEF RunnerStep, Proceed, FailTurn, queueVars
<1>3. ASSUME NEW i \in Input, CallStep(i) PROVE UNCHANGED <<step, opInput, opTurn, paused, dispatching>>
  BY <1>3 DEF CallStep, LookForActive, LookAtQueue, RedirectToQueue, Add, CreateDirect,
     DirectWaitOver, StartDirect, ObserveDirect, DirectFails, RecheckSteer, PublishSteer, queueVars
<1>4. ASSUME NEW i \in Input, CallStep(i)
      PROVE  UNCHANGED tail \/ \E op \in Operation : tail' = Append(tail, op)
  <2>1. CASE RedirectToQueue(i)
    BY <2>1, ClientOperations DEF RedirectToQueue, Add
  <2> QED BY <1>4, <2>1 DEF CallStep, LookForActive, LookAtQueue, CreateDirect, StartDirect,
     ObserveDirect, DirectWaitOver, DirectFails, RecheckSteer, PublishSteer, queueVars
<1>5. ASSUME User PROVE UNCHANGED <<step, opInput, opTurn, paused, dispatching>>
  BY <1>5 DEF User, StartTurn, StartUnattended, QueueInput, Add, SteerTurn, ClickSendNow,
     ClickWithdraw, Drag, Click, CancelTurn, ForceCancel, StartReview, StartShell, queueVars
<1>6. ASSUME User
      PROVE  UNCHANGED tail \/ \E op \in Operation : tail' = Append(tail, op)
  <2>1. ASSUME NEW i \in Input, QueueInput(i) \/ ClickSendNow(i) \/ ClickWithdraw(i)
        PROVE  \E op \in Operation : tail' = Append(tail, op)
    BY <2>1, ClientOperations DEF QueueInput, ClickSendNow, ClickWithdraw, Click, Add
  <2>2. CASE Drag
    BY <2>2, ClientOperations DEF Drag, Click, Add
  <2> QED BY <1>6, <2>1, <2>2 DEF User, StartTurn, StartUnattended, SteerTurn, CancelTurn,
     ForceCancel, StartReview, StartShell, queueVars
<1>7. CASE BeginDeletion \/ DeletionProgress \/ PrepareMigration \/ CancelMigration
           \/ \E t \in Turn : WriteForced(t) \/ ObserveReview(t)
  BY <1>7 DEF BeginDeletion, DeletionProgress, CancelSlot, SlotEmpty, CancellationsWritten,
     AdmissionsDrained, DeleteThread, DeletionFails, Deletion, PrepareMigration, CancelMigration,
     WriteForced, ObserveReview, queueVars
<1> QED BY <1>1, <1>2, <1>3, <1>4, <1>5, <1>6, <1>7 DEF Next

(* What it does to the runs: none leaves the registry, and the latest one  *)
(* gives way only to one that is registered.                               *)
RunsStay ==
  /\ registered \subseteq registered'
  /\ \/ UNCHANGED latest /\ unobserved \subseteq unobserved'
     \/ latest' \in registered' /\ latest' # NoTurn

LEMMA ObservedIsRegistered ==
  ASSUME TypeInv, LatestInv, ObserveInv, NEW t \in unobserved, latest' = t, UNCHANGED registered
  PROVE  RunsStay
<1>1. t \in Turn /\ t = current
  BY DEF ObserveInv, UnobservedInSlot, TypeInv, ChainTypeOK
<1>2. t # NoTurn
  BY <1>1, NoTurnAssumption
<1> QED BY <1>1, <1>2 DEF LatestInv, RunsStay

LEMMA OutsideRuns ==
  ASSUME TypeInv, LatestInv, ObserveInv, Next, ~ChainStep, ~Restart, ~\E t \in Turn : SettleRun(t)
  PROVE  RunsStay
<1>a. UNCHANGED <<registered, latest, unobserved>> => RunsStay
  BY DEF RunsStay
<1>b. \A t, k, i : Register(t, k, i) /\ UNCHANGED latest => RunsStay
  BY DEF Register, BeginRun, StartTask, RunsStay
<1>1. CASE \E t \in Turn : RunnerStep(t)
  BY <1>a, <1>1 DEF RunnerStep, Proceed, WriteStarted, ShellUnavailable, PublishInput, DrainSteers,
     CloseTurn, FinalDrain, CompleteTurn, StopByHook, CompleteStopped, CompleteShell, FailTurn,
     WriteError, NoticeAbort, LeaveAborted, CheckTerminal, WriteCancelled, StopAcceptingSteers,
     registryVars, queueVars
<1>2. ASSUME NEW i \in Input, CallStep(i) PROVE RunsStay
  <2>1. ASSUME NEW t \in Turn, StartDirect(i, t) PROVE RunsStay
    BY <1>b, <2>1 DEF StartDirect
  <2>2. CASE ObserveDirect(i)
    <3>1. target[i] \in unobserved
      BY <2>2 DEF ObserveDirect, Ask, ObserveInv, CallObserves
    <3> QED BY <2>2, <3>1, ObservedIsRegistered DEF ObserveDirect, Observe, registryVars
  <2> QED BY <1>a, <1>2, <2>1, <2>2 DEF CallStep, LookForActive, LookAtQueue, RedirectToQueue, Add,
     CreateDirect, DirectWaitOver, DirectFails, RecheckSteer, PublishSteer, registryVars, queueVars
<1>3. CASE User
  <2>1. ASSUME NEW t \in Turn, StartReview(t) PROVE RunsStay
    BY <1>b, <2>1 DEF StartReview
  <2>2. ASSUME NEW t \in Turn, StartShell(t) PROVE RunsStay
    <3>1. registered' = registered \cup {t} /\ latest' = t /\ t # NoTurn
      BY <2>2, NoTurnAssumption DEF StartShell, BeginRun, StartTask, Observe
    <3> QED BY <3>1 DEF RunsStay
  <2> QED BY <1>a, <1>3, <2>1, <2>2 DEF User, StartTurn, StartUnattended, QueueInput, SteerTurn,
     ClickSendNow, ClickWithdraw, Drag, Click, Add, CancelTurn, ForceCancel, AbortTask, registryVars,
     queueVars
<1>4. ASSUME NEW t \in Turn, ObserveReview(t) PROVE RunsStay
  BY <1>4, ObservedIsRegistered DEF ObserveReview, Observe, registryVars
<1>5. CASE BeginDeletion \/ DeletionProgress \/ PrepareMigration \/ CancelMigration
           \/ \E t \in Turn : WriteForced(t)
  BY <1>a, <1>5 DEF BeginDeletion, DeletionProgress, CancelSlot, SlotEmpty, CancellationsWritten,
     AdmissionsDrained, DeleteThread, DeletionFails, Deletion, PrepareMigration, CancelMigration,
     WriteForced, Refuse, Readmit, AbortTask, registryVars, queueVars
<1> QED BY <1>1, <1>2, <1>3, <1>4, <1>5 DEF Next

(* How the head of the chain moves on. *)
LEMMA ChainEndsOrAwaits ==
  ASSUME ChainStep, ~ObserveDispatched, ~\E t \in Turn : StartDispatched(t)
  PROVE  /\ Busy
         /\ UNCHANGED registered
         /\ EndOp \/ (UNCHANGED <<tail, latest>> /\ step' # "idle")
<1> USE DEF Dispatch, Await
<1>1. Busy /\ UNCHANGED registered
  BY DEF ChainStep, CreateDispatched, FinalizedTurnSettled, DispatchFails, Enqueue,
     ResumeAfterEnqueue, CheckReorder, StoreReorder, CheckWithdraw, StoreWithdraw, SendNow,
     RecheckSendNow, PublishSendNow, ReadOutcome, PauseAfterInterruption, ContinueAfterCompletion,
     Starts, At, registryVars
<1>2. EndOp \/ (UNCHANGED <<tail, latest>> /\ step' # "idle")
  BY DEF ChainStep, CreateDispatched, FinalizedTurnSettled, DispatchFails, Enqueue,
     ResumeAfterEnqueue, CheckReorder, StoreReorder, CheckWithdraw, StoreWithdraw, SendNow,
     RecheckSendNow, PublishSendNow, ReadOutcome, Outcome, PauseAfterInterruption,
     ContinueAfterCompletion
<1> QED BY <1>1, <1>2

LEMMA NextLatestSettles ==
  ASSUME TypeInv, LatestInv, ObserveInv, LatestSettles, Next, ~Restart
  PROVE  LatestSettles'
<1>1. ASSUME NEW t \in Turn, SettleRun(t) PROVE LatestSettles'
  <2>1. registered' = registered \ {t} /\ tail' = Append(tail, SettleOp(t)) /\ UNCHANGED latest
    BY <1>1 DEF SettleRun, EndRun, FinishTask
  <2>2. SettleOp(t) \in Operation /\ SettleOp(t).do = "settle" /\ SettleOp(t).turn = t
    BY EmptySeq DEF SettleOp, Operation
  <2> QED BY <2>1, <2>2, AddSettles
<1>2. ASSUME NEW t \in Turn, StartDispatched(t) PROVE LatestSettles'
  BY <1>2 DEF StartDispatched, Register, BeginRun, StartTask, LatestSettles
<1>3. CASE ObserveDispatched
  <2>1. opTurn \in unobserved /\ latest' = opTurn /\ UNCHANGED registered
    BY <1>3 DEF ObserveDispatched, At, Observe, ObserveInv, ChainObserves, registryVars
  <2>2. RunsStay
    BY <2>1, ObservedIsRegistered
  <2> QED BY <2>1, <2>2 DEF RunsStay, LatestSettles, LatestInv, ObserveInv, UnobservedInSlot
<1>4. CASE ChainStep /\ ~ObserveDispatched /\ ~\E t \in Turn : StartDispatched(t)
  BY <1>4, ChainEndsOrAwaits, EndOpSettles DEF LatestSettles
<1>5. CASE ~ChainStep /\ ~\E t \in Turn : SettleRun(t)
  <2>a. RunsStay
    BY <1>5, OutsideRuns
  <2>1. CASE latest' \in registered'
    BY <2>1 DEF LatestSettles
  <2>2. CASE UNCHANGED <<latest, tail>>
    BY <2>a, <2>2 DEF LatestSettles, RunsStay
  <2>3. CASE UNCHANGED latest /\ \E op \in Operation : tail' = Append(tail, op)
    BY <2>a, <2>3, AddSettles DEF RunsStay
  <2> QED BY <1>5, <2>a, <2>1, <2>2, <2>3, OutsideChain DEF RunsStay
<1> QED BY <1>1, <1>2, <1>3, <1>4, <1>5

-----------------------------------------------------------------------------
(* The queue and the marks.                                                *)

(* An input that joins the queue is new to the log. *)
LEMMA JoinersAreNew ==
  ASSUME OwnershipInv, Next
  PROVE  \A i \in Elems(queue)' \ Elems(queue) : ~Recorded(i)
<1>1. LedgerStep
  BY NextIsLedgerStep
<1>2. CASE UNCHANGED Ledger!ledgerVars
  BY <1>2 DEF Ledger!ledgerVars
<1>3. ASSUME NEW j \in Input, Ledger!Wait(j) PROVE \A i \in Elems(queue)' \ Elems(queue) : ~Recorded(i)
  BY <1>3 DEF Ledger!Wait, Ledger!New, Recorded
<1>4. ASSUME NEW j \in Input, Ledger!TakeBack(j) \/ \E t \in Turn : Ledger!Send(j, t)
      PROVE  Elems(queue)' \subseteq Elems(queue)
  BY <1>4 DEF Ledger!TakeBack, Ledger!Send
<1> QED BY <1>1, <1>2, <1>3, <1>4 DEF LedgerStep, Ledger!LedgerNext

(* Only the enqueue of the chain adds to the queue. *)
LEMMA OnlyEnqueueAdds ==
  ASSUME OwnershipInv, Next, ~(ChainStep /\ Enqueue)
  PROVE  Elems(queue)' \subseteq Elems(queue)
<1>a. \A i : queue' = Without(queue, i) => Elems(queue)' \subseteq Elems(queue)
  BY WithoutElems DEF OwnershipInv, OneHolder, HeldByQueue, TypeInv, ExecutionTypeOK
<1>b. \A i, t : StoreMessage(i, t) => Elems(queue)' \subseteq Elems(queue)
  BY <1>a DEF StoreMessage
<1>1. ASSUME ChainStep PROVE Elems(queue)' \subseteq Elems(queue)
  <2>1. CASE StoreReorder
    BY <2>1 DEF StoreReorder, Sorted
  <2>2. CASE StoreWithdraw \/ PublishSendNow
    BY <1>a, <1>b, <2>2 DEF StoreWithdraw, PublishSendNow, AcceptSteer
  <2>3. CASE UNCHANGED queue
    BY <2>3
  <2> QED BY <1>1, <2>1, <2>2, <2>3 DEF ChainStep, StartDispatched, Register, ObserveDispatched, BeginRun, CreateDispatched,
     FinalizedTurnSettled, DispatchFails, ResumeAfterEnqueue, CheckReorder, CheckWithdraw, SendNow,
     RecheckSendNow, ReadOutcome, PauseAfterInterruption, ContinueAfterCompletion, executionVars,
     threadVars
<1>2. ASSUME NEW t \in Turn, RunnerStep(t) PROVE Elems(queue)' \subseteq Elems(queue)
  <2>1. CASE PublishInput(t)
    BY <1>b, <2>1 DEF PublishInput, threadVars
  <2>2. CASE UNCHANGED queue
    BY <2>2
  <2> QED BY <1>2, <2>1, <2>2 DEF RunnerStep, Proceed, WriteStarted, ShellUnavailable, DrainSteers,
     CloseTurn, FinalDrain, CompleteTurn, StopByHook, CompleteStopped, CompleteShell, FailTurn,
     WriteError, NoticeAbort, LeaveAborted, CheckTerminal, WriteCancelled, StoreTerminal, threadVars
<1>3. ASSUME NEW i \in Input, CallStep(i) PROVE Elems(queue)' \subseteq Elems(queue)
  <2>1. CASE PublishSteer(i)
    BY <1>b, <2>1 DEF PublishSteer, AcceptSteer
  <2>2. CASE UNCHANGED queue
    BY <2>2
  <2> QED BY <1>3, <2>1, <2>2 DEF CallStep, LookForActive, LookAtQueue, RedirectToQueue, CreateDirect,
     DirectWaitOver, StartDirect, Register, ObserveDirect, BeginRun, DirectFails, RecheckSteer, executionVars, threadVars
<1>4. ASSUME User PROVE UNCHANGED queue
  BY <1>4 DEF User, StartTurn, StartUnattended, QueueInput, SteerTurn, ClickSendNow, ClickWithdraw,
     Drag, Click, CancelTurn, ForceCancel, StartReview, StartShell, Register, BeginRun, executionVars, threadVars
<1>5. ASSUME BeginDeletion \/ DeletionProgress \/ PrepareMigration \/ CancelMigration \/ Restart
             \/ \E t \in Turn : WriteForced(t) \/ SettleRun(t) \/ ObserveReview(t)
      PROVE  UNCHANGED queue
  BY <1>5 DEF BeginDeletion, DeletionProgress, CancelSlot, SlotEmpty, CancellationsWritten,
     AdmissionsDrained, DeleteThread, DeletionFails, PrepareMigration, CancelMigration, Restart,
     WriteForced, StoreTerminal, SettleRun, EndRun, ObserveReview, executionVars, threadVars
<1> QED BY <1>1, <1>2, <1>3, <1>4, <1>5 DEF Next

(* Only a dispatch marks an input: a queued one that it takes to "create". *)
Marks(i) ==
  /\ i \in Unmarked
  /\ dispatching' = dispatching \cup {i}
  /\ step \notin {"create", "wait", "register"}
  /\ step' = "create" /\ opInput' = i
  /\ UNCHANGED <<tail, latest>>

LEMMA DispatchMarks ==
  ASSUME NEW i \in Unmarked, NEW p, Dispatch(i, p), step \notin {"create", "wait", "register"}
  PROVE  \/ Marks(i)
         \/ UNCHANGED dispatching /\ EndOp
BY DEF Dispatch, Await, Marks

(* What the chain does to the marks. *)
LEMMA ChainMarks ==
  ASSUME OwnershipInv, ChainStep
  PROVE  \/ \E i \in Input : Marks(i)
         \/ DispatchFails
         \/ CreateDispatched
         \/ FinalizedTurnSettled
         \/ \E t \in Turn : StartDispatched(t)
         \/ UNCHANGED dispatching /\ step \notin {"create", "wait", "register"}
<1>7. CASE ObserveDispatched
  BY <1>7 DEF ObserveDispatched, At
<1>1. Unmarked \subseteq Input
  BY ElemsSubset DEF Unmarked, OwnershipInv, TypeInv, ExecutionTypeOK
<1>2. CASE ResumeAfterEnqueue
  BY <1>1, <1>2, NextIsUnmarked, DispatchMarks DEF ResumeAfterEnqueue, At
<1>3. CASE ContinueAfterCompletion
  BY <1>1, <1>3, NextIsUnmarked, DispatchMarks DEF ContinueAfterCompletion, At
<1>4. CASE SendNow
  <2>1. step = "idle"
    BY <1>4 DEF SendNow, Starts
  <2>2. CASE Dispatch(Op.input, FALSE) /\ Selectable(Op.input)
    BY <1>1, <2>1, <2>2, DispatchMarks DEF Selectable, Unmarked
  <2> QED BY <1>4, <2>1, <2>2 DEF SendNow
<1>5. CASE RecheckSendNow
  <2>1. step = "steer" /\ opInput \in Unmarked
    BY <1>5 DEF RecheckSendNow, At, OwnershipInv, OneHolder, HeldByOperation, Unmarked
  <2> QED BY <1>1, <1>5, <2>1, DispatchMarks DEF RecheckSendNow
<1>6. CASE Enqueue \/ CheckReorder \/ StoreReorder \/ CheckWithdraw \/ StoreWithdraw
           \/ PublishSendNow \/ ReadOutcome \/ PauseAfterInterruption
  BY <1>6 DEF Enqueue, CheckReorder, StoreReorder, CheckWithdraw, StoreWithdraw,
     PublishSendNow, ReadOutcome, PauseAfterInterruption, Starts, At
<1> QED BY <1>2, <1>3, <1>4, <1>5, <1>6, <1>7 DEF ChainStep

LEMMA NextMarkedIsRecorded ==
  ASSUME OwnershipInv, MarkedIsRecorded, Next, ~Restart
  PROVE  MarkedIsRecorded'
<1>1. \A i \in Input : Recorded(i) => Recorded(i)'
  BY RecordedStays
<1>2. dispatching \subseteq Input
  BY DEF OwnershipInv, TypeInv, QueueMemoryTypeOK
<1>3. ASSUME NEW i \in dispatching', i \notin dispatching PROVE i \in Input /\ Recorded(i)
  <2>1. ChainStep
    BY <1>3, OutsideChain DEF OwnershipInv, SettleRun
  <2>2. Marks(i)
    BY <1>3, <2>1, ChainMarks DEF Marks, DispatchFails, CreateDispatched, FinalizedTurnSettled,
       StartDispatched, Register, ObserveDispatched
  <2> QED BY <2>2, ElemsSubset DEF Marks, Unmarked, Recorded, OwnershipInv, TypeInv, ExecutionTypeOK
<1>4. ASSUME NEW i \in dispatching' PROVE Recorded(i)'
  BY <1>1, <1>2, <1>3 DEF MarkedIsRecorded
<1> QED BY <1>4 DEF MarkedIsRecorded

(* A run that goes on or settles keeps its input. *)
LEMMA RunsKeepInputs ==
  ASSUME TypeInv, Next, ~Restart, NEW t \in Turn, Running(t)
  PROVE  source'[t] = source[t] /\ (Running(t)' \/ SettleRun(t))
<1>a. ASSUME NEW u \in Turn, NEW k, NEW j, BeginRun(u, k, j)
      PROVE  source'[t] = source[t] /\ Running(t)'
  <2>1. u # t
    BY <1>a DEF BeginRun, Running
  <2> QED BY <1>a, <2>1 DEF BeginRun, Running, TypeInv, ExecutionTypeOK
<1>b. UNCHANGED <<pc, source>> => source'[t] = source[t] /\ Running(t)'
  BY DEF Running
<1>1. ASSUME NEW u \in Turn, RunnerStep(u) PROVE source'[t] = source[t] /\ Running(t)'
  <2>1. UNCHANGED source
    BY <1>1 DEF RunnerStep, Proceed, WriteStarted, ShellUnavailable, PublishInput, DrainSteers,
       CloseTurn, FinalDrain, CompleteTurn, StopByHook, CompleteStopped, CompleteShell, FailTurn,
       WriteError, NoticeAbort, LeaveAborted, CheckTerminal, WriteCancelled
  <2>2. pc' = pc \/ \E to \in PC \ {"none", "done"} : pc' = [pc EXCEPT ![u] = to]
    BY <1>1 DEF RunnerStep, Proceed, WriteStarted, ShellUnavailable, PublishInput, DrainSteers,
       CloseTurn, FinalDrain, CompleteTurn, StopByHook, CompleteStopped, CompleteShell, FailTurn,
       WriteError, NoticeAbort, LeaveAborted, CheckTerminal, WriteCancelled, Goto, PC
  <2> QED BY <2>1, <2>2 DEF Running, TypeInv, ExecutionTypeOK
<1>2. ASSUME NEW u \in Turn, SettleRun(u)
      PROVE  source'[t] = source[t] /\ (Running(t)' \/ SettleRun(t))
  BY <1>2 DEF SettleRun, EndRun, Goto, Running, TypeInv, ExecutionTypeOK
<1>3. ASSUME ChainStep PROVE source'[t] = source[t] /\ Running(t)'
  <2>1. (\E u \in Turn : BeginRun(u, "regular", opInput)) \/ UNCHANGED <<pc, source>>
    BY <1>3 DEF ChainStep, StartDispatched, Register, ObserveDispatched, CreateDispatched, FinalizedTurnSettled, DispatchFails,
       Enqueue, ResumeAfterEnqueue, CheckReorder, StoreReorder, CheckWithdraw, StoreWithdraw, SendNow,
       RecheckSendNow, PublishSendNow, ReadOutcome, PauseAfterInterruption, ContinueAfterCompletion,
       executionVars, runVars
  <2> QED BY <1>a, <1>b, <2>1
<1>4. ASSUME NEW j \in Input, CallStep(j) PROVE source'[t] = source[t] /\ Running(t)'
  <2>1. (\E u \in Turn : BeginRun(u, "regular", j)) \/ UNCHANGED <<pc, source>>
    BY <1>4 DEF CallStep, LookForActive, LookAtQueue, RedirectToQueue, CreateDirect, DirectWaitOver,
       StartDirect, Register, ObserveDirect, DirectFails, RecheckSteer, PublishSteer, executionVars, runVars
  <2> QED BY <1>a, <1>b, <2>1
<1>5. ASSUME User PROVE source'[t] = source[t] /\ Running(t)'
  <2>1. (\E u \in Turn, k \in {"review", "user_shell"} : BeginRun(u, k, NoInput)) \/ UNCHANGED <<pc, source>>
    BY <1>5 DEF User, StartTurn, StartUnattended, QueueInput, SteerTurn, ClickSendNow, ClickWithdraw,
       Drag, Click, CancelTurn, ForceCancel, StartReview, StartShell, Register, executionVars, runVars
  <2> QED BY <1>a, <1>b, <2>1
<1>6. ASSUME BeginDeletion \/ DeletionProgress \/ PrepareMigration \/ CancelMigration
             \/ \E u \in Turn : WriteForced(u) \/ ObserveReview(u)
      PROVE  UNCHANGED <<pc, source>>
  BY <1>6 DEF BeginDeletion, DeletionProgress, CancelSlot, SlotEmpty, CancellationsWritten,
     AdmissionsDrained, DeleteThread, DeletionFails, PrepareMigration, CancelMigration, WriteForced,
     ObserveReview, executionVars, runVars
<1> QED BY <1>b, <1>1, <1>2, <1>3, <1>4, <1>5, <1>6 DEF Next

LEMMA NextMarkedIsHeld ==
  ASSUME OwnershipInv, MarkedIsRecorded, MarkedIsHeld, Next, ~Restart
  PROVE  MarkedIsHeld'
<1>a. TypeInv
  BY DEF OwnershipInv
<1> SUFFICES ASSUME NEW i \in Elems(queue)' \cap dispatching'
             PROVE  \/ step' \in {"create", "wait", "register"} /\ opInput' = i
                    \/ \E t \in Turn : Running(t)' /\ source'[t] = i
  BY DEF MarkedIsHeld
<1>1. CASE i \notin dispatching
  <2>1. ChainStep
    BY <1>a, <1>1, OutsideChain DEF SettleRun
  <2>2. Marks(i)
    BY <1>1, <2>1, ChainMarks DEF Marks, DispatchFails, CreateDispatched, FinalizedTurnSettled,
       StartDispatched, Register, ObserveDispatched
  <2> QED BY <2>2 DEF Marks
<1>2. CASE i \in dispatching
  <2>1. i \in Elems(queue) \cap dispatching
    BY <1>2, JoinersAreNew DEF MarkedIsRecorded
  <2>2. ASSUME NEW t \in Turn, Running(t), source[t] = i
        PROVE  Running(t)' /\ source'[t] = i
    BY <1>a, <2>2, RunsKeepInputs DEF SettleRun
  <2>3. ASSUME step \in {"create", "wait", "register"}, opInput = i
        PROVE  \/ step' \in {"create", "wait", "register"} /\ opInput' = i
               \/ \E t \in Turn : Running(t)' /\ source'[t] = i
    <3>1. CASE ~ChainStep
      BY <1>a, <2>3, <3>1, OutsideChain
    <3>2. ASSUME NEW t \in Turn, StartDispatched(t) PROVE Running(t)' /\ source'[t] = i
      BY <1>a, <2>3, <3>2 DEF StartDispatched, Register, ObserveDispatched, BeginRun, Running, TypeInv, ExecutionTypeOK
    <3>3. CASE DispatchFails
      BY <2>3, <3>3 DEF DispatchFails
    <3>4. CASE CreateDispatched \/ FinalizedTurnSettled
      BY <2>3, <3>4 DEF CreateDispatched, FinalizedTurnSettled, Await
    <3> QED BY <2>3, <3>1, <3>2, <3>3, <3>4, ChainMarks DEF Marks
  <2> QED BY <2>1, <2>2, <2>3 DEF MarkedIsHeld
<1> QED BY <1>1, <1>2

-----------------------------------------------------------------------------
(* Somebody owes.                                                          *)

(* A step that frees no input of the queue and forgets no run. *)
LEMMA StillOwes ==
  ASSUME SomeoneOwes, Unmarked' \subseteq Unmarked, UNCHANGED <<latest, unobserved, paused>>,
         step \in {"resume", "create", "wait", "register"} =>
           step' \in {"resume", "create", "wait", "register"}
  PROVE  SomeoneOwes'
BY DEF SomeoneOwes, RunOwes

(* A dispatch starts, or it finds an active turn; nothing else is possible *)
(* where the thread accepts work.                                          *)
LEMMA DispatchOwes ==
  ASSUME TypeInv, LatestInv, closed = {}, Busy, NEW i, NEW p, p => paused', Dispatch(i, p)
  PROVE  SomeoneOwes'
<1>1. CASE p
  BY <1>1 DEF SomeoneOwes
<1>2. CASE ~p /\ ActiveTurn # NoTurn
  <2>1. RunOwes'
    BY <1>2, ActiveOwes DEF Dispatch, HoldsBack
  <2> QED BY <2>1 DEF SomeoneOwes
<1>3. CASE ~p /\ ActiveTurn = NoTurn
  <2>1. step' = "create"
    BY <1>3 DEF Dispatch, HoldsBack, AcceptingWork, Await
  <2> QED BY <2>1 DEF SomeoneOwes
<1> QED BY <1>1, <1>2, <1>3

LEMMA ChainOwes ==
  ASSUME NothingRefuses, ThreadInv, closed = {}, SomeoneOwes, ChainStep, Next
  PROVE  SomeoneOwes'
<1>a. TypeInv /\ LatestInv /\ OwnershipInv /\ StepInv /\ ~DispatchMayFail
  BY DEF ThreadInv, OwnershipInv, NothingRefuses
<1>e. ObserveInv
  BY DEF ThreadInv
<1>b. ~Enqueue => Elems(queue)' \subseteq Elems(queue)
  BY <1>a, OnlyEnqueueAdds
<1>c. ~Enqueue /\ UNCHANGED dispatching => Unmarked' \subseteq Unmarked
  BY <1>b DEF Unmarked
<1>d. Busy /\ Op.do # "settle" /\ EndOp => UNCHANGED <<latest, unobserved>>
  BY DEF EndOp
<1>1. ASSUME NEW t \in Turn, StartDispatched(t) PROVE SomeoneOwes'
  <2>1. t \in unobserved'
    BY <1>1 DEF StartDispatched, Register
  <2> QED BY <2>1 DEF SomeoneOwes, RunOwes
<1>13. CASE ObserveDispatched
  <2>1. latest' = opTurn /\ opTurn \in Turn
    BY <1>a, <1>e, <1>13 DEF ObserveDispatched, At, Observe, ObserveInv, ChainObserves, TypeInv,
       ChainTypeOK
  <2> QED BY <2>1, NoTurnAssumption DEF SomeoneOwes, RunOwes
<1>2. CASE DispatchFails
  <2>1. Busy /\ EndOp /\ ActiveTurn # NoTurn
    BY <1>a, <1>2 DEF DispatchFails, At, CanStart
  <2>2. RunOwes'
    BY <1>a, <2>1, ActiveOwes
  <2> QED BY <2>2 DEF SomeoneOwes
<1>3. CASE CreateDispatched \/ FinalizedTurnSettled
  <2>1. step' \in {"wait", "register"}
    BY <1>3 DEF CreateDispatched, FinalizedTurnSettled, Await
  <2> QED BY <2>1 DEF SomeoneOwes
<1>4. CASE Enqueue
  <2>1. CASE QueueFull
    <3>1. UNCHANGED <<queue, dispatching, paused>> /\ Busy /\ step = "idle"
          /\ Op.do = "enqueue" /\ EndOp
      BY <1>4, <2>1 DEF Enqueue, Starts
    <3> QED BY <1>d, <3>1, StillOwes DEF Unmarked
  <2>2. CASE ~QueueFull
    BY <1>4, <2>2 DEF Enqueue, Await, SomeoneOwes
  <2> QED BY <2>1, <2>2
<1>5. CASE ResumeAfterEnqueue
  <2>1. At("resume") /\ Busy /\ Op.do # "settle" /\ ~paused'
    BY <1>a, <1>5 DEF ResumeAfterEnqueue, At, StepInv
  <2>2. CASE \E i \in Input : Dispatch(i, FALSE)
    BY <1>a, <2>1, <2>2, DispatchOwes
  <2>3. CASE (\A i \in Input : ~IsNext(i)) /\ UNCHANGED <<dispatching, queue>>
    <3>1. Unmarked' = {}
      BY <1>a, <2>3, NextExists DEF Unmarked
    <3> QED BY <3>1 DEF SomeoneOwes
  <2> QED BY <1>5, <2>2, <2>3 DEF ResumeAfterEnqueue, executionVars, threadVars
<1>6. CASE CheckReorder \/ CheckWithdraw
  <2>1. /\ ~Enqueue /\ UNCHANGED <<dispatching, paused>>
        /\ Busy /\ step = "idle" /\ Op.do # "settle"
        /\ EndOp \/ UNCHANGED <<latest, unobserved>>
    BY <1>6 DEF CheckReorder, CheckWithdraw, Starts, Await, Enqueue
  <2> QED BY <1>c, <1>d, <2>1, StillOwes
<1>7. CASE StoreReorder \/ StoreWithdraw \/ PublishSendNow
  <2>1. /\ ~Enqueue /\ UNCHANGED <<dispatching, paused>>
        /\ Busy /\ step \in {"reorder", "withdraw", "publish"} /\ EndOp
    BY <1>7 DEF StoreReorder, StoreWithdraw, PublishSendNow, At, Enqueue, Starts
  <2>2. UNCHANGED <<latest, unobserved>>
    BY <1>a, <1>d, <2>1 DEF StepInv
  <2> QED BY <1>c, <2>1, <2>2, StillOwes
<1>8. CASE SendNow
  <2>1. ~Enqueue /\ Busy /\ step = "idle" /\ Op.do # "settle"
    BY <1>8 DEF SendNow, Starts, Enqueue
  <2>2. CASE EndOp /\ UNCHANGED <<paused, dispatching>>
    BY <1>c, <1>d, <2>1, <2>2, StillOwes
  <2>3. CASE ActiveTurn # NoTurn /\ Await("steer", Op.input, ActiveTurn)
    <3>1. RunOwes /\ UNCHANGED <<latest, unobserved>>
      BY <1>a, <2>1, <2>3, ActiveOwes DEF Await
    <3> QED BY <3>1 DEF SomeoneOwes, RunOwes
  <2>4. CASE Dispatch(Op.input, FALSE)
    BY <1>a, <2>1, <2>4, DispatchOwes
  <2> QED BY <1>8, <2>2, <2>3, <2>4 DEF SendNow
<1>9. CASE RecheckSendNow
  <2>1. ~Enqueue /\ Busy /\ step = "steer" /\ UNCHANGED paused
    BY <1>9 DEF RecheckSendNow, At, Starts, Enqueue
  <2>2. CASE Await("publish", opInput, opTurn) /\ UNCHANGED dispatching
    BY <1>c, <2>1, <2>2, StillOwes DEF Await
  <2>3. CASE Dispatch(opInput, FALSE)
    BY <1>a, <2>1, <2>3, DispatchOwes
  <2> QED BY <1>a, <1>9, <2>2, <2>3 DEF RecheckSendNow
<1>10. CASE ReadOutcome
  <2>1. /\ ~Enqueue /\ UNCHANGED <<dispatching, paused>> /\ step = "idle"
    BY <1>10 DEF ReadOutcome, Starts, Enqueue
  <2>2. UNCHANGED <<latest, unobserved>>
    BY <1>10 DEF ReadOutcome, Superseded, EndOp, Await
  <2> QED BY <1>c, <2>1, <2>2, StillOwes
<1>11. CASE PauseAfterInterruption
  <2>1. /\ UNCHANGED <<dispatching, queue>> /\ step = "interrupted"
        /\ paused' = (paused \/ (~Superseded(Op.turn) /\ queue # <<>>)) /\ EndOp
    BY <1>11 DEF PauseAfterInterruption, At, executionVars, threadVars
  <2>2. CASE latest # Op.turn
    <3>1. UNCHANGED <<latest, unobserved, paused>>
      BY <1>a, <2>1, <2>2 DEF EndOp, Superseded, TypeInv, QueueMemoryTypeOK
    <3>2. Unmarked' \subseteq Unmarked
      BY <2>1 DEF Unmarked
    <3> QED BY <2>1, <3>1, <3>2, StillOwes
  <2>3. CASE latest = Op.turn /\ queue # <<>>
    BY <2>1, <2>3 DEF Superseded, SomeoneOwes
  <2>4. CASE queue = <<>>
    <3>1. Elems(queue) = {}
      BY <2>4 DEF Elems
    <3>2. Unmarked' = {}
      BY <2>1, <3>1 DEF Unmarked
    <3> QED BY <3>2 DEF SomeoneOwes
  <2> QED BY <2>2, <2>3, <2>4
<1>12. CASE ContinueAfterCompletion
  <2>1. /\ UNCHANGED <<queue, paused>> /\ Busy /\ step = "completed"
    BY <1>12 DEF ContinueAfterCompletion, At, executionVars, threadVars
  <2>2. CASE \E i \in Input : Dispatch(i, paused)
    BY <1>a, <2>1, <2>2, DispatchOwes
  <2>3. CASE Superseded(Op.turn) /\ EndOp /\ UNCHANGED dispatching
    <3>1. UNCHANGED <<latest, unobserved>> /\ Unmarked' \subseteq Unmarked
      BY <2>1, <2>3 DEF Superseded, EndOp, Unmarked
    <3> QED BY <2>1, <3>1, StillOwes
  <2>4. CASE paused
    BY <2>1, <2>4 DEF SomeoneOwes
  <2>5. CASE (\A i \in Input : ~IsNext(i)) /\ UNCHANGED dispatching
    <3>1. Unmarked' = {}
      BY <1>a, <2>1, <2>5, NextExists DEF Unmarked
    <3> QED BY <3>1 DEF SomeoneOwes
  <2> QED BY <1>12, <2>2, <2>3, <2>4, <2>5 DEF ContinueAfterCompletion
<1> QED BY <1>1, <1>2, <1>3, <1>4, <1>5, <1>6, <1>7, <1>8, <1>9, <1>10, <1>11, <1>12, <1>13 DEF ChainStep

LEMMA NextOwes ==
  ASSUME NothingRefuses, ThreadInv, closed = {}, SomeoneOwes, Next, ~Restart
  PROVE  SomeoneOwes'
<1>a. TypeInv /\ OwnershipInv /\ RunInv /\ LatestInv /\ ObserveInv
  BY DEF ThreadInv, OwnershipInv
<1>1. CASE ChainStep
  BY <1>1, ChainOwes
<1>2. CASE ~ChainStep
  <2>a. Elems(queue)' \subseteq Elems(queue)
    BY <1>a, <1>2, OnlyEnqueueAdds
  <2>b. UNCHANGED <<step, paused>>
    BY <1>a, <1>2, OutsideChain
  <2>1. ASSUME NEW t \in Turn, SettleRun(t) PROVE SomeoneOwes'
    <3>1. pc[t] = "settling" /\ dispatching' = dispatching \ {source[t]} /\ UNCHANGED <<latest, unobserved>>
      BY <2>1 DEF SettleRun, EndRun, Goto
    <3>2. source[t] \notin Elems(queue)
      <4>1. source[t] # NoInput => publishedIn[source[t]] # <<>>
        BY <1>a, <3>1 DEF RunInv, RunOfInput, Running
      <4>2. source[t] = NoInput => source[t] \notin Elems(queue)
        BY <1>a, ElemsSubset, NoInputAssumption DEF TypeInv, ExecutionTypeOK
      <4> QED BY <1>a, <4>1, <4>2 DEF OwnershipInv, OneHolder, HeldByQueue
    <3>3. Unmarked' \subseteq Unmarked
      BY <2>a, <3>1, <3>2 DEF Unmarked
    <3> QED BY <2>b, <3>1, <3>3, StillOwes
  <2>2. CASE ~\E t \in Turn : SettleRun(t)
    <3>1. UNCHANGED dispatching /\ RunsStay
      BY <1>a, <1>2, <2>2, OutsideChain, OutsideRuns
    <3>2. Unmarked' \subseteq Unmarked
      BY <2>a, <3>1 DEF Unmarked
    <3>3. RunOwes => RunOwes'
      BY <3>1 DEF RunsStay, RunOwes
    <3>4. latest' # NoTurn => RunOwes'
      BY DEF RunOwes
    <3> QED BY <2>b, <3>1, <3>2, <3>3, <3>4 DEF SomeoneOwes, RunsStay
  <2> QED BY <2>1, <2>2
<1> QED BY <1>1, <1>2

-----------------------------------------------------------------------------
(* The theorem.                                                            *)

LEMMA NextDispatch ==
  ASSUME NothingRefuses, ThreadInv, DispatchInv, [Next]_vars, ~Restart
  PROVE  DispatchInv'
<1>1. CASE UNCHANGED vars
  BY <1>1 DEF vars, registryVars, executionVars, threadVars, runVars, queueVars, DispatchInv,
     LatestSettles, SomeoneOwes, RunOwes, MarkedIsRecorded, MarkedIsHeld, Unmarked, Recorded, Running
<1>2. CASE Next
  <2>1. closed' = {}
    BY <1>2, WhoCloses DEF NothingRefuses, DispatchInv, BeginDeletion, PrepareMigration, DeletionFails,
       CancelMigration, Readmit
  <2> QED BY <1>2, <2>1, NextLatestSettles, NextOwes, NextMarkedIsRecorded, NextMarkedIsHeld
          DEF DispatchInv, ThreadInv, OwnershipInv
<1> QED BY <1>1, <1>2

(* At rest neither a run nor the chain can owe a dispatch. *)
LEMMA RestImpliesPaused ==
  ASSUME ThreadInv, DispatchInv, step # "idle" => Busy
  PROVE  QueueDoesNotStall
<1> SUFFICES ASSUME AtRest, queue # <<>> PROVE paused
  BY DEF QueueDoesNotStall
<1>a. TypeInv
  BY DEF ThreadInv, OwnershipInv
<1>1. registered = {} /\ tail = <<>> /\ step = "idle"
  BY DEF AtRest, Busy
<1>2. ~RunOwes
  <2>1. current = NoTurn
    BY <1>1 DEF ThreadInv, LatestInv
  <2>2. 1 .. Len(tail) = {}
    BY <1>1
  <2>3. latest = NoTurn
    BY <1>1, <2>2 DEF DispatchInv, LatestSettles
  <2>4. unobserved \subseteq Turn /\ unobserved \subseteq {NoTurn}
    BY <1>a, <2>1 DEF ThreadInv, ObserveInv, UnobservedInSlot, TypeInv, ChainTypeOK
  <2>5. unobserved = {}
    BY <2>4, NoTurnAssumption
  <2> QED BY <2>3, <2>5 DEF RunOwes
<1>3. queue[1] \in Elems(queue)
  <2>1. Len(queue) \in Nat /\ Len(queue) # 0
    BY <1>a, LenProperties, EmptySeq DEF TypeInv, ExecutionTypeOK
  <2> QED BY <2>1 DEF Elems
<1>4. queue[1] \notin dispatching
  BY <1>1, <1>3 DEF DispatchInv, MarkedIsHeld, ThreadInv, EndedInv, EndedTurn
<1> QED BY <1>1, <1>2, <1>3, <1>4 DEF DispatchInv, SomeoneOwes, Unmarked

(* As long as the process lives, a thread at rest with a queue is paused:  *)
(* an input that waits is owed a dispatch by the turn in the slot, by the  *)
(* settlement of that turn in the chain, or by the operation that is about *)
(* to dispatch.  (An attachment or a model that can no longer be used, a   *)
(* deletion that fails and a migration that is cancelled may break this.)  *)
THEOREM QueueNeverStalls ==
  ~DispatchMayFail /\ ~Deletes /\ ~Migrates => (Spec => [](restarts = 0 => QueueDoesNotStall))
<1> SUFFICES ASSUME NothingRefuses PROVE Spec => [](restarts = 0 => QueueDoesNotStall)
  BY DEF NothingRefuses
<1> DEFINE Inv == ThreadInv /\ (restarts = 0 => AcceptInv /\ DispatchInv)
<1>1. Init => Inv
  <2>1. Init => TypeInv /\ OneHolder /\ EndedInv
    BY InitTyped, InitHolds, InitEnded
  <2>2. ASSUME Init PROVE /\ registered = {} /\ current = NoTurn /\ closed = {}
                          /\ queue = <<>> /\ tail = <<>> /\ step = "idle" /\ latest = NoTurn
                          /\ dispatching = {} /\ pc = [t \in Turn |-> "none"]
                          /\ kind = [t \in Turn |-> "regular"]
                          /\ request = [i \in Input |-> "none"]
    BY <2>2 DEF Init, RegistryInit, ExecutionInit, QueueInit
  <2>3. ASSUME Init PROVE Elems(queue) = {} /\ 1 .. Len(tail) = {}
    BY <2>2, <2>3 DEF Elems
  <2>4. ASSUME Init PROVE RunInv /\ StepInv /\ DeletionInv /\ ObserveInv /\ LatestInv /\ AcceptInv
    BY <2>2, <2>3, <2>4, InitObserved DEF RunInv, RunOfInput, Running, AcceptInv, Promised
  <2>5. ASSUME Init PROVE DispatchInv
    BY <2>2, <2>3, <2>5 DEF DispatchInv, LatestSettles, SomeoneOwes, MarkedIsRecorded, MarkedIsHeld, Unmarked
  <2> QED BY <2>1, <2>4, <2>5 DEF ThreadInv, OwnershipInv
<1>2. Inv /\ [Next]_vars => Inv'
  <2> SUFFICES ASSUME Inv, [Next]_vars PROVE Inv'
    OBVIOUS
  <2>1. ThreadInv'
    BY NextTyped, NextHolds, NextRunInv, NextEnded, NextStepInv, NextDeletion, NextObserve, NextLatest
       DEF ThreadInv, OwnershipInv
  <2>2. ASSUME restarts' = 0 PROVE AcceptInv' /\ DispatchInv'
    <3>1. ~Restart
      BY <2>2 DEF ThreadInv, OwnershipInv, TypeInv, DriverTypeOK, Restart
    <3>2. restarts = 0
      BY <2>2, <3>1, RestartsStay DEF vars
    <3> QED BY <3>1, <3>2, NextAccepted, NextDispatch DEF ThreadInv
  <2> QED BY <2>1, <2>2
<1>3. Inv => (restarts = 0 => QueueDoesNotStall)
  BY RestImpliesPaused DEF AcceptInv
<1> QED BY <1>1, <1>2, <1>3, PTL DEF Spec

-----------------------------------------------------------------------------
(* The order of the queue.                                                 *)

(* What is mapped beyond the place n - m, and not beyond n, is not the last *)
(* place.                                                                  *)
LEMMA BelowLast ==
  ASSUME NEW n \in Nat, NEW m \in 0 .. n - 1, NEW v \in Int, n - m < v, v <= n
  PROVE  m # 0 /\ n - m + 1 \in 1 .. n
OBVIOUS

(* An increasing numbering of n places with n numbers is the identity. *)
LEMMA IncreasingIsIdentity ==
  ASSUME NEW n \in Nat, NEW f \in [1 .. n -> 1 .. n],
         \A j, k \in 1 .. n : j < k => f[j] < f[k]
  PROVE  \A k \in 1 .. n : f[k] = k
<1>1. \A k \in 1 .. n : k <= f[k]
  <2> DEFINE S == {k \in 1 .. n : f[k] < k}
  <2> SUFFICES ASSUME S # {} PROVE FALSE
    OBVIOUS
  <2>1. S \subseteq Nat
    OBVIOUS
  <2>2. PICK k \in S : \A m \in S : k <= m
    BY <2>1, LeastElement, Zenon
  <2>3. k # 1 /\ k - 1 \in 1 .. n
    BY <2>2
  <2>4. k - 1 <= f[k - 1]
    <3>1. k - 1 \notin S
      BY <2>2, <2>3
    <3> QED BY <2>3, <3>1
  <2>5. f[k - 1] < f[k]
    BY <2>2, <2>3
  <2> QED BY <2>2, <2>3, <2>4, <2>5
<1>2. \A k \in 1 .. n : f[k] <= k
  <2> DEFINE S == {m \in 0 .. n - 1 : n - m < f[n - m]}
  <2> SUFFICES ASSUME NEW k \in 1 .. n, k < f[k] PROVE FALSE
    OBVIOUS
  <2>1. n - k \in S /\ S \subseteq Nat
    OBVIOUS
  <2>2. PICK m \in S : \A q \in S : m <= q
    BY <2>1, LeastElement, Zenon
  <2>3. m # 0 /\ n - m \in 1 .. n /\ n - m + 1 \in 1 .. n
    <3>1. m \in 0 .. n - 1 /\ n - m < f[n - m]
      BY <2>2
    <3>2. n - m \in 1 .. n
      BY <3>1
    <3>3. f[n - m] <= n
      BY <3>2
    <3> HIDE DEF S
    <3>4. f[n - m] \in Int
      BY <3>2
    <3> QED BY <3>1, <3>2, <3>3, <3>4, BelowLast
  <2>4. f[n - m + 1] <= n - m + 1
    <3>1. m - 1 \in 0 .. n - 1 /\ n - (m - 1) = n - m + 1 /\ ~(m <= m - 1)
      BY <2>2, <2>3
    <3>2. m - 1 \notin S
      <4> HIDE DEF S
      <4> QED BY <2>2, <3>1
    <3>3. ~(n - (m - 1) < f[n - (m - 1)])
      BY <3>1, <3>2
    <3>4. f[n - m + 1] \in 1 .. n
      BY <2>3
    <3> QED BY <2>3, <3>1, <3>3, <3>4
  <2>5. f[n - m] < f[n - m + 1]
    BY <2>3
  <2> QED BY <2>2, <2>3, <2>4, <2>5
<1> QED BY <1>1, <1>2

(* Sorting a permutation of an order by that order gives the order. *)
LEMMA SortedIsOrder ==
  ASSUME NEW order \in Seq(Input), NEW new \in [1 .. Len(order) -> Elems(order)],
         NEW seq, Sorted(new, seq, order)
  PROVE  new = order
<1>a. Len(order) \in Nat /\ order \in [1 .. Len(order) -> Input]
  BY LenProperties
<1>b. Len(new) = Len(order)
  BY <1>a
<1>c. \A x \in Elems(order) : Position(order, x) \in 1 .. Len(order) /\ order[Position(order, x)] = x
  BY DEF Elems, Position
<1> DEFINE f == [k \in 1 .. Len(order) |-> Position(order, new[k])]
<1>1. f \in [1 .. Len(order) -> 1 .. Len(order)]
  BY <1>c
<1>2. \A j, k \in 1 .. Len(order) : j < k => f[j] < f[k]
  BY <1>b DEF Sorted, Precedes
<1> HIDE DEF f
<1>3. \A k \in 1 .. Len(order) : f[k] = k
  BY <1>a, <1>1, <1>2, IncreasingIsIdentity
<1>4. \A k \in 1 .. Len(order) : new[k] = order[k]
  BY <1>c, <1>3 DEF f
<1> QED BY <1>a, <1>4

(* While none of its inputs is being sent, only the chain changes the      *)
(* queue: a run or a steer call that stores a message has no queued input. *)
LEMMA QueueRests ==
  ASSUME OwnershipInv, Elems(queue) \cap dispatching = {}, Next, ~ChainStep
  PROVE  UNCHANGED queue
<1>a. \A i : i \notin Elems(queue) => Without(queue, i) = queue
  BY DEF Without
<1>1. ASSUME NEW t \in Turn, RunnerStep(t) PROVE UNCHANGED queue
  <2>1. CASE PublishInput(t)
    <3>1. Running(t)
      BY <2>1 DEF PublishInput, Goto, Running
    <3>2. source[t] \notin Elems(queue)
      BY <3>1 DEF OwnershipInv, OneHolder, HeldByRun
    <3> QED BY <1>a, <2>1, <3>2 DEF PublishInput, StoreMessage, threadVars
  <2>2. CASE UNCHANGED queue
    BY <2>2
  <2> QED BY <1>1, <2>1, <2>2 DEF RunnerStep, Proceed, WriteStarted, ShellUnavailable, DrainSteers,
     CloseTurn, FinalDrain, CompleteTurn, StopByHook, CompleteStopped, CompleteShell, FailTurn,
     WriteError, NoticeAbort, LeaveAborted, CheckTerminal, WriteCancelled, StoreTerminal, threadVars
<1>2. ASSUME NEW i \in Input, CallStep(i) PROVE UNCHANGED queue
  <2>1. CASE PublishSteer(i)
    <3>1. request[i] = "publish"
      BY <2>1 DEF PublishSteer, Ask
    <3>2. i \notin Elems(queue)
      BY <3>1 DEF OwnershipInv, OneHolder, HeldByCall, CallPhase, Untouched
    <3> QED BY <1>a, <2>1, <3>2 DEF PublishSteer, AcceptSteer, StoreMessage
  <2>2. CASE UNCHANGED queue
    BY <2>2
  <2> QED BY <1>2, <2>1, <2>2 DEF CallStep, LookForActive, LookAtQueue, RedirectToQueue, CreateDirect,
     DirectWaitOver, StartDirect, Register, ObserveDirect, BeginRun, DirectFails, RecheckSteer, executionVars, threadVars
<1>3. ASSUME User PROVE UNCHANGED queue
  BY <1>3 DEF User, StartTurn, StartUnattended, QueueInput, SteerTurn, ClickSendNow, ClickWithdraw,
     Drag, Click, CancelTurn, ForceCancel, StartReview, StartShell, Register, BeginRun, executionVars, threadVars
<1>4. ASSUME BeginDeletion \/ DeletionProgress \/ PrepareMigration \/ CancelMigration \/ Restart
             \/ \E t \in Turn : WriteForced(t) \/ SettleRun(t) \/ ObserveReview(t)
      PROVE  UNCHANGED queue
  BY <1>4 DEF BeginDeletion, DeletionProgress, CancelSlot, SlotEmpty, CancellationsWritten,
     AdmissionsDrained, DeleteThread, DeletionFails, PrepareMigration, CancelMigration, Restart,
     WriteForced, StoreTerminal, SettleRun, EndRun, ObserveReview, executionVars, threadVars
<1> QED BY <1>1, <1>2, <1>3, <1>4 DEF Next

(* Between the check of an order and its event the queue holds the same    *)
(* inputs, and none of them is being sent.                                 *)
ReorderInv ==
  step = "reorder" =>
    /\ Busy
    /\ Len(Op.order) = Len(queue)
    /\ Elems(Op.order) = Elems(queue)
    /\ Elems(queue) \cap dispatching = {}

LEMMA NextReorder == OwnershipInv /\ ReorderInv /\ [Next]_vars => ReorderInv'
<1> SUFFICES ASSUME OwnershipInv, ReorderInv, [Next]_vars PROVE ReorderInv'
  OBVIOUS
<1>a. TypeInv
  BY DEF OwnershipInv
<1>1. CASE UNCHANGED vars
  BY <1>1 DEF vars, executionVars, threadVars, queueVars, ReorderInv, Busy, Op
<1>2. CASE Restart
  BY <1>2 DEF Restart, ReorderInv
<1>3. CASE ChainStep
  <2>1. CASE CheckReorder
    <3>1. CASE EndOp
      BY <3>1 DEF EndOp, Leave, ReorderInv
    <3>2. CASE Reorderable(Op.order) /\ Await("reorder", NoInput, NoTurn)
      BY <2>1, <3>2 DEF CheckReorder, Starts, Await, Reorderable, ReorderInv, Busy, Op,
         executionVars, threadVars
    <3> QED BY <2>1, <3>1, <3>2 DEF CheckReorder
  <2>2. CASE ~CheckReorder
    <3>1. step' # "reorder"
      BY <1>3, <2>2 DEF ChainStep, StartDispatched, Register, ObserveDispatched, CreateDispatched, FinalizedTurnSettled, DispatchFails,
         Enqueue, ResumeAfterEnqueue, StoreReorder, CheckWithdraw, StoreWithdraw, SendNow,
         RecheckSendNow, PublishSendNow, ReadOutcome, Outcome, PauseAfterInterruption,
         ContinueAfterCompletion, Dispatch, Await, EndOp, Leave
    <3> QED BY <3>1 DEF ReorderInv
  <2> QED BY <2>1, <2>2
<1>4. CASE Next /\ ~ChainStep /\ ~Restart
  <2> SUFFICES ASSUME step' = "reorder"
               PROVE  /\ Busy' /\ Len(Op'.order) = Len(queue') /\ Elems(Op'.order) = Elems(queue')
                      /\ Elems(queue') \cap dispatching' = {}
    BY DEF ReorderInv
  <2>1. step = "reorder"
    BY <1>a, <1>4, OutsideChain
  <2>2. UNCHANGED queue
    BY <1>4, <2>1, QueueRests DEF ReorderInv
  <2>3. dispatching' \subseteq dispatching /\ (UNCHANGED tail \/ \E op : tail' = Append(tail, op))
    BY <1>a, <1>4, OutsideChain DEF SettleRun
  <2>4. Busy => Busy' /\ Op' = Op
    BY <1>a, <2>3 DEF Busy, Op, TypeInv, ChainTypeOK
  <2> QED BY <2>1, <2>2, <2>3, <2>4 DEF ReorderInv
<1> QED BY <1>1, <1>2, <1>3, <1>4

(* The order that is stored is the order the user dragged to: between the  *)
(* check and the event nothing joins or leaves the queue, and the stable   *)
(* sort of the projection then has one result.  (A restart drops the       *)
(* operation instead.)                                                     *)
THEOREM DraggedOrderIsStored == MaxRestarts = 0 => (Spec => ReorderIsExact)
<1> SUFFICES ASSUME MaxRestarts = 0 PROVE Spec => ReorderIsExact
  OBVIOUS
<1> DEFINE Inv == OwnershipInv /\ ReorderInv
<1>1. Init => Inv
  BY InitTyped, InitHolds DEF OwnershipInv, ReorderInv, Init, QueueInit
<1>2. Inv /\ [Next]_vars => Inv'
  BY NextTyped, NextHolds, NextReorder DEF OwnershipInv
<1>3. Inv /\ [Next]_vars => [At("reorder") /\ tail' = Tail(tail) => queue' = Op.order]_vars
  <2> SUFFICES ASSUME Inv, Next, At("reorder"), tail' = Tail(tail) PROVE queue' = Op.order
    OBVIOUS
  <2>a. TypeInv
    BY DEF OwnershipInv
  <2>1. ~Restart
    BY <2>a DEF Restart, TypeInv, DriverTypeOK
  <2>2. Len(tail') # Len(tail) /\ ~\E op \in Operation : tail' = Append(tail, op)
    <3>1. Len(Tail(tail)) = Len(tail) - 1 /\ Len(tail) \in Nat
      BY <2>a, HeadTailProperties, LenProperties DEF At, Busy, TypeInv, ChainTypeOK
    <3>2. \A op \in Operation : Len(Append(tail, op)) = Len(tail) + 1
      BY <2>a, AppendProperties DEF TypeInv, ChainTypeOK
    <3> QED BY <3>1, <3>2
  <2>3. ChainStep
    <3>1. ASSUME NEW t \in Turn, SettleRun(t) PROVE FALSE
      <4>1. SettleOp(t) \in Operation
        BY EmptySeq DEF SettleOp, Operation
      <4> QED BY <2>2, <3>1, <4>1 DEF SettleRun
    <3>2. CASE ~ChainStep
      BY <2>a, <2>1, <2>2, <3>1, <3>2, OutsideChain
    <3> QED BY <3>2
  <2>4. StoreReorder
    BY <2>3 DEF ChainStep, StartDispatched, Register, ObserveDispatched, CreateDispatched, FinalizedTurnSettled, DispatchFails,
       Enqueue, ResumeAfterEnqueue, CheckReorder, CheckWithdraw, StoreWithdraw, SendNow,
       RecheckSendNow, PublishSendNow, ReadOutcome, PauseAfterInterruption,
       ContinueAfterCompletion, At, Starts
  <2>5. Op.order \in Seq(Input)
    BY <2>a, HeadTyped DEF At, TypeInv, Operation
  <2>6. Len(Op.order) = Len(queue) /\ Elems(Op.order) = Elems(queue)
    BY DEF ReorderInv, At
  <2> QED BY <2>4, <2>5, <2>6, SortedIsOrder DEF StoreReorder
<1> QED BY <1>1, <1>2, <1>3, PTL DEF Spec, ReorderIsExact

=============================================================================
