------------------------- MODULE ThreadTurnsProofs --------------------------
(***************************************************************************)
(* Type correctness of ThreadTurns; the two facts about the registry and   *)
(* the queue that need no more than types: a thread has one turn that was  *)
(* not cancelled, and its queue stays within its limit; and what the two   *)
(* barriers of AgentLoop guarantee: the deletion of a thread starts when   *)
(* nothing the user asked for can still change a turn, and the snapshot of *)
(* a data migration does not change under the copy. The barriers rest on   *)
(* the fact that a turn which settled has told the log how it ended.       *)
(***************************************************************************)
EXTENDS ThreadTurns, SequenceTheorems, TLAPS

-----------------------------------------------------------------------------
(* Type correctness is not inductive as TypeOK states it: what an         *)
(* operation appends, marks or steers is an input or a turn only because   *)
(* of where the operation or the call is.                                  *)

ChainTypeOK ==
  /\ tail \in Seq(Operation)
  /\ \A k \in 1 .. Len(tail) : tail[k].do = "enqueue" => tail[k].input \in Input
  /\ step \in Step
  /\ opInput \in Input \cup {NoInput}
  /\ step \in {"withdraw", "create", "wait", "register", "observe", "steer", "publish"} =>
       opInput \in Input
  /\ opTurn \in Turn \cup {NoTurn}
  /\ step \in {"observe", "steer", "publish"} => opTurn \in Turn
  /\ latest \in Turn \cup {NoTurn}
  /\ unobserved \subseteq Turn

CallTypeOK ==
  /\ request \in [Input -> Request]
  /\ target \in [Input -> Turn \cup {NoTurn}]
  /\ \A i \in Input : request[i] \in {"observe", "steer", "publish"} => target[i] \in Turn

QueueMemoryTypeOK ==
  /\ withdrawn \subseteq Input
  /\ dispatching \subseteq Input
  /\ paused \in BOOLEAN

DriverTypeOK ==
  /\ forced \subseteq Turn
  /\ deletion \in DeletionStep
  /\ cancels \in Nat
  /\ restarts \in Nat

TypeInv ==
  /\ RegistryTypeOK
  /\ ExecutionTypeOK
  /\ ChainTypeOK
  /\ CallTypeOK
  /\ QueueMemoryTypeOK
  /\ DriverTypeOK

-----------------------------------------------------------------------------
(* Sequences.                                                              *)

(* The members of a sequence are elements of its set. *)
LEMMA ElemsSubset ==
  ASSUME NEW S, NEW seq \in Seq(S)
  PROVE  Elems(seq) \subseteq S
BY ElementOfSeq DEF Elems

(* What Without returns: a sequence, no longer than the one it filters. *)
LEMMA WithoutProperties ==
  ASSUME NEW S, NEW seq \in Seq(S), NEW i
  PROVE  /\ Without(seq, i) \in Seq(S)
         /\ Len(Without(seq, i)) <= Len(seq)
<1> DEFINE k == Position(seq, i)
           w == [j \in 1 .. Len(seq) - 1 |-> IF j < k THEN seq[j] ELSE seq[j + 1]]
<1>1. Len(seq) \in Nat /\ seq \in [1 .. Len(seq) -> S]
  BY LenProperties
<1>2. CASE i \in Elems(seq)
  <2>1. k \in 1 .. Len(seq)
    BY <1>2 DEF Elems, Position
  <2>2. Len(seq) - 1 \in Nat
    BY <1>1, <2>1
  <2> HIDE DEF k
  <2>3. w \in [1 .. Len(seq) - 1 -> S]
    BY <1>1, <2>1
  <2>4. w \in Seq(S) /\ Len(w) = Len(seq) - 1
    BY <2>2, <2>3
  <2>5. Without(seq, i) = w
    BY <1>2 DEF Without, k
  <2> HIDE DEF w
  <2> QED BY <1>1, <2>4, <2>5
<1>3. CASE i \notin Elems(seq)
  BY <1>1, <1>3 DEF Without
<1> QED BY <1>2, <1>3

-----------------------------------------------------------------------------
(* How the chain of operations keeps its types.                            *)

(* The end of an operation. *)
LEMMA LeaveTyped ==
  ASSUME ChainTypeOK, Busy, Leave, latest' \in Turn \cup {NoTurn}, unobserved' \subseteq Turn
  PROVE  ChainTypeOK'
<1>1. /\ tail' = Tail(tail)
      /\ step' = "idle"
      /\ opInput' = NoInput
      /\ opTurn' = NoTurn
  BY DEF Leave
<1>2. /\ Tail(tail) \in Seq(Operation)
      /\ Len(Tail(tail)) = Len(tail) - 1
      /\ \A k \in 1 .. Len(Tail(tail)) : Tail(tail)[k] = tail[k + 1]
  BY HeadTailProperties DEF ChainTypeOK, Busy
<1>3. \A k \in 1 .. Len(tail') : tail'[k].do = "enqueue" => tail'[k].input \in Input
  <2> TAKE k \in 1 .. Len(tail')
  <2>1. k + 1 \in 1 .. Len(tail) /\ tail'[k] = tail[k + 1]
    BY <1>1, <1>2, LenProperties DEF ChainTypeOK
  <2> QED BY <2>1 DEF ChainTypeOK
<1> QED BY <1>1, <1>2, <1>3 DEF ChainTypeOK, Step

LEMMA EndOpTyped ==
  ASSUME ChainTypeOK, Busy, EndOp
  PROVE  ChainTypeOK'
<1>1. latest' \in Turn \cup {NoTurn} /\ unobserved' \subseteq Turn
  BY DEF EndOp, ChainTypeOK
<1> QED BY <1>1, LeaveTyped DEF EndOp

(* An operation goes to one of its awaits. *)
LEMMA AwaitTyped ==
  ASSUME ChainTypeOK, NEW s \in Step, NEW i \in Input \cup {NoInput},
         NEW t \in Turn \cup {NoTurn}, Await(s, i, t),
         s \in {"withdraw", "create", "wait", "register", "steer", "publish"} => i \in Input,
         s \in {"steer", "publish"} => t \in Turn, s # "observe"
  PROVE  ChainTypeOK'
BY DEF ChainTypeOK, Await

(* A new operation joins the chain. *)
LEMMA AddTyped ==
  ASSUME ChainTypeOK, NEW op \in Operation,
         op.do = "enqueue" => op.input \in Input,
         tail' = Append(tail, op), UNCHANGED <<step, opInput, opTurn, latest, unobserved>>
  PROVE  ChainTypeOK'
<1>1. /\ Append(tail, op) \in Seq(Operation)
      /\ Len(Append(tail, op)) = Len(tail) + 1
      /\ \A k \in 1 .. Len(tail) : Append(tail, op)[k] = tail[k]
      /\ Append(tail, op)[Len(tail) + 1] = op
  BY AppendProperties DEF ChainTypeOK
<1>2. \A k \in 1 .. Len(tail') : tail'[k].do = "enqueue" => tail'[k].input \in Input
  <2> TAKE k \in 1 .. Len(tail')
  <2>1. CASE k \in 1 .. Len(tail)
    BY <1>1, <2>1 DEF ChainTypeOK
  <2>2. CASE k = Len(tail) + 1
    BY <1>1, <2>2
  <2> QED BY <1>1, <2>1, <2>2, LenProperties DEF ChainTypeOK
<1> QED BY <1>1, <1>2 DEF ChainTypeOK

(* The answer to the caller of an enqueue. *)
LEMMA ReplyTyped ==
  ASSUME CallTypeOK, NEW a \in Answer, Reply(a), UNCHANGED target
  PROVE  CallTypeOK'
BY DEF CallTypeOK, Reply, Request, Answer

(* A call goes on. *)
LEMMA AskTyped ==
  ASSUME CallTypeOK, DriverTypeOK, NEW i \in Input, NEW from, NEW to \in Request,
         NEW t \in Turn \cup {NoTurn}, to \in {"observe", "steer", "publish"} => t \in Turn,
         Ask(i, from, to, t)
  PROVE  CallTypeOK' /\ DriverTypeOK'
BY DEF CallTypeOK, DriverTypeOK, Ask

(* A dispatch goes to the run factory or ends. *)
LEMMA DispatchTyped ==
  ASSUME TypeInv, Busy, NEW i \in Input, NEW p \in BOOLEAN, Dispatch(i, p), UNCHANGED target
  PROVE  ChainTypeOK' /\ CallTypeOK' /\ dispatching' \subseteq Input
<1>1. CASE HoldsBack(p) \/ ~AcceptingWork
  <2>1. /\ EndOp
        /\ Reply(IF HoldsBack(p) THEN "accepted" ELSE "refused")
        /\ UNCHANGED dispatching
    BY <1>1 DEF Dispatch
  <2>2. ChainTypeOK'
    BY <2>1, EndOpTyped DEF TypeInv, ChainTypeOK
  <2>3. CallTypeOK'
    BY <2>1, ReplyTyped DEF TypeInv, Answer
  <2> QED BY <2>1, <2>2, <2>3 DEF TypeInv, QueueMemoryTypeOK
<1>2. CASE ~(HoldsBack(p) \/ ~AcceptingWork)
  <2>1. /\ dispatching' = dispatching \cup {i}
        /\ Await("create", i, NoTurn)
        /\ UNCHANGED request
    BY <1>2 DEF Dispatch
  <2>2. ChainTypeOK'
    BY <2>1, AwaitTyped DEF TypeInv, Step
  <2> QED BY <2>1, <2>2 DEF TypeInv, QueueMemoryTypeOK, CallTypeOK
<1> QED BY <1>1, <1>2

-----------------------------------------------------------------------------
(* Every step keeps the types.                                             *)

(* The registration of a run. *)
LEMMA BeginRunTyped ==
  ASSUME RegistryTypeOK, ExecutionTypeOK, NEW t \in Turn, NEW k \in Kind,
         NEW i \in Input \cup {NoInput}, BeginRun(t, k, i)
  PROVE  RegistryTypeOK' /\ ExecutionTypeOK'
BY DEF RegistryTypeOK, ExecutionTypeOK, BeginRun, StartTask, threadVars, PC

(* The message of an input is stored. *)
LEMMA StoreMessageTyped ==
  ASSUME ExecutionTypeOK, NEW i \in Input, NEW t \in Turn, StoreMessage(i, t)
  PROVE  /\ queue' \in Seq(Input)
         /\ publishedIn' \in [Input -> Seq(Turn)]
         /\ UNCHANGED <<started, terminal>>
<1>1. Append(publishedIn[i], t) \in Seq(Turn)
  BY AppendProperties DEF ExecutionTypeOK
<1>2. Without(queue, i) \in Seq(Input)
  BY WithoutProperties DEF ExecutionTypeOK
<1> QED BY <1>1, <1>2 DEF ExecutionTypeOK, StoreMessage

(* A terminal event is stored. *)
LEMMA StoreTerminalTyped ==
  ASSUME ExecutionTypeOK, NEW t \in Turn, NEW event \in Terminal, StoreTerminal(t, event)
  PROVE  /\ terminal' \in [Turn -> SUBSET Terminal]
         /\ UNCHANGED <<queue, publishedIn, started>>
BY DEF ExecutionTypeOK, StoreTerminal

(* A steer is accepted. *)
LEMMA AcceptSteerTyped ==
  ASSUME ExecutionTypeOK, NEW i \in Input, NEW t \in Turn, AcceptSteer(i, t),
         UNCHANGED <<pc, kind, source, cancelWrite>>
  PROVE  ExecutionTypeOK'
BY StoreMessageTyped DEF AcceptSteer, ExecutionTypeOK

(* Steps of a run and of its cancellation writer. *)
LEMMA RunnerStepTyped ==
  ASSUME TypeInv, NEW t \in Turn, RunnerStep(t)
  PROVE  TypeInv'
<1> USE DEF TypeInv, RegistryTypeOK, ExecutionTypeOK, Goto, registryVars, threadVars
<1>1. ChainTypeOK' /\ CallTypeOK' /\ QueueMemoryTypeOK' /\ DriverTypeOK'
  BY DEF RunnerStep, Proceed, ChainTypeOK, CallTypeOK, QueueMemoryTypeOK, DriverTypeOK, queueVars, idleDriver
<1>2. ASSUME WriteStarted(t) PROVE RegistryTypeOK' /\ ExecutionTypeOK'
  BY <1>2 DEF WriteStarted, PC
<1>3. ASSUME ShellUnavailable(t) PROVE RegistryTypeOK' /\ ExecutionTypeOK'
  BY <1>3 DEF ShellUnavailable, PC
<1>4. ASSUME PublishInput(t) PROVE RegistryTypeOK' /\ ExecutionTypeOK'
  <2>1. /\ UNCHANGED <<registryVars, kind, source, steers, writers, cancelWrite>>
        /\ pc' \in [Turn -> PC]
    BY <1>4 DEF PublishInput, PC
  <2>2. CASE source[t] = NoInput
    BY <1>4, <2>1, <2>2 DEF PublishInput
  <2>3. CASE source[t] # NoInput
    <3>1. source[t] \in Input /\ StoreMessage(source[t], t)
      BY <1>4, <2>3 DEF PublishInput
    <3> QED BY <2>1, <3>1, StoreMessageTyped
  <2> QED BY <2>2, <2>3
<1>5. ASSUME DrainSteers(t) PROVE RegistryTypeOK' /\ ExecutionTypeOK'
  BY <1>5 DEF DrainSteers
<1>6. ASSUME CloseTurn(t) PROVE RegistryTypeOK' /\ ExecutionTypeOK'
  BY <1>6 DEF CloseTurn, StopAcceptingSteers, PC
<1>7. ASSUME FinalDrain(t) PROVE RegistryTypeOK' /\ ExecutionTypeOK'
  BY <1>7 DEF FinalDrain, PC
<1>8. ASSUME CompleteTurn(t) \/ CompleteStopped(t) \/ CompleteShell(t) \/ WriteError(t)
      PROVE  RegistryTypeOK' /\ ExecutionTypeOK'
  <2>1. \E event \in Terminal : StoreTerminal(t, event)
    BY <1>8 DEF CompleteTurn, CompleteStopped, CompleteShell, WriteError, Terminal
  <2>2. /\ pc' = [pc EXCEPT ![t] = "settling"]
        /\ UNCHANGED <<registryVars, kind, source, steers, writers, cancelWrite>>
    BY <1>8 DEF CompleteTurn, CompleteStopped, CompleteShell, WriteError
  <2> QED BY <2>1, <2>2, StoreTerminalTyped DEF PC
<1>9. ASSUME StopByHook(t) PROVE RegistryTypeOK' /\ ExecutionTypeOK'
  BY <1>9 DEF StopByHook, StopAcceptingSteers, PC
<1>10. ASSUME FailTurn(t) \/ NoticeAbort(t) \/ LeaveAborted(t)
       PROVE  RegistryTypeOK' /\ ExecutionTypeOK'
  BY <1>10 DEF FailTurn, NoticeAbort, LeaveAborted, PC
<1>11. ASSUME CheckTerminal(t) \/ WriteCancelled(t) PROVE RegistryTypeOK' /\ ExecutionTypeOK'
  <2>1. UNCHANGED <<registryVars, queue, publishedIn, started, pc, kind, source, steers, writers>>
    BY <1>11 DEF CheckTerminal, WriteCancelled, StoreTerminal
  <2>2. terminal' \in [Turn -> SUBSET Terminal]
    BY <1>11, StoreTerminalTyped DEF CheckTerminal, WriteCancelled, Terminal
  <2>3. cancelWrite' \in [Turn -> {"idle", "check", "recheck", "append"}]
    BY <1>11 DEF CheckTerminal, WriteCancelled
  <2> QED BY <2>1, <2>2, <2>3
<1> QED
  BY <1>1, <1>2, <1>3, <1>4, <1>5, <1>6, <1>7, <1>8, <1>9, <1>10, <1>11 DEF RunnerStep, Proceed

(* A run settles: its observer joins the chain. *)
LEMMA SettleRunTyped ==
  ASSUME TypeInv, NEW t \in Turn, SettleRun(t), UNCHANGED idleDriver
  PROVE  TypeInv'
<1> USE DEF TypeInv
<1>1. RegistryTypeOK' /\ ExecutionTypeOK'
  BY DEF SettleRun, EndRun, FinishTask, Goto, PC, RegistryTypeOK, ExecutionTypeOK, threadVars
<1>2. ChainTypeOK'
  <2>1. SettleOp(t) \in Operation /\ SettleOp(t).do = "settle"
    BY EmptySeq DEF SettleOp, Operation
  <2> QED BY <2>1, AddTyped DEF SettleRun
<1>3. CallTypeOK' /\ QueueMemoryTypeOK' /\ DriverTypeOK'
  BY DEF SettleRun, CallTypeOK, QueueMemoryTypeOK, DriverTypeOK, idleDriver
<1> QED BY <1>1, <1>2, <1>3

(* The operation at the head of the chain. *)
LEMMA HeadTyped ==
  ASSUME ChainTypeOK, Busy
  PROVE  Op \in Operation /\ (Op.do = "enqueue" => Op.input \in Input)
<1>1. Op = tail[1] /\ 1 \in 1 .. Len(tail)
  BY HeadTailProperties, LenProperties, EmptySeq DEF ChainTypeOK, Busy, Op
<1> QED BY <1>1, ElementOfSeq DEF ChainTypeOK

(* Steps of the operation at the head of the chain. *)
LEMMA ChainStepTyped ==
  ASSUME TypeInv, ChainStep
  PROVE  TypeInv'
<1> USE DEF TypeInv
<1>a. /\ UNCHANGED idleDriver
      /\ DriverTypeOK'
      /\ UNCHANGED target
  BY DEF ChainStep, idleDriver, DriverTypeOK
<1>b. UNCHANGED <<registryVars, executionVars>> => RegistryTypeOK' /\ ExecutionTypeOK'
  BY DEF registryVars, executionVars, threadVars, runVars, RegistryTypeOK, ExecutionTypeOK
<1>c. ActiveTurn \in Turn \cup {NoTurn} /\ FinalizingRegularTurn \in Turn \cup {NoTurn}
  BY DEF ActiveTurn, FinalizingRegularTurn, RegistryTypeOK
<1>d. latest \in Turn \cup {NoTurn} /\ Elems(queue) \subseteq Input
  BY ElemsSubset DEF ChainTypeOK, ExecutionTypeOK
<1>1. ASSUME NEW t \in Turn, StartDispatched(t) PROVE TypeInv'
  <2>1. RegistryTypeOK' /\ ExecutionTypeOK'
    BY <1>1, BeginRunTyped DEF StartDispatched, Register, Kind, ChainTypeOK
  <2>2. ChainTypeOK'
    BY <1>1 DEF StartDispatched, Register, At, ChainTypeOK, Step
  <2>3. CallTypeOK' /\ QueueMemoryTypeOK'
    BY <1>a, <1>1 DEF StartDispatched, CallTypeOK, QueueMemoryTypeOK
  <2> QED BY <1>a, <2>1, <2>2, <2>3
<1>19. ASSUME ObserveDispatched PROVE TypeInv'
  <2>1. ChainTypeOK'
    <3>1. latest' \in Turn \cup {NoTurn} /\ unobserved' \subseteq Turn
      BY <1>19 DEF ObserveDispatched, Observe, At, ChainTypeOK
    <3> QED BY <1>19, <3>1, LeaveTyped DEF ObserveDispatched, At
  <2>2. CallTypeOK' /\ QueueMemoryTypeOK'
    BY <1>a, <1>19, ReplyTyped DEF ObserveDispatched, Answer, QueueMemoryTypeOK
  <2> QED BY <1>a, <1>b, <1>19, <2>1, <2>2 DEF ObserveDispatched
<1>2. ASSUME CreateDispatched PROVE TypeInv'
  <2>1. ChainTypeOK'
    BY <1>2, <1>c, AwaitTyped DEF CreateDispatched, At, Step, ChainTypeOK
  <2> QED BY <1>a, <1>b, <1>2, <2>1 DEF CreateDispatched, CallTypeOK, QueueMemoryTypeOK
<1>3. ASSUME FinalizedTurnSettled PROVE TypeInv'
  <2>1. ChainTypeOK'
    BY <1>3, AwaitTyped DEF FinalizedTurnSettled, At, Step, ChainTypeOK
  <2> QED BY <1>a, <1>b, <1>3, <2>1 DEF FinalizedTurnSettled, CallTypeOK, QueueMemoryTypeOK
<1>4. ASSUME DispatchFails PROVE TypeInv'
  <2>1. ChainTypeOK'
    BY <1>4, <1>d, EndOpTyped DEF DispatchFails, At
  <2>2. CallTypeOK' /\ QueueMemoryTypeOK'
    BY <1>a, <1>4, ReplyTyped DEF DispatchFails, Answer, QueueMemoryTypeOK
  <2> QED BY <1>a, <1>b, <1>4, <2>1, <2>2 DEF DispatchFails
<1>5. ASSUME Enqueue PROVE TypeInv'
  <2>1. Busy /\ Op.input \in Input
    BY <1>5, HeadTyped DEF Enqueue, Starts
  <2>2. CASE QueueFull
    <3>1. ChainTypeOK'
      BY <1>5, <1>d, <2>1, <2>2, EndOpTyped DEF Enqueue
    <3>2. CallTypeOK' /\ QueueMemoryTypeOK'
      BY <1>a, <1>5, <2>2, ReplyTyped DEF Enqueue, Answer, QueueMemoryTypeOK
    <3>3. UNCHANGED <<registryVars, executionVars>>
      BY <1>5, <2>2 DEF Enqueue, executionVars, threadVars
    <3> QED BY <1>a, <1>b, <3>1, <3>2, <3>3
  <2>3. CASE ~QueueFull
    <3>1. ChainTypeOK'
      BY <1>5, <2>3, AwaitTyped DEF Enqueue, Step
    <3>2. CallTypeOK' /\ QueueMemoryTypeOK'
      BY <1>a, <1>5, <2>3 DEF Enqueue, CallTypeOK, QueueMemoryTypeOK
    <3>3. queue' \in Seq(Input)
      <4>1. queue' = Append(queue, Op.input)
        BY <1>5, <2>3 DEF Enqueue
      <4> QED BY <2>1, <4>1, AppendProperties DEF ExecutionTypeOK
    <3>4. RegistryTypeOK' /\ ExecutionTypeOK'
      BY <1>5, <3>3 DEF Enqueue, RegistryTypeOK, ExecutionTypeOK, registryVars, runVars
    <3> QED BY <1>a, <3>1, <3>2, <3>4
  <2> QED BY <2>2, <2>3
<1>6. ASSUME ResumeAfterEnqueue PROVE TypeInv'
  <2>1. CASE \E i \in Input : IsNext(i) /\ Dispatch(i, FALSE)
    <3>1. ChainTypeOK' /\ CallTypeOK' /\ dispatching' \subseteq Input
      BY <1>a, <1>6, <2>1, DispatchTyped DEF ResumeAfterEnqueue, At
    <3> QED BY <1>a, <1>b, <1>6, <3>1 DEF ResumeAfterEnqueue, QueueMemoryTypeOK
  <2>2. CASE EndOp /\ Reply("accepted") /\ UNCHANGED dispatching
    <3>1. ChainTypeOK' /\ CallTypeOK'
      BY <1>a, <1>d, <1>6, <2>2, EndOpTyped, ReplyTyped DEF ResumeAfterEnqueue, At, Answer
    <3> QED BY <1>a, <1>b, <1>6, <2>2, <3>1 DEF ResumeAfterEnqueue, QueueMemoryTypeOK
  <2> QED BY <1>6, <2>1, <2>2 DEF ResumeAfterEnqueue
<1>7. ASSUME CheckReorder \/ CheckWithdraw PROVE TypeInv'
  <2>1. ChainTypeOK'
    <3>1. CASE CheckReorder
      BY <1>d, <3>1, AwaitTyped, EndOpTyped DEF CheckReorder, Starts, Step
    <3>2. CASE CheckWithdraw
      BY <1>d, <3>2, AwaitTyped, EndOpTyped DEF CheckWithdraw, Starts, Selectable, Step
    <3> QED BY <1>7, <3>1, <3>2
  <2> QED BY <1>a, <1>b, <1>7, <2>1 DEF CheckReorder, CheckWithdraw, CallTypeOK, QueueMemoryTypeOK
<1>8. ASSUME StoreReorder PROVE TypeInv'
  <2>1. ChainTypeOK'
    BY <1>d, <1>8, EndOpTyped DEF StoreReorder, At
  <2>2. queue' \in Seq(Input)
    <3>1. Len(queue) \in Nat
      BY LenProperties DEF ExecutionTypeOK
    <3>2. queue' \in [1 .. Len(queue) -> Input]
      BY <1>d, <1>8 DEF StoreReorder
    <3> QED BY <3>1, <3>2
  <2>3. RegistryTypeOK' /\ ExecutionTypeOK'
    BY <1>8, <2>2 DEF StoreReorder, RegistryTypeOK, ExecutionTypeOK, registryVars, runVars
  <2> QED BY <1>a, <1>8, <2>1, <2>3 DEF StoreReorder, CallTypeOK, QueueMemoryTypeOK
<1>9. ASSUME StoreWithdraw PROVE TypeInv'
  <2>1. ChainTypeOK'
    BY <1>d, <1>9, EndOpTyped DEF StoreWithdraw, At
  <2>2. queue' \in Seq(Input)
    BY <1>9, WithoutProperties DEF StoreWithdraw, ExecutionTypeOK
  <2>3. RegistryTypeOK' /\ ExecutionTypeOK'
    BY <1>9, <2>2 DEF StoreWithdraw, RegistryTypeOK, ExecutionTypeOK, registryVars, runVars
  <2>4. opInput \in Input
    BY <1>9 DEF StoreWithdraw, At, ChainTypeOK
  <2> QED BY <1>a, <1>9, <2>1, <2>3, <2>4 DEF StoreWithdraw, CallTypeOK, QueueMemoryTypeOK
<1>10. ASSUME SendNow PROVE TypeInv'
  <2>a. /\ Busy
        /\ UNCHANGED <<registryVars, threadVars, pc, kind, source, steers, cancelWrite, withdrawn>>
    BY <1>10 DEF SendNow, Starts
  <2>1. CASE EndOp /\ UNCHANGED <<paused, dispatching, writers, request>>
    <3>1. ChainTypeOK'
      BY <1>d, <2>a, <2>1, EndOpTyped
    <3> QED BY <1>a, <1>b, <2>a, <2>1, <3>1
            DEF CallTypeOK, QueueMemoryTypeOK, executionVars, runVars
  <2>2. CASE /\ Op.input \in Input
             /\ ActiveTurn \in accepting
             /\ writers' = [writers EXCEPT ![ActiveTurn] = @ \cup {Op.input}]
             /\ Await("steer", Op.input, ActiveTurn)
             /\ paused' = FALSE
             /\ UNCHANGED <<dispatching, request>>
    <3>1. ChainTypeOK'
      BY <2>2, AwaitTyped DEF RegistryTypeOK, Step
    <3>2. RegistryTypeOK' /\ ExecutionTypeOK'
      BY <2>a, <2>2 DEF RegistryTypeOK, ExecutionTypeOK, registryVars, threadVars
    <3> QED BY <1>a, <2>a, <2>2, <3>1, <3>2 DEF CallTypeOK, QueueMemoryTypeOK
  <2>3. CASE Op.input \in Input /\ Dispatch(Op.input, FALSE) /\ paused' = FALSE /\ UNCHANGED writers
    <3>1. ChainTypeOK' /\ CallTypeOK' /\ dispatching' \subseteq Input
      BY <1>a, <2>a, <2>3, DispatchTyped
    <3> QED BY <1>a, <1>b, <2>a, <2>3, <3>1 DEF QueueMemoryTypeOK, executionVars, runVars
  <2> QED BY <1>d, <1>10, <2>1, <2>2, <2>3 DEF SendNow, Selectable
<1>11. ASSUME RecheckSendNow PROVE TypeInv'
  <2>a. /\ Busy
        /\ opInput \in Input
        /\ opTurn \in Turn
        /\ UNCHANGED <<registryVars, threadVars, pc, kind, source, steers, cancelWrite,
                       withdrawn, paused>>
    BY <1>11 DEF RecheckSendNow, At, ChainTypeOK
  <2>b. \/ UNCHANGED writers
        \/ writers' = [writers EXCEPT ![opTurn] = @ \ {opInput}]
    BY <1>11 DEF RecheckSendNow
  <2>1. RegistryTypeOK' /\ ExecutionTypeOK'
    BY <2>a, <2>b DEF RegistryTypeOK, ExecutionTypeOK, registryVars, threadVars
  <2>2. CASE Await("publish", opInput, opTurn) /\ UNCHANGED <<dispatching, request>>
    <3>1. ChainTypeOK'
      BY <2>a, <2>2, AwaitTyped DEF Step
    <3> QED BY <1>a, <2>a, <2>1, <2>2, <3>1 DEF CallTypeOK, QueueMemoryTypeOK
  <2>3. CASE Dispatch(opInput, FALSE)
    <3>1. ChainTypeOK' /\ CallTypeOK' /\ dispatching' \subseteq Input
      BY <1>a, <2>a, <2>3, DispatchTyped
    <3> QED BY <1>a, <2>a, <2>1, <3>1 DEF QueueMemoryTypeOK
  <2>4. CASE EndOp /\ UNCHANGED <<dispatching, request>>
    <3>1. ChainTypeOK'
      BY <1>d, <2>a, <2>4, EndOpTyped
    <3> QED BY <1>a, <2>a, <2>1, <2>4, <3>1 DEF CallTypeOK, QueueMemoryTypeOK
  <2> QED BY <1>11, <2>2, <2>3, <2>4 DEF RecheckSendNow
<1>12. ASSUME PublishSendNow PROVE TypeInv'
  <2>1. ChainTypeOK'
    BY <1>d, <1>12, EndOpTyped DEF PublishSendNow, At
  <2>2. ExecutionTypeOK'
    BY <1>12, AcceptSteerTyped DEF PublishSendNow, At, ChainTypeOK
  <2>3. RegistryTypeOK'
    BY <1>12 DEF PublishSendNow, RegistryTypeOK, registryVars
  <2> QED BY <1>a, <1>12, <2>1, <2>2, <2>3 DEF PublishSendNow, CallTypeOK, QueueMemoryTypeOK
<1>13. ASSUME ReadOutcome PROVE TypeInv'
  <2>1. Outcome(Op.turn) \in {"completed", "interrupted"}
    BY DEF Outcome
  <2>2. ChainTypeOK'
    BY <1>d, <1>13, <2>1, AwaitTyped, EndOpTyped DEF ReadOutcome, Starts, Step
  <2> QED BY <1>a, <1>b, <1>13, <2>2 DEF ReadOutcome, CallTypeOK, QueueMemoryTypeOK
<1>14. ASSUME PauseAfterInterruption PROVE TypeInv'
  <2>1. ChainTypeOK'
    BY <1>d, <1>14, EndOpTyped DEF PauseAfterInterruption, At
  <2> QED BY <1>a, <1>b, <1>14, <2>1 DEF PauseAfterInterruption, CallTypeOK, QueueMemoryTypeOK
<1>15. ASSUME ContinueAfterCompletion PROVE TypeInv'
  <2>1. CASE \E i \in Input : Dispatch(i, paused)
    <3>1. ChainTypeOK' /\ CallTypeOK' /\ dispatching' \subseteq Input
      BY <1>a, <1>15, <2>1, DispatchTyped DEF ContinueAfterCompletion, At, QueueMemoryTypeOK
    <3> QED BY <1>a, <1>b, <1>15, <3>1 DEF ContinueAfterCompletion, QueueMemoryTypeOK
  <2>2. CASE EndOp /\ UNCHANGED <<dispatching, request>>
    <3>1. ChainTypeOK'
      BY <1>d, <1>15, <2>2, EndOpTyped DEF ContinueAfterCompletion, At
    <3> QED BY <1>a, <1>b, <1>15, <2>2, <3>1 DEF ContinueAfterCompletion, CallTypeOK, QueueMemoryTypeOK
  <2> QED BY <1>15, <2>1, <2>2 DEF ContinueAfterCompletion
<1> QED
  BY <1>1, <1>2, <1>3, <1>4, <1>5, <1>6, <1>7, <1>8, <1>9, <1>10, <1>11, <1>12, <1>13, <1>14, <1>15, <1>19
     DEF ChainStep

(* The operations a client adds to the chain are operations. *)
LEMMA OperationsTyped ==
  /\ \A i \in Input, do \in {"enqueue", "sendNow", "withdraw"} :
       InputOp(do, i) \in Operation /\ InputOp(do, i).input = i
  /\ \A order \in Seq(Input) : ReorderOp(order) \in Operation /\ ReorderOp(order).do = "reorder"
BY EmptySeq DEF InputOp, ReorderOp, Operation

(* Steps of a call after its admission. *)
LEMMA CallStepTyped ==
  ASSUME TypeInv, NEW i \in Input, CallStep(i)
  PROVE  TypeInv'
<1> USE DEF TypeInv
<1>a. UNCHANGED <<registryVars, executionVars>> => RegistryTypeOK' /\ ExecutionTypeOK'
  BY DEF registryVars, executionVars, threadVars, runVars, RegistryTypeOK, ExecutionTypeOK
<1>b. UNCHANGED queueVars => ChainTypeOK' /\ QueueMemoryTypeOK'
  BY DEF queueVars, ChainTypeOK, QueueMemoryTypeOK
<1>c. ActiveTurn \in Turn \cup {NoTurn} /\ FinalizingRegularTurn \in Turn \cup {NoTurn}
  BY DEF ActiveTurn, FinalizingRegularTurn, RegistryTypeOK
<1>1. ASSUME LookForActive(i) PROVE TypeInv'
  <2>1. CallTypeOK' /\ DriverTypeOK'
    BY <1>1, AskTyped DEF LookForActive, Request
  <2> QED BY <1>a, <1>b, <1>1, <2>1 DEF LookForActive
<1>2. ASSUME LookAtQueue(i) PROVE TypeInv'
  <2>1. CallTypeOK' /\ DriverTypeOK'
    BY <1>2, AskTyped DEF LookAtQueue, Request
  <2> QED BY <1>a, <1>b, <1>2, <2>1 DEF LookAtQueue
<1>3. ASSUME RedirectToQueue(i) PROVE TypeInv'
  <2>1. CallTypeOK' /\ DriverTypeOK'
    BY <1>3, AskTyped DEF RedirectToQueue, Request
  <2>2. ChainTypeOK' /\ QueueMemoryTypeOK'
    BY <1>3, AddTyped, OperationsTyped DEF RedirectToQueue, Add, QueueMemoryTypeOK
  <2> QED BY <1>a, <1>3, <2>1, <2>2 DEF RedirectToQueue
<1>4. ASSUME CreateDirect(i) PROVE TypeInv'
  <2>1. CallTypeOK' /\ DriverTypeOK'
    BY <1>c, <1>4, AskTyped DEF CreateDirect, Request
  <2> QED BY <1>a, <1>b, <1>4, <2>1 DEF CreateDirect
<1>5. ASSUME DirectWaitOver(i) PROVE TypeInv'
  <2>1. CallTypeOK' /\ DriverTypeOK'
    BY <1>5, AskTyped DEF DirectWaitOver, Request
  <2> QED BY <1>a, <1>b, <1>5, <2>1 DEF DirectWaitOver
<1>6. ASSUME NEW t \in Turn, StartDirect(i, t) PROVE TypeInv'
  <2>1. CallTypeOK' /\ DriverTypeOK'
    BY <1>6, AskTyped DEF StartDirect, Request
  <2>2. RegistryTypeOK' /\ ExecutionTypeOK'
    BY <1>6, BeginRunTyped DEF StartDirect, Register, Kind
  <2>3. ChainTypeOK' /\ QueueMemoryTypeOK'
    BY <1>6 DEF StartDirect, Register, ChainTypeOK, QueueMemoryTypeOK
  <2> QED BY <2>1, <2>2, <2>3
<1>10. ASSUME ObserveDirect(i) PROVE TypeInv'
  <2>1. target[i] \in Turn
    BY <1>10 DEF ObserveDirect, Ask, CallTypeOK
  <2>2. CallTypeOK' /\ DriverTypeOK'
    BY <1>10, AskTyped DEF ObserveDirect, Request, Answer
  <2>3. ChainTypeOK' /\ QueueMemoryTypeOK'
    BY <1>10, <2>1 DEF ObserveDirect, Observe, ChainTypeOK, QueueMemoryTypeOK
  <2> QED BY <1>a, <1>10, <2>2, <2>3 DEF ObserveDirect
<1>7. ASSUME DirectFails(i) PROVE TypeInv'
  <2>1. CallTypeOK' /\ DriverTypeOK'
    BY <1>7, AskTyped DEF DirectFails, Request, Answer
  <2> QED BY <1>a, <1>b, <1>7, <2>1 DEF DirectFails
<1>8. ASSUME RecheckSteer(i) PROVE TypeInv'
  <2>1. target[i] \in Turn
    BY <1>8 DEF RecheckSteer, Ask, CallTypeOK
  <2>2. CallTypeOK' /\ DriverTypeOK'
    BY <1>8, <2>1, AskTyped DEF RecheckSteer, Request, Answer
  <2>3. RegistryTypeOK' /\ ExecutionTypeOK'
    BY <1>8, <2>1 DEF RecheckSteer, RegistryTypeOK, ExecutionTypeOK, registryVars, threadVars
  <2> QED BY <1>b, <1>8, <2>2, <2>3 DEF RecheckSteer
<1>9. ASSUME PublishSteer(i) PROVE TypeInv'
  <2>1. target[i] \in Turn
    BY <1>9 DEF PublishSteer, Ask, CallTypeOK
  <2>2. CallTypeOK' /\ DriverTypeOK'
    BY <1>9, AskTyped DEF PublishSteer, Request, Answer
  <2>3. ExecutionTypeOK'
    BY <1>9, <2>1, AcceptSteerTyped DEF PublishSteer
  <2>4. RegistryTypeOK'
    BY <1>9 DEF PublishSteer, RegistryTypeOK, registryVars
  <2> QED BY <1>b, <1>9, <2>2, <2>3, <2>4 DEF PublishSteer
<1> QED
  BY <1>1, <1>2, <1>3, <1>4, <1>5, <1>6, <1>7, <1>8, <1>9, <1>10 DEF CallStep

(* What the user does. *)
LEMMA UserTyped ==
  ASSUME TypeInv, User
  PROVE  TypeInv'
<1> USE DEF TypeInv
<1>a. UNCHANGED <<registryVars, executionVars>> => RegistryTypeOK' /\ ExecutionTypeOK'
  BY DEF registryVars, executionVars, threadVars, runVars, RegistryTypeOK, ExecutionTypeOK
<1>b. UNCHANGED queueVars => ChainTypeOK' /\ QueueMemoryTypeOK'
  BY DEF queueVars, ChainTypeOK, QueueMemoryTypeOK
<1>c. ASSUME NEW op \in Operation, op.do # "enqueue", Click(op) PROVE TypeInv'
  <2>1. ChainTypeOK' /\ QueueMemoryTypeOK'
    BY <1>c, AddTyped DEF Click, Add, QueueMemoryTypeOK
  <2> QED BY <1>a, <1>c, <2>1 DEF Click, CallTypeOK, DriverTypeOK, idleDriver
<1>1. ASSUME NEW i \in Input, StartTurn(i) \/ StartUnattended(i) PROVE TypeInv'
  <2>1. CallTypeOK' /\ DriverTypeOK'
    BY <1>1, AskTyped DEF StartTurn, StartUnattended, Request
  <2> QED BY <1>a, <1>b, <1>1, <2>1 DEF StartTurn, StartUnattended
<1>2. ASSUME NEW i \in Input, QueueInput(i) PROVE TypeInv'
  <2>1. CallTypeOK' /\ DriverTypeOK'
    BY <1>2, AskTyped DEF QueueInput, Request
  <2>2. ChainTypeOK' /\ QueueMemoryTypeOK'
    BY <1>2, AddTyped, OperationsTyped DEF QueueInput, Add, QueueMemoryTypeOK
  <2> QED BY <1>a, <1>2, <2>1, <2>2 DEF QueueInput
<1>3. ASSUME NEW i \in Input, SteerTurn(i) PROVE TypeInv'
  <2>1. ActiveTurn \in Turn
    BY <1>3 DEF SteerTurn, RegistryTypeOK
  <2>2. CallTypeOK' /\ DriverTypeOK'
    BY <1>3, <2>1, AskTyped DEF SteerTurn, Request
  <2>3. RegistryTypeOK' /\ ExecutionTypeOK'
    BY <1>3, <2>1 DEF SteerTurn, RegistryTypeOK, ExecutionTypeOK, registryVars, threadVars
  <2> QED BY <1>b, <1>3, <2>2, <2>3 DEF SteerTurn
<1>4. ASSUME NEW i \in Input, ClickSendNow(i) \/ ClickWithdraw(i) PROVE TypeInv'
  <2>1. \E do \in {"sendNow", "withdraw"} : Click(InputOp(do, i))
    BY <1>4 DEF ClickSendNow, ClickWithdraw
  <2>2. \A do \in {"sendNow", "withdraw"} : InputOp(do, i) \in Operation /\ InputOp(do, i).do # "enqueue"
    BY OperationsTyped DEF InputOp
  <2> QED BY <1>c, <2>1, <2>2
<1>5. ASSUME Drag PROVE TypeInv'
  <2>1. PICK order \in [1 .. Len(queue) -> Elems(queue)] : Click(ReorderOp(order))
    BY <1>5 DEF Drag
  <2>2. order \in Seq(Input)
    <3>1. Len(queue) \in Nat /\ Elems(queue) \subseteq Input
      BY LenProperties, ElemsSubset DEF ExecutionTypeOK
    <3> QED BY <3>1
  <2> QED BY <1>c, <2>1, <2>2, OperationsTyped
<1>6. ASSUME NEW t \in Turn, CancelTurn(t) PROVE TypeInv'
  <2>1. RegistryTypeOK' /\ ExecutionTypeOK'
    BY <1>6 DEF CancelTurn, AbortTask, RegistryTypeOK, ExecutionTypeOK, threadVars
  <2> QED BY <1>b, <1>6, <2>1 DEF CancelTurn, CallTypeOK, DriverTypeOK
<1>7. ASSUME NEW t \in Turn, ForceCancel(t) PROVE TypeInv'
  BY <1>a, <1>b, <1>7 DEF ForceCancel, CallTypeOK, DriverTypeOK
<1>8. ASSUME NEW t \in Turn, StartReview(t) \/ StartShell(t) PROVE TypeInv'
  <2>1. \E k \in Kind : BeginRun(t, k, NoInput)
    BY <1>8 DEF StartReview, StartShell, Register, Kind
  <2>2. RegistryTypeOK' /\ ExecutionTypeOK'
    BY <2>1, BeginRunTyped
  <2> QED BY <1>8, <2>2 DEF StartReview, StartShell, Register, Observe, ChainTypeOK, CallTypeOK,
                            QueueMemoryTypeOK, DriverTypeOK, idleDriver
<1> QED BY <1>1, <1>2, <1>3, <1>4, <1>5, <1>6, <1>7, <1>8 DEF User

(* A review is observed. *)
LEMMA ObserveReviewTyped ==
  ASSUME TypeInv, NEW t \in Turn, ObserveReview(t)
  PROVE  TypeInv'
<1> USE DEF TypeInv
<1>1. RegistryTypeOK' /\ ExecutionTypeOK'
  BY DEF ObserveReview, registryVars, executionVars, threadVars, runVars, RegistryTypeOK, ExecutionTypeOK
<1> QED BY <1>1 DEF ObserveReview, Observe, ChainTypeOK, CallTypeOK, QueueMemoryTypeOK, DriverTypeOK, idleDriver

(* The deletion barrier. *)
LEMMA DeletionTyped ==
  ASSUME TypeInv, BeginDeletion \/ DeletionProgress
  PROVE  TypeInv'
<1> USE DEF TypeInv
<1>a. UNCHANGED executionVars => ExecutionTypeOK'
  BY DEF executionVars, threadVars, runVars, ExecutionTypeOK
<1>b. UNCHANGED queueVars => ChainTypeOK' /\ QueueMemoryTypeOK'
  BY DEF queueVars, ChainTypeOK, QueueMemoryTypeOK
<1>c. ASSUME NEW from, NEW to \in DeletionStep, Deletion(from, to),
             RegistryTypeOK', UNCHANGED executionVars
      PROVE  TypeInv'
  BY <1>a, <1>b, <1>c DEF Deletion, CallTypeOK, DriverTypeOK
<1>d. UNCHANGED registryVars => RegistryTypeOK'
  BY DEF registryVars, RegistryTypeOK
<1>1. ASSUME BeginDeletion PROVE TypeInv'
  <2>1. RegistryTypeOK'
    BY <1>1 DEF BeginDeletion, Refuse, Reason, RegistryTypeOK
  <2> QED BY <1>c, <1>1, <2>1 DEF BeginDeletion, DeletionStep
<1>2. ASSUME CancelSlot PROVE TypeInv'
  <2>1. RegistryTypeOK' /\ ExecutionTypeOK'
    BY <1>2 DEF CancelSlot, AbortTask, RegistryTypeOK, ExecutionTypeOK, threadVars
  <2> QED BY <1>b, <1>2, <2>1 DEF CancelSlot, CallTypeOK, DriverTypeOK, idleDriver
<1>3. ASSUME SlotEmpty \/ CancellationsWritten \/ AdmissionsDrained \/ DeleteThread PROVE TypeInv'
  <2>1. \E from, to \in DeletionStep : Deletion(from, to)
    BY <1>3 DEF SlotEmpty, CancellationsWritten, AdmissionsDrained, DeleteThread, DeletionStep
  <2>2. UNCHANGED <<registryVars, executionVars>>
    BY <1>3 DEF SlotEmpty, CancellationsWritten, AdmissionsDrained, DeleteThread
  <2> QED BY <1>c, <1>d, <2>1, <2>2
<1>4. ASSUME DeletionFails PROVE TypeInv'
  <2>1. RegistryTypeOK'
    BY <1>4 DEF DeletionFails, Readmit, RegistryTypeOK
  <2> QED BY <1>c, <1>4, <2>1 DEF DeletionFails, DeletionStep
<1> QED BY <1>1, <1>2, <1>3, <1>4 DEF DeletionProgress

(* The maintenance gate, forced cancellations and restarts. *)
LEMMA RuntimeTyped ==
  ASSUME TypeInv,
         PrepareMigration \/ CancelMigration \/ Restart \/ \E t \in Turn : WriteForced(t)
  PROVE  TypeInv'
<1> USE DEF TypeInv
<1>1. ASSUME PrepareMigration \/ CancelMigration PROVE TypeInv'
  <2>1. RegistryTypeOK'
    BY <1>1 DEF PrepareMigration, CancelMigration, Refuse, Readmit, Reason, RegistryTypeOK
  <2>2. UNCHANGED <<executionVars, queueVars, request, idleDriver>>
    BY <1>1 DEF PrepareMigration, CancelMigration
  <2> QED BY <2>1, <2>2 DEF executionVars, threadVars, runVars, queueVars, idleDriver,
                            ExecutionTypeOK, ChainTypeOK, CallTypeOK, QueueMemoryTypeOK, DriverTypeOK
<1>2. ASSUME NEW t \in Turn, WriteForced(t) PROVE TypeInv'
  <2>1. terminal' \in [Turn -> SUBSET Terminal] /\ UNCHANGED <<queue, publishedIn, started>>
    BY <1>2, StoreTerminalTyped DEF WriteForced, Terminal
  <2> QED BY <1>2, <2>1 DEF WriteForced, registryVars, runVars, queueVars, RegistryTypeOK,
                            ExecutionTypeOK, ChainTypeOK, CallTypeOK, QueueMemoryTypeOK, DriverTypeOK
<1>3. ASSUME Restart PROVE TypeInv'
  <2>1. RegistryTypeOK'
    BY <1>3 DEF Restart, RegistryTypeOK
  <2>2. ExecutionTypeOK'
    BY <1>3 DEF Restart, ExecutionTypeOK, PC, Terminal
  <2>3. ChainTypeOK'
    BY <1>3, EmptySeq DEF Restart, ChainTypeOK, Step
  <2>4. CallTypeOK'
    BY <1>3 DEF Restart, CallTypeOK, Request, Answer
  <2>5. QueueMemoryTypeOK'
    BY <1>3 DEF Restart, QueueMemoryTypeOK
  <2>6. DriverTypeOK'
    <3>1. forced' = {} /\ deletion' = "none" /\ cancels' = cancels /\ restarts' = restarts + 1
      BY <1>3 DEF Restart
    <3>2. restarts' \in Nat /\ cancels' \in Nat
      BY <3>1 DEF DriverTypeOK
    <3>3. forced' \subseteq Turn
      BY <3>1
    <3> QED BY <3>1, <3>2, <3>3 DEF DriverTypeOK, DeletionStep
  <2> QED BY <2>1, <2>2, <2>3, <2>4, <2>5, <2>6
<1> QED BY <1>1, <1>2, <1>3

(* The initial state has the types. *)
LEMMA InitTyped == Init => TypeInv
<1> SUFFICES ASSUME Init PROVE TypeInv
  OBVIOUS
<1>1. RegistryTypeOK
  BY DEF Init, RegistryInit, RegistryTypeOK
<1>2. ExecutionTypeOK
  BY EmptySeq DEF Init, ExecutionInit, ExecutionTypeOK, PC, Kind
<1>3. ChainTypeOK
  BY EmptySeq DEF Init, QueueInit, ChainTypeOK, Step
<1>4. CallTypeOK /\ QueueMemoryTypeOK /\ DriverTypeOK
  BY DEF Init, QueueInit, CallTypeOK, QueueMemoryTypeOK, DriverTypeOK, Request, DeletionStep
<1> QED BY <1>1, <1>2, <1>3, <1>4 DEF TypeInv

(* Every step of the specification keeps the types. *)
LEMMA NextTyped == TypeInv /\ [Next]_vars => TypeInv'
<1> SUFFICES ASSUME TypeInv, [Next]_vars PROVE TypeInv'
  OBVIOUS
<1>1. CASE UNCHANGED vars
  BY <1>1 DEF TypeInv, vars, registryVars, executionVars, threadVars, runVars, queueVars,
              RegistryTypeOK, ExecutionTypeOK, ChainTypeOK, CallTypeOK, QueueMemoryTypeOK, DriverTypeOK
<1>2. CASE Next
  BY <1>2, RunnerStepTyped, SettleRunTyped, ChainStepTyped, CallStepTyped, UserTyped,
     ObserveReviewTyped, DeletionTyped, RuntimeTyped DEF Next
<1> QED BY <1>1, <1>2

(* The strengthened typing implies the type invariant the runs check. *)
LEMMA TypeInvImpliesTypeOK == TypeInv => TypeOK
BY DEF TypeInv, TypeOK, QueueTypeOK, ChainTypeOK, CallTypeOK, QueueMemoryTypeOK, DriverTypeOK

(* Type correctness: in every reachable state of AgentLoop's thread each   *)
(* variable holds what its comment says, for all bounds.                   *)
THEOREM TypeCorrect == Spec => []TypeOK
<1>1. TypeInv => TypeOK
  BY TypeInvImpliesTypeOK
<1> QED BY InitTyped, NextTyped, <1>1, PTL DEF Spec

-----------------------------------------------------------------------------
(* One active turn.                                                        *)

(* The inductive invariant: what start(), finish() and cancel() keep       *)
(* although the slot of the thread forgets cancelled runs.                 *)
SingleActiveInv == TypeInv /\ SingleActive

(* A run begins only when no turn is active, so it is the only one then.   *)
LEMMA BeginRunSingle ==
  ASSUME SingleActiveInv, NEW t \in Turn, NEW k, NEW i, BeginRun(t, k, i)
  PROVE  SingleActive'
BY NoTurnAssumption
   DEF SingleActiveInv, TypeInv, RegistryTypeOK, SingleActive, BeginRun, CanStart, ActiveTurn, StartTask

(* Every step keeps one turn active at most. *)
LEMMA NextSingleActive == SingleActiveInv /\ [Next]_vars => SingleActive'
<1> SUFFICES ASSUME SingleActiveInv, [Next]_vars PROVE SingleActive'
  OBVIOUS
<1>a. UNCHANGED <<registered, current, aborted>> => SingleActive'
  BY DEF SingleActiveInv, SingleActive
<1>1. CASE UNCHANGED vars
  BY <1>a, <1>1 DEF vars, registryVars
<1>2. ASSUME NEW t \in Turn, RunnerStep(t) PROVE SingleActive'
  BY <1>a, <1>2 DEF RunnerStep, Proceed, WriteStarted, ShellUnavailable, PublishInput, DrainSteers,
     CloseTurn, FinalDrain, CompleteTurn, StopByHook, CompleteStopped, CompleteShell, FailTurn,
     WriteError, NoticeAbort, LeaveAborted, CheckTerminal, WriteCancelled, StopAcceptingSteers,
     registryVars
<1>3. ASSUME NEW t \in Turn, SettleRun(t) PROVE SingleActive'
  BY <1>3, NoTurnAssumption DEF SettleRun, EndRun, FinishTask, SingleActiveInv, SingleActive, TypeInv, RegistryTypeOK
<1>4. ASSUME ChainStep PROVE SingleActive'
  <2>1. ASSUME NEW t \in Turn, StartDispatched(t) PROVE SingleActive'
    BY <2>1, BeginRunSingle DEF StartDispatched, Register
  <2>2. CASE UNCHANGED registryVars
    BY <1>a, <2>2 DEF registryVars
  <2> QED BY <1>4, <2>1, <2>2 DEF ChainStep, ObserveDispatched, CreateDispatched, FinalizedTurnSettled, DispatchFails, Enqueue,
     ResumeAfterEnqueue, CheckReorder, StoreReorder, CheckWithdraw, StoreWithdraw, SendNow,
     RecheckSendNow, PublishSendNow, ReadOutcome, PauseAfterInterruption, ContinueAfterCompletion
<1>5. ASSUME NEW i \in Input, CallStep(i) PROVE SingleActive'
  <2>1. ASSUME NEW t \in Turn, StartDirect(i, t) PROVE SingleActive'
    BY <2>1, BeginRunSingle DEF StartDirect, Register
  <2>2. CASE UNCHANGED registryVars
    BY <1>a, <2>2 DEF registryVars
  <2> QED BY <1>5, <2>1, <2>2 DEF CallStep, LookForActive, LookAtQueue, RedirectToQueue, CreateDirect,
     DirectWaitOver, ObserveDirect, DirectFails, RecheckSteer, PublishSteer
<1>6. ASSUME User PROVE SingleActive'
  <2>1. ASSUME NEW t \in Turn, StartReview(t) \/ StartShell(t) PROVE SingleActive'
    BY <2>1, BeginRunSingle DEF StartReview, StartShell, Register
  <2>2. ASSUME NEW t \in Turn, CancelTurn(t) PROVE SingleActive'
    BY <2>2 DEF CancelTurn, AbortTask, SingleActiveInv, SingleActive
  <2>3. CASE UNCHANGED registryVars
    BY <1>a, <2>3 DEF registryVars
  <2> QED BY <1>6, <2>1, <2>2, <2>3 DEF User, StartTurn, StartUnattended, QueueInput, SteerTurn,
     ClickSendNow, ClickWithdraw, Drag, Click, ForceCancel
<1>7. ASSUME BeginDeletion \/ DeletionProgress PROVE SingleActive'
  BY <1>a, <1>7 DEF BeginDeletion, DeletionProgress, CancelSlot, SlotEmpty, CancellationsWritten,
     AdmissionsDrained, DeleteThread, DeletionFails, Refuse, Readmit, AbortTask, registryVars,
     SingleActiveInv, SingleActive
<1>8. ASSUME PrepareMigration \/ CancelMigration \/ Restart \/ \E t \in Turn : WriteForced(t)
      PROVE  SingleActive'
  BY <1>a, <1>8 DEF PrepareMigration, CancelMigration, Restart, WriteForced, Refuse, Readmit,
     registryVars, SingleActive
<1>9. ASSUME NEW t \in Turn, ObserveReview(t) PROVE SingleActive'
  BY <1>a, <1>9 DEF ObserveReview, registryVars
<1> QED BY <1>1, <1>2, <1>3, <1>4, <1>5, <1>6, <1>7, <1>8, <1>9 DEF Next

(* However many cancelled runs still unwind, at most one turn that was not *)
(* cancelled is registered, and it is the one activeForThread answers.     *)
THEOREM OneActiveTurn == Spec => []SingleActive
<1>1. Init => SingleActiveInv
  BY InitTyped DEF SingleActiveInv, SingleActive, Init, RegistryInit
<1>2. SingleActiveInv /\ [Next]_vars => SingleActiveInv'
  BY NextTyped, NextSingleActive DEF SingleActiveInv
<1>3. SingleActiveInv => SingleActive
  BY DEF SingleActiveInv
<1> QED BY <1>1, <1>2, <1>3, PTL DEF Spec

-----------------------------------------------------------------------------
(* A settled turn has ended.                                               *)

(* A run that goes on is registered; before turn.started the log does not  *)
(* know the turn; and a run that leaves, or that waits for a cancellation  *)
(* writer that is through, has its terminal event.                         *)
EndedTurn(t) ==
  /\ Running(t) => t \in registered
  /\ pc[t] \in {"none", "registered"} => t \notin started
  /\ pc[t] \in {"settling", "done"} /\ t \in started => terminal[t] # {}
  /\ pc[t] = "aborting" /\ cancelWrite[t] = "idle" => terminal[t] # {}

EndedInv == \A t \in Turn : EndedTurn(t)

(* The registration of a run. *)
LEMMA BeginRunEnded ==
  ASSUME TypeInv, EndedInv, NEW t \in Turn, NEW k, NEW i, BeginRun(t, k, i)
  PROVE  EndedInv'
BY DEF TypeInv, RegistryTypeOK, ExecutionTypeOK, EndedInv, EndedTurn, Running,
       BeginRun, StartTask, threadVars

(* Steps of a run and of its cancellation writer. *)
LEMMA RunnerStepEnded ==
  ASSUME TypeInv, EndedInv, NEW t \in Turn, RunnerStep(t)
  PROVE  EndedInv'
<1> USE DEF TypeInv, RegistryTypeOK, ExecutionTypeOK, EndedInv, EndedTurn, Running, Goto,
            registryVars, threadVars
<1>1. CASE WriteStarted(t)
  BY <1>1 DEF WriteStarted
<1>2. CASE ShellUnavailable(t)
  BY <1>2 DEF ShellUnavailable
<1>3. CASE PublishInput(t)
  BY <1>3 DEF PublishInput, StoreMessage
<1>4. CASE DrainSteers(t)
  BY <1>4 DEF DrainSteers
<1>5. CASE CloseTurn(t) \/ StopByHook(t)
  BY <1>5 DEF CloseTurn, StopByHook, StopAcceptingSteers
<1>6. CASE FinalDrain(t)
  BY <1>6 DEF FinalDrain
<1>7. CASE CompleteTurn(t) \/ CompleteStopped(t) \/ CompleteShell(t) \/ WriteError(t)
  <2>1. /\ pc' = [pc EXCEPT ![t] = "settling"]
        /\ pc[t] \notin {"none", "done"}
        /\ UNCHANGED <<registered, started, cancelWrite>>
    BY <1>7 DEF CompleteTurn, CompleteStopped, CompleteShell, WriteError, StoreTerminal
  <2>2. PICK event \in Terminal : terminal' = [terminal EXCEPT ![t] = @ \cup {event}]
    BY <1>7 DEF CompleteTurn, CompleteStopped, CompleteShell, WriteError, StoreTerminal, Terminal
  <2> QED BY <2>1, <2>2
<1>8. CASE FailTurn(t)
  BY <1>8 DEF FailTurn
<1>9. CASE NoticeAbort(t)
  BY <1>9 DEF NoticeAbort
<1>10. CASE LeaveAborted(t)
  BY <1>10 DEF LeaveAborted
<1>11. CASE CheckTerminal(t)
  BY <1>11 DEF CheckTerminal
<1>12. CASE WriteCancelled(t)
  BY <1>12 DEF WriteCancelled, StoreTerminal
<1> QED
  BY <1>1, <1>2, <1>3, <1>4, <1>5, <1>6, <1>7, <1>8, <1>9, <1>10, <1>11, <1>12
     DEF RunnerStep, Proceed

(* Every step keeps what the log knows of a turn in line with its run. *)
LEMMA NextEnded == TypeInv /\ EndedInv /\ [Next]_vars => EndedInv'
<1> SUFFICES ASSUME TypeInv, EndedInv, [Next]_vars PROVE EndedInv'
  OBVIOUS
<1>a. UNCHANGED <<registered, started, terminal, pc, cancelWrite>> => EndedInv'
  BY DEF EndedInv, EndedTurn, Running
<1>b. ASSUME NEW t, cancelWrite' = [cancelWrite EXCEPT ![t] = "check"],
             UNCHANGED <<registered, started, terminal, pc>>
      PROVE  EndedInv'
  BY <1>b DEF EndedInv, EndedTurn, Running, TypeInv, ExecutionTypeOK
<1>1. CASE UNCHANGED vars
  BY <1>a, <1>1 DEF vars, registryVars, executionVars, threadVars, runVars
<1>2. ASSUME NEW t \in Turn, RunnerStep(t) PROVE EndedInv'
  BY <1>2, RunnerStepEnded
<1>3. ASSUME NEW t \in Turn, SettleRun(t) PROVE EndedInv'
  BY <1>3 DEF SettleRun, EndRun, FinishTask, Goto, threadVars, EndedInv, EndedTurn, Running,
              TypeInv, RegistryTypeOK, ExecutionTypeOK
<1>4. ASSUME ChainStep PROVE EndedInv'
  <2>1. ASSUME NEW t \in Turn, StartDispatched(t) PROVE EndedInv'
    BY <2>1, BeginRunEnded DEF StartDispatched, Register
  <2>2. CASE UNCHANGED <<registered, started, terminal, pc, cancelWrite>>
    BY <1>a, <2>2
  <2> QED BY <1>4, <2>1, <2>2 DEF ChainStep, ObserveDispatched, CreateDispatched, FinalizedTurnSettled, DispatchFails,
     Enqueue, ResumeAfterEnqueue, CheckReorder, StoreReorder, CheckWithdraw, StoreWithdraw, SendNow,
     RecheckSendNow, PublishSendNow, AcceptSteer, StoreMessage, ReadOutcome, PauseAfterInterruption,
     ContinueAfterCompletion, registryVars, executionVars, threadVars, runVars
<1>5. ASSUME NEW i \in Input, CallStep(i) PROVE EndedInv'
  <2>1. ASSUME NEW t \in Turn, StartDirect(i, t) PROVE EndedInv'
    BY <2>1, BeginRunEnded DEF StartDirect, Register
  <2>2. CASE UNCHANGED <<registered, started, terminal, pc, cancelWrite>>
    BY <1>a, <2>2
  <2> QED BY <1>5, <2>1, <2>2 DEF CallStep, LookForActive, LookAtQueue, RedirectToQueue, CreateDirect,
     DirectWaitOver, ObserveDirect, DirectFails, RecheckSteer, PublishSteer, AcceptSteer, StoreMessage,
     registryVars, executionVars, threadVars, runVars
<1>6. ASSUME User PROVE EndedInv'
  <2>1. ASSUME NEW t \in Turn, StartReview(t) \/ StartShell(t) PROVE EndedInv'
    BY <2>1, BeginRunEnded DEF StartReview, StartShell, Register
  <2>2. ASSUME NEW t \in Turn, CancelTurn(t) PROVE EndedInv'
    BY <1>b, <2>2 DEF CancelTurn, AbortTask, threadVars
  <2>3. CASE UNCHANGED <<registered, started, terminal, pc, cancelWrite>>
    BY <1>a, <2>3
  <2> QED BY <1>6, <2>1, <2>2, <2>3 DEF User, StartTurn, StartUnattended, QueueInput, SteerTurn,
     ClickSendNow, ClickWithdraw, Drag, Click, ForceCancel,
     registryVars, executionVars, threadVars, runVars
<1>7. ASSUME BeginDeletion \/ DeletionProgress PROVE EndedInv'
  <2>1. CASE CancelSlot
    BY <1>b, <2>1 DEF CancelSlot, AbortTask, threadVars
  <2>2. CASE UNCHANGED <<registered, started, terminal, pc, cancelWrite>>
    BY <1>a, <2>2
  <2> QED BY <1>7, <2>1, <2>2 DEF BeginDeletion, DeletionProgress, SlotEmpty, CancellationsWritten,
     AdmissionsDrained, DeleteThread, DeletionFails, Refuse, Readmit,
     registryVars, executionVars, threadVars, runVars
<1>8. ASSUME PrepareMigration \/ CancelMigration PROVE EndedInv'
  BY <1>a, <1>8 DEF PrepareMigration, CancelMigration, Refuse, Readmit,
     executionVars, threadVars, runVars
<1>9. ASSUME Restart PROVE EndedInv'
  <2>1. /\ registered' = {}
        /\ started' = started
        /\ terminal' = [t \in Turn |-> IF t \in StaleTurns THEN {"cancelled"} ELSE terminal[t]]
        /\ pc' = [t \in Turn |-> IF pc[t] = "none" THEN "none" ELSE "done"]
        /\ cancelWrite' = [t \in Turn |-> "idle"]
    BY <1>9 DEF Restart
  <2>2. ASSUME NEW t \in Turn PROVE EndedTurn(t)'
    BY <2>1, <2>2 DEF EndedInv, EndedTurn, Running, StaleTurns
  <2> QED BY <2>2 DEF EndedInv
<1>10. ASSUME NEW t \in Turn, WriteForced(t) PROVE EndedInv'
  BY <1>10 DEF WriteForced, StoreTerminal, registryVars, runVars, EndedInv, EndedTurn, Running,
               TypeInv, ExecutionTypeOK
<1>11. ASSUME NEW t \in Turn, ObserveReview(t) PROVE EndedInv'
  BY <1>a, <1>11 DEF ObserveReview, registryVars, executionVars, threadVars, runVars
<1> QED BY <1>1, <1>2, <1>3, <1>4, <1>5, <1>6, <1>7, <1>8, <1>9, <1>10, <1>11 DEF Next

(* The initial state has no turns. *)
LEMMA InitEnded == Init => EndedInv
BY DEF Init, RegistryInit, ExecutionInit, EndedInv, EndedTurn, Running

(* Whatever ends a run - completion, an error, a stop hook, the user, a    *)
(* deletion, or a crash and the settlement of the next start - its done    *)
(* promise never settles before the log holds a terminal event of it.      *)
THEOREM SettledTurnsHaveEnded == Spec => []SettledTurnHasEnded
<1>1. Init => TypeInv /\ EndedInv
  BY InitTyped, InitEnded
<1>2. TypeInv /\ EndedInv /\ [Next]_vars => (TypeInv /\ EndedInv)'
  BY NextTyped, NextEnded
<1>3. TypeInv /\ EndedInv => SettledTurnHasEnded
  BY DEF TypeInv, RegistryTypeOK, ExecutionTypeOK, EndedInv, EndedTurn, SettledTurnHasEnded
<1> QED BY <1>1, <1>2, <1>3, PTL DEF Spec

-----------------------------------------------------------------------------
(* What a thread without admitted calls can still do.                      *)

(* Only an operation the user asked for waits at these awaits; the         *)
(* settlement of a run never does.                                         *)
StepInv ==
  step \in {"resume", "withdraw", "reorder", "steer", "publish"} =>
    Busy /\ Op.do # "settle"

(* Every step keeps a settlement away from the awaits of the user's        *)
(* operations.                                                             *)
LEMMA NextStepInv == TypeInv /\ StepInv /\ [Next]_vars => StepInv'
<1> SUFFICES ASSUME TypeInv, StepInv, [Next]_vars PROVE StepInv'
  OBVIOUS
<1>a. UNCHANGED <<tail, step>> => StepInv'
  BY DEF StepInv, Busy, Op
<1>b. ASSUME NEW op, tail' = Append(tail, op), UNCHANGED step PROVE StepInv'
  <2>1. Busy => Busy' /\ Op' = Op
    BY <1>b DEF Busy, Op, TypeInv, ChainTypeOK
  <2> QED BY <1>b, <2>1 DEF StepInv
<1>c. ASSUME Leave PROVE StepInv'
  BY <1>c DEF Leave, StepInv
<1>d. ASSUME NEW i, NEW p, Dispatch(i, p) PROVE StepInv'
  BY <1>c, <1>d DEF Dispatch, EndOp, Await, StepInv
<1>e. ASSUME NEW s, NEW i, NEW t, Await(s, i, t), Busy, Op.do # "settle" PROVE StepInv'
  BY <1>e DEF Await, StepInv, Busy, Op
<1>1. CASE UNCHANGED vars
  BY <1>a, <1>1 DEF vars, queueVars
<1>2. ASSUME NEW t \in Turn, RunnerStep(t) PROVE StepInv'
  BY <1>a, <1>2 DEF RunnerStep, Proceed, queueVars
<1>3. ASSUME NEW t \in Turn, SettleRun(t) PROVE StepInv'
  BY <1>b, <1>3 DEF SettleRun
<1>4. ASSUME ChainStep PROVE StepInv'
  <2>1. CASE ObserveDispatched \/ DispatchFails \/ StoreReorder \/ StoreWithdraw
             \/ PublishSendNow \/ PauseAfterInterruption
    BY <1>c, <2>1 DEF ObserveDispatched, DispatchFails, StoreReorder, StoreWithdraw, PublishSendNow,
       PauseAfterInterruption, EndOp
  <2>9. CASE \E t \in Turn : StartDispatched(t)
    BY <2>9 DEF StartDispatched, StepInv
  <2>2. CASE CreateDispatched \/ FinalizedTurnSettled
    BY <2>2 DEF CreateDispatched, FinalizedTurnSettled, Await, StepInv
  <2>3. CASE Enqueue
    BY <1>c, <1>e, <2>3 DEF Enqueue, Starts, EndOp
  <2>4. CASE ResumeAfterEnqueue \/ ContinueAfterCompletion
    BY <1>c, <1>d, <2>4 DEF ResumeAfterEnqueue, ContinueAfterCompletion, EndOp
  <2>5. CASE CheckReorder \/ CheckWithdraw
    BY <1>c, <1>e, <2>5 DEF CheckReorder, CheckWithdraw, Starts, EndOp
  <2>6. CASE SendNow
    BY <1>c, <1>d, <1>e, <2>6 DEF SendNow, Starts, EndOp
  <2>7. CASE RecheckSendNow
    BY <1>c, <1>d, <1>e, <2>7 DEF RecheckSendNow, At, StepInv, EndOp
  <2>8. CASE ReadOutcome
    BY <1>c, <2>8 DEF ReadOutcome, Outcome, Await, StepInv, EndOp
  <2> QED BY <1>4, <2>1, <2>2, <2>3, <2>4, <2>5, <2>6, <2>7, <2>8, <2>9 DEF ChainStep
<1>5. ASSUME NEW i \in Input, CallStep(i) PROVE StepInv'
  BY <1>a, <1>b, <1>5 DEF CallStep, LookForActive, LookAtQueue, RedirectToQueue, Add, CreateDirect,
     DirectWaitOver, StartDirect, Register, ObserveDirect, DirectFails, RecheckSteer, PublishSteer, queueVars
<1>6. ASSUME User PROVE StepInv'
  BY <1>a, <1>b, <1>6 DEF User, StartTurn, StartUnattended, QueueInput, Add, SteerTurn, ClickSendNow,
     ClickWithdraw, Drag, Click, CancelTurn, ForceCancel, StartReview, StartShell, queueVars
<1>9. ASSUME NEW t \in Turn, ObserveReview(t) PROVE StepInv'
  BY <1>a, <1>9 DEF ObserveReview
<1>7. ASSUME BeginDeletion \/ DeletionProgress PROVE StepInv'
  BY <1>a, <1>7 DEF BeginDeletion, DeletionProgress, CancelSlot, SlotEmpty, CancellationsWritten,
     AdmissionsDrained, DeleteThread, DeletionFails, Deletion, queueVars
<1>8. ASSUME PrepareMigration \/ CancelMigration \/ Restart \/ \E t \in Turn : WriteForced(t)
      PROVE  StepInv'
  BY <1>a, <1>8 DEF PrepareMigration, CancelMigration, Restart, WriteForced, queueVars, StepInv
<1> QED BY <1>1, <1>2, <1>3, <1>4, <1>5, <1>6, <1>7, <1>8, <1>9 DEF Next

(* The chain of a thread that admits no work and has no call in flight     *)
(* holds settlements only, and none of them starts or stores anything.     *)
LEMMA QuietChain ==
  ASSUME TypeInv, StepInv, ~Admitted, ~AcceptingWork, ChainStep
  PROVE  /\ UNCHANGED <<registryVars, executionVars, withdrawn, request>>
         /\ ~Admitted'
<1>1. /\ \A k \in 1 .. Len(tail) : tail[k].do = "settle"
      /\ step \notin {"create", "wait", "register"}
      /\ \A i \in Input : request[i] \in {"none"} \cup Answer
      /\ \A t \in registered : kind[t] # "user_shell"
      /\ \A t \in unobserved : kind[t] # "review"
  BY DEF Admitted
<1>2. Busy => Op.do = "settle"
  BY <1>1, HeadTailProperties, LenProperties, EmptySeq DEF TypeInv, ChainTypeOK, Busy, Op
<1>3. step \notin {"resume", "withdraw", "reorder", "steer", "publish"}
  BY <1>2 DEF StepInv
<1>4. Busy /\ (ObserveDispatched \/ ReadOutcome \/ PauseAfterInterruption \/ ContinueAfterCompletion)
  BY <1>1, <1>2, <1>3 DEF ChainStep, StartDispatched, Register, ObserveDispatched, CreateDispatched, FinalizedTurnSettled,
     DispatchFails, Enqueue, ResumeAfterEnqueue, CheckReorder, StoreReorder, CheckWithdraw,
     StoreWithdraw, SendNow, RecheckSendNow, PublishSendNow, ReadOutcome, PauseAfterInterruption,
     ContinueAfterCompletion, Starts, At
<1>5. ASSUME NEW i \in Input, Dispatch(i, paused) PROVE EndOp /\ UNCHANGED request
  BY <1>2, <1>4, <1>5 DEF Dispatch, Reply
<1>6. /\ UNCHANGED <<registryVars, executionVars, withdrawn, request>>
      /\ \/ Leave
         \/ step' \in {"completed", "interrupted"} /\ UNCHANGED tail
      /\ unobserved' \subseteq unobserved
  <2>1. CASE ReadOutcome
    BY <2>1 DEF ReadOutcome, EndOp, Await, Outcome
  <2>2. CASE PauseAfterInterruption
    BY <2>2 DEF PauseAfterInterruption, EndOp
  <2>3. CASE ContinueAfterCompletion
    BY <1>5, <2>3 DEF ContinueAfterCompletion, EndOp
  <2>4. CASE ObserveDispatched
    BY <1>2, <2>4 DEF ObserveDispatched, At, Observe, Reply
  <2> QED BY <1>4, <2>1, <2>2, <2>3, <2>4
<1>7. step' \notin {"create", "wait", "register"}
  BY <1>6 DEF Leave
<1>8. \A k \in 1 .. Len(tail') : tail'[k].do = "settle"
  <2>1. CASE UNCHANGED tail
    BY <1>1, <2>1
  <2>2. CASE Leave
    <3>1. tail' = Tail(tail) /\ Len(Tail(tail)) = Len(tail) - 1
          /\ \A k \in 1 .. Len(Tail(tail)) : Tail(tail)[k] = tail[k + 1]
      BY <1>4, <2>2, HeadTailProperties DEF Leave, TypeInv, ChainTypeOK, Busy
    <3>2. Len(tail) \in Nat
      BY LenProperties DEF TypeInv, ChainTypeOK
    <3> QED BY <1>1, <3>1, <3>2
  <2> QED BY <1>6, <2>1, <2>2
<1>9. ~Admitted'
  <2>1. registered' = registered /\ kind' = kind /\ request' = request
    BY <1>6 DEF registryVars, executionVars, runVars
  <2>2. ~\E t \in unobserved : kind[t] = "review"
    BY <1>1 DEF Admitted
  <2>3. unobserved' \subseteq unobserved
    BY <1>6
  <2> QED BY <1>1, <1>7, <1>8, <2>1, <2>2, <2>3 DEF Admitted
<1> QED BY <1>6, <1>9

(* A thread that admits no work, has no call in flight and that nobody     *)
(* reopens: runs end, but nothing starts, is admitted or steered.          *)
LEMMA QuietThread ==
  ASSUME TypeInv, StepInv, ~Admitted, ~AcceptingWork, Next
  PROVE  /\ \/ Restart
            \/ ~Admitted'
         /\ current = NoTurn => current' = NoTurn
<1>a. /\ \A i \in Input : request[i] \in {"none"} \cup Answer
      /\ \A k \in 1 .. Len(tail) : tail[k].do = "settle"
      /\ step \notin {"create", "wait", "register"}
      /\ \A t \in registered : kind[t] # "user_shell"
      /\ \A t \in unobserved : kind[t] # "review"
  BY DEF Admitted
<1>b. ASSUME UNCHANGED <<tail, step, request, kind>>, registered' \subseteq registered,
             unobserved' \subseteq unobserved, UNCHANGED current
      PROVE  ~Admitted' /\ (current = NoTurn => current' = NoTurn)
  BY <1>a, <1>b DEF Admitted
<1>1. ASSUME User PROVE \E t \in Turn : CancelTurn(t) \/ ForceCancel(t)
  BY <1>1 DEF User, StartTurn, StartUnattended, QueueInput, SteerTurn, ClickSendNow,
     ClickWithdraw, Drag, Click, StartReview, StartShell, OtherAllowed
<1>2. ASSUME NEW t \in Turn, CancelTurn(t) \/ ForceCancel(t)
      PROVE  ~Admitted' /\ (current = NoTurn => current' = NoTurn)
  BY <1>b, <1>2 DEF CancelTurn, ForceCancel, AbortTask, registryVars, executionVars, runVars, queueVars
<1>3. ASSUME NEW t \in Turn, RunnerStep(t)
      PROVE  ~Admitted' /\ (current = NoTurn => current' = NoTurn)
  <2>1. UNCHANGED <<tail, step, request, kind, registered, unobserved, current>>
    BY <1>3 DEF RunnerStep, Proceed, WriteStarted, ShellUnavailable, PublishInput, DrainSteers,
       CloseTurn, FinalDrain, CompleteTurn, StopByHook, CompleteStopped, CompleteShell, FailTurn,
       WriteError, NoticeAbort, LeaveAborted, CheckTerminal, WriteCancelled, StopAcceptingSteers,
       registryVars, queueVars
  <2> QED BY <1>b, <2>1
<1>4. ASSUME NEW t \in Turn, SettleRun(t)
      PROVE  ~Admitted' /\ (current = NoTurn => current' = NoTurn)
  <2>1. /\ tail' = Append(tail, SettleOp(t))
        /\ registered' \subseteq registered
        /\ current = NoTurn => current' = NoTurn
        /\ UNCHANGED <<step, request, kind, unobserved>>
    BY <1>4 DEF SettleRun, EndRun, FinishTask
  <2>2. \A k \in 1 .. Len(tail') : tail'[k].do = "settle"
    <3>1. SettleOp(t) \in Operation /\ SettleOp(t).do = "settle"
      BY EmptySeq DEF SettleOp, Operation
    <3>2. /\ Len(tail') = Len(tail) + 1
          /\ \A k \in 1 .. Len(tail) : tail'[k] = tail[k]
          /\ tail'[Len(tail) + 1] = SettleOp(t)
          /\ Len(tail) \in Nat
      BY <2>1, <3>1, AppendProperties, LenProperties DEF TypeInv, ChainTypeOK
    <3> QED BY <1>a, <3>1, <3>2
  <2> QED BY <1>a, <2>1, <2>2 DEF Admitted
<1>5. ASSUME NEW t \in Turn, WriteForced(t)
      PROVE  ~Admitted' /\ (current = NoTurn => current' = NoTurn)
  BY <1>b, <1>5 DEF WriteForced, registryVars, runVars, queueVars
<1>6. ASSUME ChainStep
      PROVE  ~Admitted' /\ (current = NoTurn => current' = NoTurn)
  BY <1>6, QuietChain DEF registryVars
<1>7. ASSUME NEW i \in Input PROVE ~CallStep(i)
  BY <1>a DEF CallStep, LookForActive, LookAtQueue, RedirectToQueue, CreateDirect, DirectWaitOver,
     StartDirect, Register, ObserveDirect, DirectFails, RecheckSteer, PublishSteer, Ask, Answer
<1>8. ASSUME BeginDeletion \/ DeletionProgress \/ PrepareMigration \/ CancelMigration
      PROVE  ~Admitted' /\ (current = NoTurn => current' = NoTurn)
  BY <1>b, <1>8 DEF BeginDeletion, DeletionProgress, CancelSlot, SlotEmpty, CancellationsWritten,
     AdmissionsDrained, DeleteThread, DeletionFails, Deletion, PrepareMigration, CancelMigration,
     Refuse, Readmit, AbortTask, registryVars, executionVars, runVars, queueVars
<1>9. ASSUME Restart PROVE current' = NoTurn
  BY <1>9 DEF Restart
<1>10. ASSUME NEW t \in Turn PROVE ~ObserveReview(t)
  BY <1>a DEF ObserveReview
<1> QED BY <1>1, <1>2, <1>3, <1>4, <1>5, <1>6, <1>7, <1>8, <1>9, <1>10 DEF Next

-----------------------------------------------------------------------------
(* The deletion barrier.                                                   *)

(* Who closes a thread and who opens it again. *)
LEMMA WhoCloses ==
  Next => UNCHANGED closed \/ BeginDeletion \/ DeletionFails \/ PrepareMigration
          \/ CancelMigration \/ Restart
BY DEF Next, User, RunnerStep, Proceed, ChainStep, CallStep, DeletionProgress,
   StartTurn, StartUnattended, QueueInput, SteerTurn, ClickSendNow, ClickWithdraw, Drag,
   Click, CancelTurn, ForceCancel, StartReview, StartShell, Register, WriteStarted, ShellUnavailable, PublishInput,
   DrainSteers, CloseTurn, FinalDrain, CompleteTurn, StopByHook, CompleteStopped,
   CompleteShell, FailTurn, WriteError, NoticeAbort, LeaveAborted, CheckTerminal,
   WriteCancelled, SettleRun, EndRun, ObserveReview, WriteForced, StartDispatched, Register, ObserveDispatched, CreateDispatched,
   FinalizedTurnSettled, DispatchFails, Enqueue, ResumeAfterEnqueue, CheckReorder,
   StoreReorder, CheckWithdraw, StoreWithdraw, SendNow, RecheckSendNow, PublishSendNow,
   ReadOutcome, PauseAfterInterruption, ContinueAfterCompletion, LookForActive, LookAtQueue,
   RedirectToQueue, CreateDirect, DirectWaitOver, StartDirect, Register, ObserveDirect, DirectFails, RecheckSteer,
   PublishSteer, CancelSlot, SlotEmpty, CancellationsWritten, AdmissionsDrained,
   DeleteThread, BeginRun, StartTask, FinishTask, AbortTask, StopAcceptingSteers,
   registryVars

(* The thread is closed from the first step of the barrier on; once the    *)
(* admitted calls have drained none comes back, and once the slot was seen *)
(* empty after that, no turn takes it any more.                            *)
DeletionInv ==
  /\ deletion # "none" => "deleting" \in closed
  /\ deletion \in {"cancel again", "writes again", "operation", "deleted"} => ~Admitted
  /\ deletion \in {"writes again", "operation", "deleted"} => current = NoTurn

(* Every step keeps what the barrier has established: by a step of its own *)
(* it moves on, by any other step of a quiet thread nothing comes back.    *)
LEMMA NextDeletion == TypeInv /\ StepInv /\ DeletionInv /\ [Next]_vars => DeletionInv'
<1> SUFFICES ASSUME TypeInv, StepInv, DeletionInv, [Next]_vars PROVE DeletionInv'
  OBVIOUS
<1>1. CASE UNCHANGED vars
  BY <1>1 DEF vars, registryVars, executionVars, runVars, queueVars, DeletionInv, Admitted
<1>2. CASE Next /\ deletion' = deletion /\ ~Restart
  <2>1. deletion # "none" => "deleting" \in closed'
    <3>1. CASE closed' = closed
      BY <3>1 DEF DeletionInv
    <3>2. CASE closed' # closed
      <4>1. PrepareMigration \/ CancelMigration
        <5>1. UNCHANGED closed \/ BeginDeletion \/ DeletionFails \/ PrepareMigration \/ CancelMigration
          BY <1>2, WhoCloses
        <5>2. ~BeginDeletion /\ ~DeletionFails
          BY <1>2 DEF BeginDeletion, DeletionFails, Deletion
        <5> QED BY <3>2, <5>1, <5>2
      <4> QED BY <4>1 DEF PrepareMigration, CancelMigration, Refuse, Readmit, DeletionInv
    <3> QED BY <3>1, <3>2
  <2>2. ASSUME deletion \in {"cancel again", "writes again", "operation", "deleted"}
        PROVE  ~Admitted' /\ (current = NoTurn => current' = NoTurn)
    <3>1. ~Admitted /\ ~AcceptingWork
      BY <2>2 DEF DeletionInv, AcceptingWork
    <3> QED BY <1>2, <3>1, QuietThread
  <2> QED BY <1>2, <2>1, <2>2 DEF DeletionInv
<1>3. CASE Next /\ deletion' # deletion /\ ~Restart
  <2>1. BeginDeletion \/ DeletionProgress
    BY <1>3 DEF Next, User, RunnerStep, Proceed, ChainStep, CallStep, StartTurn, StartUnattended,
       QueueInput, SteerTurn, ClickSendNow, ClickWithdraw, Drag, Click, CancelTurn, ForceCancel,
       StartReview, StartShell, ObserveReview, WriteForced, LookForActive, LookAtQueue, RedirectToQueue, CreateDirect,
       DirectWaitOver, StartDirect, Register, ObserveDirect, DirectFails, RecheckSteer, PublishSteer, Ask, PrepareMigration,
       CancelMigration, idleDriver
  <2>2. CASE BeginDeletion
    BY <2>2 DEF BeginDeletion, Deletion, Refuse, DeletionInv
  <2>3. CASE CancelSlot
    BY <1>3, <2>3 DEF CancelSlot, idleDriver
  <2>4. CASE SlotEmpty \/ CancellationsWritten \/ AdmissionsDrained \/ DeleteThread
    <3>1. UNCHANGED <<registryVars, executionVars, queueVars, request>>
      BY <2>4 DEF SlotEmpty, CancellationsWritten, AdmissionsDrained, DeleteThread, Deletion
    <3>2. Admitted' = Admitted /\ current' = current /\ closed' = closed
      BY <3>1 DEF registryVars, executionVars, runVars, queueVars, Admitted
    <3> QED BY <2>4, <3>2 DEF SlotEmpty, CancellationsWritten, AdmissionsDrained, DeleteThread,
               Deletion, DeletionInv
  <2>5. CASE DeletionFails
    BY <2>5 DEF DeletionFails, Deletion, DeletionInv
  <2> QED BY <2>1, <2>2, <2>3, <2>4, <2>5 DEF DeletionProgress
<1>4. CASE Restart
  BY <1>4 DEF Restart, DeletionInv
<1> QED BY <1>1, <1>2, <1>3, <1>4

(* When withThreadDeletionBarrier runs the deletion, the slot is empty, no *)
(* call is admitted, and the runs that are left were cancelled: nothing    *)
(* the user asked for can still start or change a turn of the thread.      *)
THEOREM DeletionFindsThreadDrained == Spec => []DeletionHasDrained
<1> DEFINE Inv == SingleActiveInv /\ StepInv /\ DeletionInv
<1>1. Init => Inv
  BY InitTyped DEF Init, RegistryInit, QueueInit, SingleActiveInv, SingleActive, StepInv, DeletionInv
<1>2. Inv /\ [Next]_vars => Inv'
  BY NextTyped, NextSingleActive, NextStepInv, NextDeletion DEF SingleActiveInv
<1>3. Inv => DeletionHasDrained
  BY NoTurnAssumption DEF SingleActiveInv, TypeInv, RegistryTypeOK, SingleActive, DeletionInv,
     DeletionHasDrained
<1> QED BY <1>1, <1>2, <1>3, PTL DEF Spec

-----------------------------------------------------------------------------
(* The snapshot of a data migration.                                       *)

(* While a migration is prepared the thread has no run, no admitted call,  *)
(* no cancellation that waits for its event and no deletion.               *)
MigrationInv ==
  "migrating" \in closed => registered = {} /\ ~Admitted /\ ~RequestsInFlight

(* In a thread that is prepared for a migration only the chain still       *)
(* moves, and it stores nothing, until the migration is cancelled or the   *)
(* process restarts.                                                       *)
LEMMA PreparedThread ==
  ASSUME TypeInv, EndedInv, StepInv, MigrationInv, "migrating" \in closed, Next
  PROVE  \/ "migrating" \notin closed'
         \/ /\ UNCHANGED <<registryVars, executionVars, withdrawn, deletion, forced>>
            /\ ~Admitted'
<1>1. /\ registered = {} /\ ~Admitted /\ ~AcceptingWork
      /\ deletion = "none" /\ forced = {}
      /\ \A t \in Turn : cancelWrite[t] = "idle"
  BY DEF MigrationInv, RequestsInFlight, AcceptingWork
<1>2. /\ \A t \in Turn : ~Running(t)
      /\ StaleTurns = {}
  BY <1>1 DEF EndedInv, EndedTurn, Running, StaleTurns, TypeInv, RegistryTypeOK, ExecutionTypeOK
<1>3. \A i \in Input : request[i] \in {"none"} \cup Answer
  BY <1>1 DEF Admitted
<1>4. ~User
  BY <1>1, <1>2 DEF User, StartTurn, StartUnattended, QueueInput, SteerTurn, ClickSendNow,
     ClickWithdraw, Drag, Click, CancelTurn, Cancellable, ForceCancel, StartReview, StartShell, OtherAllowed
<1>5. ASSUME NEW t \in Turn PROVE ~RunnerStep(t) /\ ~SettleRun(t)
  <2>1. pc[t] \in {"none", "done"} /\ cancelWrite[t] = "idle"
    BY <1>1, <1>2 DEF Running
  <2> QED BY <2>1 DEF RunnerStep, Proceed, Goto, WriteStarted, ShellUnavailable, PublishInput,
     DrainSteers, CloseTurn, FinalDrain, CompleteTurn, StopByHook, CompleteStopped, CompleteShell,
     FailTurn, WriteError, NoticeAbort, LeaveAborted, CheckTerminal, WriteCancelled, SettleRun, EndRun
<1>6. ASSUME NEW i \in Input PROVE ~CallStep(i)
  BY <1>3 DEF CallStep, LookForActive, LookAtQueue, RedirectToQueue, CreateDirect, DirectWaitOver,
     StartDirect, Register, ObserveDirect, DirectFails, RecheckSteer, PublishSteer, Ask, Answer
<1>7. ~BeginDeletion /\ ~DeletionProgress
  BY <1>1 DEF BeginDeletion, DeletionProgress, CancelSlot, SlotEmpty, CancellationsWritten,
     AdmissionsDrained, DeleteThread, DeletionFails, Deletion
<1>8. ASSUME NEW t \in Turn PROVE ~WriteForced(t)
  BY <1>1 DEF WriteForced
<1>9. CASE ChainStep
  BY <1>1, <1>9, QuietChain DEF ChainStep, idleDriver
<1>10. CASE PrepareMigration
  BY <1>10 DEF PrepareMigration
<1>11. CASE CancelMigration \/ Restart
  BY <1>11 DEF CancelMigration, Readmit, Restart
<1>12. ASSUME NEW t \in Turn PROVE ~ObserveReview(t)
  BY <1>1 DEF Admitted, ObserveReview
<1> QED BY <1>4, <1>5, <1>6, <1>7, <1>8, <1>9, <1>10, <1>11, <1>12 DEF Next

(* A step that leaves a migration prepared leaves the thread as it is. *)
LEMMA NextMigration ==
  TypeInv /\ EndedInv /\ StepInv /\ MigrationInv /\ [Next]_vars => MigrationInv'
<1> SUFFICES ASSUME TypeInv, EndedInv, StepInv, MigrationInv, [Next]_vars,
                    "migrating" \in closed'
             PROVE  registered' = {} /\ ~Admitted' /\ ~RequestsInFlight'
  BY DEF MigrationInv
<1>1. CASE UNCHANGED vars
  BY <1>1 DEF vars, registryVars, executionVars, runVars, queueVars, MigrationInv, Admitted,
              RequestsInFlight
<1>2. CASE Next /\ "migrating" \in closed
  <2>1. UNCHANGED <<registryVars, executionVars, withdrawn, deletion, forced>> /\ ~Admitted'
    BY <1>2, PreparedThread
  <2> QED BY <1>2, <2>1 DEF MigrationInv, RequestsInFlight, registryVars, executionVars, runVars
<1>3. CASE Next /\ "migrating" \notin closed
  <2>1. PrepareMigration
    <3>1. UNCHANGED closed \/ BeginDeletion \/ DeletionFails \/ PrepareMigration \/ CancelMigration
          \/ Restart
      BY <1>3, WhoCloses
    <3>2. ~BeginDeletion /\ ~DeletionFails /\ ~CancelMigration /\ ~Restart
      BY <1>3 DEF BeginDeletion, DeletionFails, CancelMigration, Restart, Refuse, Readmit
    <3> QED BY <1>3, <3>1, <3>2
  <2>2. /\ registered = {} /\ ~Admitted /\ ~RequestsInFlight
        /\ UNCHANGED <<registered, executionVars, queueVars, request, idleDriver>>
    BY <2>1 DEF PrepareMigration, Quiescent, Refuse
  <2> QED BY <2>2 DEF Admitted, RequestsInFlight, executionVars, runVars, queueVars, idleDriver
<1> QED BY <1>1, <1>2, <1>3

(* From the moment prepareDataMigration has answered until the migration   *)
(* is cancelled or the process is gone, no step of the thread changes what *)
(* the copy reads: its history, its queue and its withdrawals.             *)
THEOREM MigrationSnapshotIsStable == Spec => MigrationFreezesThread
<1> DEFINE Inv == TypeInv /\ EndedInv /\ StepInv /\ MigrationInv
<1>1. Init => Inv
  BY InitTyped, InitEnded DEF Init, RegistryInit, QueueInit, StepInv, MigrationInv
<1>2. Inv /\ [Next]_vars => Inv'
  BY NextTyped, NextEnded, NextStepInv, NextMigration
<1>3. Inv /\ [Next]_vars =>
        [{"migrating"} \subseteq closed \cap closed' => UNCHANGED <<threadVars, withdrawn>>]_vars
  <2> SUFFICES ASSUME Inv, Next, "migrating" \in closed, "migrating" \in closed'
               PROVE  UNCHANGED <<threadVars, withdrawn>>
    OBVIOUS
  <2> QED BY PreparedThread DEF executionVars
<1> QED BY <1>1, <1>2, <1>3, PTL DEF Spec, MigrationFreezesThread

=============================================================================
