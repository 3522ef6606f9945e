---------------------------- MODULE TurnExecution ----------------------------
(***************************************************************************)
(* The run of a turn: RuntimeAgentTurnRunner.run from turn.started to the  *)
(* settlement of its done promise, RuntimeTurnFinalizer.finish,            *)
(* RuntimeTurnInputQueue (the steers the turn accepted while it ran) and   *)
(* RuntimeTurnTerminationCoordinator (the cancellation writer).            *)
(*                                                                         *)
(* A step is what runs between two awaits.  An append to the event log is  *)
(* one step, taken when the event becomes durable.  What the model says    *)
(* and which tools run is abstracted to "the loop goes on or ends".        *)
(***************************************************************************)
EXTENDS TurnTaskRegistry, Sequences

CONSTANTS
  Input,     \* ids of what the user sends
  NoInput    \* a turn that publishes no user message of the queue

ASSUME NoInputAssumption == NoInput \notin Input

VARIABLES
  \* persisted: projections of the thread's event log
  queue,       \* RuntimeThread.queuedTurnInputs
  publishedIn, \* input -> the turns of its message.created events, in order
  started,     \* the turns with a turn.started event
  terminal,    \* turn -> its stored terminal events
  \* in memory: the run
  pc,          \* where the runner of each turn is
  kind,        \* taskKind
  source,      \* the input the turn was started for
  steers,      \* inputQueue.pending: accepted, not yet given to the model
  writers,     \* the steer writes in flight (writesInFlight)
  cancelWrite  \* pendingTerminalWrites: the cancellation writer of each turn

threadVars == <<queue, publishedIn, started, terminal>>
runVars == <<pc, kind, source, steers, writers, cancelWrite>>
executionVars == <<threadVars, runVars>>

Kind == {"regular", "review", "user_shell"}
Terminal == {"completed", "cancelled", "error"}
PC == {"none", "registered", "started", "running", "closing", "finalizing",
       "stopping", "failing", "aborting", "settling", "done"}

(* runtimeTaskSupportsSteering, over the kinds modelled here. *)
Steerable(k) == k \in {"regular", "review"}

Elems(seq) == {seq[j] : j \in 1 .. Len(seq)}
Position(seq, x) == CHOOSE j \in 1 .. Len(seq) : seq[j] = x

ExecutionTypeOK ==
  /\ queue \in Seq(Input)
  /\ publishedIn \in [Input -> Seq(Turn)]
  /\ started \subseteq Turn
  /\ terminal \in [Turn -> SUBSET Terminal]
  /\ pc \in [Turn -> PC]
  /\ kind \in [Turn -> Kind]
  /\ source \in [Turn -> Input \cup {NoInput}]
  /\ steers \in [Turn -> SUBSET Input]
  /\ writers \in [Turn -> SUBSET Input]
  /\ cancelWrite \in [Turn -> {"idle", "check", "recheck", "append"}]

ExecutionInit ==
  /\ queue = <<>>
  /\ publishedIn = [i \in Input |-> <<>>]
  /\ started = {}
  /\ terminal = [t \in Turn |-> {}]
  /\ pc = [t \in Turn |-> "none"]
  /\ kind = [t \in Turn |-> "regular"]
  /\ source = [t \in Turn |-> NoInput]
  /\ steers = [t \in Turn |-> {}]
  /\ writers = [t \in Turn |-> {}]
  /\ cancelWrite = [t \in Turn |-> "idle"]

(* The turns whose run goes on; they leave tasksByKey only when it settles. *)
Running(t) == pc[t] \notin {"none", "done"}

-----------------------------------------------------------------------------
(* The thread's projection of the event log (contracts/thread-events.ts).  *)

(* The filter of message.created and turn.input_deleted.  Ids are unique in *)
(* the queue, so the filter removes at most one position.                   *)
Without_DropsHead(seq, i) == IF seq = <<>> THEN seq ELSE Tail(seq)
Without(seq, i) ==
  IF i \in Elems(seq)
    THEN LET k == Position(seq, i)
         IN  [j \in 1 .. Len(seq) - 1 |-> IF j < k THEN seq[j] ELSE seq[j + 1]]
    ELSE seq

(* turn.inputs_reordered sorts, by the order of the event, what is queued   *)
(* now; the sort is stable and inputs the event does not name go last.      *)
Precedes(seq, order, a, b) ==
  IF a \in Elems(order)
    THEN b \in Elems(order) => Position(order, a) < Position(order, b)
    ELSE b \notin Elems(order) /\ Position(seq, a) < Position(seq, b)

Sorted(new, seq, order) ==
  /\ Elems(new) = Elems(seq)
  /\ \A j, k \in 1 .. Len(new) : j < k => Precedes(seq, order, new[j], new[k])

(* message.created, with queuedInputId when the input waits in the queue. *)
StoreMessage_KeepsQueued(i, t) ==
  /\ publishedIn' = [publishedIn EXCEPT ![i] = Append(@, t)]
  /\ UNCHANGED <<queue, started, terminal>>
StoreMessage(i, t) ==
  /\ publishedIn' = [publishedIn EXCEPT ![i] = Append(@, t)]
  /\ queue' = Without(queue, i)
  /\ UNCHANGED <<started, terminal>>

StoreTerminal(t, event) ==
  /\ terminal' = [terminal EXCEPT ![t] = @ \cup {event}]
  /\ UNCHANGED <<queue, publishedIn, started>>

-----------------------------------------------------------------------------
(* Registration and the runner.                                            *)

(* turnTasks.run: start() and the synchronous first part of the runner. *)
BeginRun(t, k, i) ==
  /\ CanStart
  /\ pc[t] = "none"
  /\ StartTask(t, Steerable(k))
  /\ pc' = [pc EXCEPT ![t] = "registered"]
  /\ kind' = [kind EXCEPT ![t] = k]
  /\ source' = [source EXCEPT ![t] = i]
  /\ UNCHANGED <<threadVars, steers, writers, cancelWrite>>

Goto(t, from, to) ==
  /\ pc[t] \in from
  /\ pc' = [pc EXCEPT ![t] = to]

(* turn.started is durable. *)
WriteStarted(t) ==
  /\ Goto(t, {"registered"}, "started")
  /\ started' = started \cup {t}
  /\ UNCHANGED <<registryVars, queue, publishedIn, terminal,
                 kind, source, steers, writers, cancelWrite>>

(* The environment of a shell command cannot be resolved: the run rejects  *)
(* before it stored anything.                                              *)
ShellUnavailable(t) ==
  /\ kind[t] = "user_shell"
  /\ Goto(t, {"registered"}, "settling")
  /\ UNCHANGED <<registryVars, threadVars, kind, source, steers, writers, cancelWrite>>

(* The user message of the turn; nothing here looks at the abort signal. *)
PublishInput(t) ==
  /\ Goto(t, {"started"}, "running")
  /\ IF source[t] = NoInput THEN UNCHANGED threadVars
                            ELSE StoreMessage(source[t], t)
  /\ UNCHANGED <<registryVars, kind, source, steers, writers, cancelWrite>>

(* drainSteers: waits for the writes of the active turn, then takes what   *)
(* they queued; for a turn that is not active it takes nothing.            *)
CanDrain_SkipsWait(t) == TRUE
CanDrain(t) == ActiveTurn = t => writers[t] = {}
Drained(t) == IF ActiveTurn = t THEN steers[t] ELSE {}

(* The top of the loop: steers join the conversation of the next sample. *)
DrainSteers(t) ==
  /\ pc[t] = "running"
  /\ Steerable(kind[t])
  /\ CanDrain(t)
  /\ Drained(t) # {}
  /\ steers' = [steers EXCEPT ![t] = @ \ Drained(t)]
  /\ UNCHANGED <<registryVars, threadVars, pc, kind, source, writers, cancelWrite>>

(* No tool call, child or stop hook keeps the turn going: admission closes *)
(* before the last drain.                                                  *)
CloseTurn(t) ==
  /\ Steerable(kind[t])
  /\ Goto(t, {"running"}, "closing")
  /\ StopAcceptingSteers(t)
  /\ UNCHANGED <<threadVars, kind, source, steers, writers, cancelWrite>>

(* The last drain: input accepted before the close reopens the turn. *)
FinalDrain(t) ==
  /\ CanDrain(t)
  /\ IF Drained(t) # {}
       THEN /\ Goto(t, {"closing"}, "running")
            /\ steers' = [steers EXCEPT ![t] = @ \ Drained(t)]
            /\ accepting' = accepting \cup {t}
       ELSE /\ Goto(t, {"closing"}, "finalizing")
            /\ UNCHANGED <<steers, accepting>>
  /\ UNCHANGED <<registered, current, aborted, closed, threadVars,
                 kind, source, writers, cancelWrite>>

(* RuntimeTurnFinalizer.finish: no check of the abort signal, and          *)
(* turn.completed is appended whatever terminal event is already stored.   *)
CompleteTurn(t) ==
  /\ Goto(t, {"finalizing"}, "settling")
  /\ StoreTerminal(t, "completed")
  /\ UNCHANGED <<registryVars, kind, source, steers, writers, cancelWrite>>

(* A hook stops the turn: it completes without another drain. *)
StopByHook(t) ==
  /\ Steerable(kind[t])
  /\ Goto(t, {"running"}, "stopping")
  /\ StopAcceptingSteers(t)
  /\ UNCHANGED <<threadVars, kind, source, steers, writers, cancelWrite>>

CompleteStopped(t) ==
  /\ Goto(t, {"stopping"}, "settling")
  /\ StoreTerminal(t, "completed")
  /\ UNCHANGED <<registryVars, kind, source, steers, writers, cancelWrite>>

(* RuntimeUserShellRunner: the command ended, with whatever exit status. *)
CompleteShell(t) ==
  /\ kind[t] = "user_shell"
  /\ Goto(t, {"running"}, "settling")
  /\ StoreTerminal(t, "completed")
  /\ UNCHANGED <<registryVars, kind, source, steers, writers, cancelWrite>>

(* An error that is neither a hook stop nor an abort. *)
FailTurn(t) ==
  /\ Steerable(kind[t])
  /\ Goto(t, {"running", "closing", "finalizing"}, "failing")
  /\ UNCHANGED <<registryVars, threadVars, kind, source, steers, writers, cancelWrite>>

WriteError(t) ==
  /\ Goto(t, {"failing"}, "settling")
  /\ StoreTerminal(t, "error")
  /\ UNCHANGED <<registryVars, kind, source, steers, writers, cancelWrite>>

(* The run notices the abort signal: publishCancelledOnce joins the write  *)
(* already pending for the turn, or starts one.                            *)
NoticeAbort(t) ==
  /\ t \in aborted
  /\ Goto(t, {"running", "closing"}, "aborting")
  /\ cancelWrite' = [cancelWrite EXCEPT ![t] = IF @ = "idle" THEN "check" ELSE @]
  /\ UNCHANGED <<registryVars, threadVars, kind, source, steers, writers>>

LeaveAborted_SkipsWait(t) ==
  /\ Goto(t, {"aborting"}, "settling")
  /\ UNCHANGED <<registryVars, threadVars, kind, source, steers, writers, cancelWrite>>
LeaveAborted(t) ==
  /\ cancelWrite[t] = "idle"
  /\ Goto(t, {"aborting"}, "settling")
  /\ UNCHANGED <<registryVars, threadVars, kind, source, steers, writers, cancelWrite>>

(* The cleanup of the finally block is over: finish() runs and the done    *)
(* promise settles.                                                        *)
EndRun(t) ==
  /\ Goto(t, {"settling"}, "done")
  /\ FinishTask(t)
  /\ UNCHANGED <<threadVars, kind, source, steers, writers, cancelWrite>>

-----------------------------------------------------------------------------
(* The cancellation writer.                                                *)

(* hasTerminalEvent, read twice: before and after the aborted marker. *)
CheckTerminal(t) ==
  /\ cancelWrite[t] \in {"check", "recheck"}
  /\ cancelWrite' = [cancelWrite EXCEPT ![t] =
                       IF terminal[t] # {} THEN "idle"
                       ELSE IF @ = "check" THEN "recheck" ELSE "append"]
  /\ UNCHANGED <<registryVars, threadVars, pc, kind, source, steers, writers>>

WriteCancelled(t) ==
  /\ cancelWrite[t] = "append"
  /\ cancelWrite' = [cancelWrite EXCEPT ![t] = "idle"]
  /\ StoreTerminal(t, "cancelled")
  /\ UNCHANGED <<registryVars, pc, kind, source, steers, writers>>

=============================================================================
