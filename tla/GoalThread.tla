----------------------------- MODULE GoalThread -----------------------------
(***************************************************************************)
(* What the Goal feature of one thread keeps and what happens around it:   *)
(* users who edit, pause, clear, resume, cancel and send, the send queue   *)
(* and the life of the turns.  GoalFeature adds the coordinator.           *)
(*                                                                         *)
(* The send queue (QueuedTurns) is reduced to one waiting input, and the   *)
(* life of a turn (TurnExecution) to what the goal sees of it: its         *)
(* terminal events, its tools and the moment its promise settles.          *)
(***************************************************************************)
EXTENDS TurnTaskRegistry, GoalState, Sequences

CONSTANTS
  MaxSpent,      \* bound on what users do, deletions, restarts and failures
  Failures,      \* whether a write or the start of a turn may fail for its own reasons
  Commands       \* whether users run shell commands and compactions

ASSUME GoalBounds == MaxSpent \in Nat /\ {Failures, Commands} \subseteq BOOLEAN

GoalType ==
  [id: Nat \ {0}, objective: Objective, status: Status, mark: Nat,
   automatic: 0..MaxAutomatic, idle: 0..MaxIdle, byUser: BOOLEAN]

ASSUME NullAssumption == NoGoal \notin GoalType

VARIABLES
  goal,          \* the last state-replaced event, or NoGoal
  lastGoal,      \* the goal ids handed out
  receipt,       \* the last verification-recorded event that still stands
  ask,           \* turn -> its update_goal call
  ended,         \* the terminal events of the log, as the turns they end
  terminal,      \* turn -> its last terminal event, until it has settled
  startedUnder,  \* turn -> the goal when its turn.started was stored (0: none)
  phase,         \* turn -> where it is in its life
  goalTurns,     \* the turns whose task kind is goal
  commandTurns,  \* the turns whose task kind is user_shell or compact
  bound,         \* goalIdByTurnId and goalObjectiveByTurnId
  completing,    \* pendingCompletionGoalIdByTurnId (0: none)
  retired,       \* retiredGoalIds
  superseded,    \* supersededGoalTurnIds
  ops,           \* mutationTails: the operations of the chain
  step,          \* where the head of the chain is
  scheduling,    \* scheduling
  loose,         \* the continueIfIdle of finishThreadDeletion, outside the chain
  looseGoal,     \* the goal it read
  cancelling,    \* cancelTurn calls that are past pauseForCancellation
  queued,        \* queuedTurnInputs: "none", "message", or a goal's objective
  queuePaused,   \* pausedThreads of the send queue
  charged,       \* history: turn -> how often its usage was charged to a goal
  unattended,    \* history: automatic turns since the last intervention
  uncounted,     \* history: settlements of an active goal that were skipped, failed or are
                 \* still due when the next turn starts
  sound,         \* history: turns whose verification nothing has overtaken, up to the
                 \* moment their settlement decides
  unserialized,  \* history: turns the loose continuation started
  orphaned,      \* history: turns whose goal another turn's create_goal replaced
  spent          \* the bound used up

goalVars == <<goal, lastGoal, receipt, ask, sound>>
turnVars == <<registryVars, terminal, ended, startedUnder, phase, goalTurns, commandTurns>>
mapVars == <<bound, completing, retired, superseded>>
chainVars == <<ops, step, scheduling>>
looseVars == <<loose, looseGoal, unserialized, orphaned>>
userVars == <<cancelling, queued, queuePaused>>
countVars == <<charged, unattended, uncounted, spent>>

vars == <<goalVars, turnVars, mapVars, chainVars, looseVars, userVars, countVars>>

Terminal == {"none", "completed", "cancelled", "error"}
Live == {"running", "asking", "closing", "ended"}
Phase == {"unused", "done", "settling", "settled"} \cup Live
Unbound == [goal |-> 0, objective |-> Keep]
Asking(stage) ==
  [stage |-> stage, goal |-> 0, objective |-> Keep, fresh |-> FALSE, changed |-> FALSE,
   untouched |-> FALSE, passed |-> FALSE, attempt |-> 0]
NoAsk == Asking("none")
Judged(t) == ask[t].stage \in {"verifying", "committing"}

(* The goal, the log, the maps and the chain keep their types; what the    *)
(* coordinator remembers of a turn is forgotten once the turn has settled, *)
(* a receipt belongs to the goal, a turn waits for its tool exactly while  *)
(* an update_goal or create_goal call is under way, and no turn settles    *)
(* without a terminal event.                                               *)
TypeOK ==
  /\ RegistryTypeOK
  /\ goal \in GoalType \cup {NoGoal} /\ lastGoal \in Nat
  /\ goal # NoGoal => goal.id <= lastGoal /\ goal.mark <= Len(ended)
  /\ receipt # NoReceipt =>
       goal # NoGoal /\ receipt.goal = goal.id /\ receipt.objective = goal.objective
  /\ ended \in Seq(Turn)
  /\ terminal \in [Turn -> Terminal]
  /\ phase \in [Turn -> Phase]
  /\ bound \in [Turn -> [goal: 0..lastGoal, objective: Objective \cup {Keep}]]
  /\ completing \in [Turn -> 0..lastGoal]
  /\ retired \subseteq 1..lastGoal
  /\ \A t \in Turn:
       /\ phase[t] \in {"unused", "settled"} => bound[t] = Unbound /\ completing[t] = 0
       /\ (phase[t] = "asking") = (ask[t].stage # "none")
       /\ (t \in registered) = (phase[t] \in Live)
       /\ phase[t] \in {"ended", "done", "settling"} => terminal[t] # "none"
  /\ step # "begin" => ops # <<>>

Init ==
  /\ RegistryInit
  /\ goal = NoGoal /\ lastGoal = 0 /\ receipt = NoReceipt
  /\ ask = [t \in Turn |-> NoAsk] /\ sound = {}
  /\ ended = <<>> /\ terminal = [t \in Turn |-> "none"]
  /\ startedUnder = [t \in Turn |-> 0]
  /\ phase = [t \in Turn |-> "unused"] /\ goalTurns = {} /\ commandTurns = {}
  /\ bound = [t \in Turn |-> Unbound] /\ completing = [t \in Turn |-> 0]
  /\ retired = {} /\ superseded = {}
  /\ ops = <<>> /\ step = "begin"
  /\ scheduling = FALSE /\ loose = "idle" /\ looseGoal = NoGoal /\ unserialized = {} /\ orphaned = {}
  /\ cancelling = {} /\ queued = "none" /\ queuePaused = FALSE
  /\ charged = [t \in Turn |-> 0] /\ unattended = 0
  /\ uncounted = 0 /\ spent = 0

-----------------------------------------------------------------------------
(* Parts of handlers.                                                      *)

Spend == spent < MaxSpent /\ spent' = spent + 1
Fault == Failures /\ Spend

Op(kind, t, objective, status) ==
  [kind |-> kind, turn |-> t, objective |-> objective, status |-> status]

Handles(kind, steps) == ops # <<>> /\ Head(ops).kind = kind /\ step \in steps
EndOp == ops' = Tail(ops) /\ step' = "begin" /\ UNCHANGED scheduling
GoTo(where) == step' = where /\ UNCHANGED <<ops, scheduling>>

Deleting == "deleting" \in closed

(* continueIfIdle up to its first await.                                   *)
Continue ==
  IF Deleting \/ scheduling \/ current # NoTurn
  THEN EndOp
  ELSE step' = "continue" /\ scheduling' = TRUE /\ UNCHANGED ops

(* publishGoalState: one state-replaced event, for the tool call of t or   *)
(* for none.  The other calls of update_goal that are under way will find  *)
(* it in the log.  Everything but accounting overtakes what a verification *)
(* has established.                                                        *)
Publish(g, t) ==
  LET accounting == /\ goal # NoGoal /\ g # NoGoal
                    /\ <<g.id, g.objective, g.status>> = <<goal.id, goal.objective, goal.status>>
  IN /\ goal' = g
     /\ lastGoal' = IF g # NoGoal /\ g.id > lastGoal THEN g.id ELSE lastGoal
     /\ receipt' = ReceiptAfter(receipt, g)
     /\ ask' = [u \in Turn |->
                  IF u = t THEN NoAsk
                  ELSE IF Judged(u)
                       THEN [ask[u] EXCEPT !.changed = TRUE, !.untouched = @ /\ accounting]
                       ELSE ask[u]]
     /\ sound' = IF accounting THEN sound ELSE {}

(* A tool event or a user message was stored: every receipt and every      *)
(* verification under way has seen less than the log holds.  A completion  *)
(* that is decided, but not yet published, is not looked at again.         *)
EvidenceMoves ==
  /\ receipt' = IF receipt = NoReceipt THEN receipt ELSE [receipt EXCEPT !.fresh = FALSE]
  /\ ask' = [t \in Turn |-> [ask[t] EXCEPT !.fresh = FALSE, !.untouched = FALSE]]
  /\ sound' = IF step = "completing" THEN sound \cap {Head(ops).turn} ELSE {}
  /\ UNCHANGED <<goal, lastGoal>>

(* taskBelongsToGoal; every goal turn is bound when it is created.         *)
Belongs(t, g) == t # NoTurn /\ bound[t].goal = g.id

(* A turn is registered, and its turn.started stored.                      *)
StartTurn(kind, g) ==
  \E t \in Turn:
    /\ phase[t] = "unused"
    /\ t = CHOOSE u \in Turn: phase[u] = "unused"
    /\ StartTask(t, FALSE)
    /\ phase' = [phase EXCEPT ![t] = "running"]
    /\ startedUnder' = [startedUnder EXCEPT ![t] = IF goal = NoGoal THEN 0 ELSE goal.id]
    /\ IF kind = "goal"
       THEN /\ goalTurns' = goalTurns \cup {t}
            /\ bound' = [bound EXCEPT ![t] = [goal |-> g.id, objective |-> g.objective]]
       ELSE UNCHANGED <<goalTurns, bound>>
    /\ commandTurns' = IF kind = "command" THEN commandTurns \cup {t} ELSE commandTurns
    /\ UNCHANGED <<terminal, ended>>

TurnIsLeft == \E t \in Turn: phase[t] = "unused"

(* The rest of cancelTurn: the abort, the aborted marker, which is a user  *)
(* message, and turn.cancelled unless the turn has a terminal event.       *)
Abort(t) ==
  /\ AbortTask(t)
  /\ IF terminal[t] = "none"
     THEN terminal' = [terminal EXCEPT ![t] = "cancelled"] /\ ended' = Append(ended, t)
     ELSE UNCHANGED <<terminal, ended>>
  /\ EvidenceMoves
  /\ UNCHANGED <<startedUnder, phase, goalTurns, commandTurns>>

AbortIf(condition, t) ==
  IF condition THEN Abort(t) ELSE UNCHANGED <<turnVars, goalVars>>

-----------------------------------------------------------------------------
(* Users, clients and the send queue.                                      *)

Submit(op) ==
  /\ ops' = Append(ops, op)
  /\ UNCHANGED <<goalVars, turnVars, mapVars, step, scheduling, looseVars, userVars, charged, uncounted, unattended>>

(* updateGoalState and clearGoalState, routes of the feature that no       *)
(* thread admission guards; resumeGoal of AgentLoop, which has one.        *)
CallSetGoal ==
  \E o \in Objective \cup {Keep}, s \in {"active", "paused", Keep}:
    /\ <<o, s>> # <<Keep, Keep>>
    /\ Spend
    /\ Submit(Op("set", NoTurn, o, s))

CallClearGoal == Spend /\ Submit(Op("clear", NoTurn, Keep, Keep))

CallResumeGoal ==
  AcceptingWork /\ Spend /\ Submit(Op("resume", NoTurn, Keep, "active"))

(* A tool runs in the turn, or a user steers it.                           *)
NewEvidence ==
  /\ \E t \in registered \ aborted: phase[t] \in {"running", "asking"}
  /\ EvidenceMoves
  /\ UNCHANGED <<turnVars, mapVars, chainVars, looseVars, userVars, countVars>>

(* A message to an idle thread, sent or dispatched by the queue, starts a  *)
(* regular turn.                                                           *)
StartRegular ==
  /\ AcceptingWork /\ CanStart
  /\ StartTurn("regular", NoGoal)
  /\ EvidenceMoves
  /\ UNCHANGED <<completing, retired, superseded, chainVars, looseVars, cancelling,
                 queuePaused, charged, uncounted, unattended>>

SendMessage == Spend /\ StartRegular /\ UNCHANGED queued

DispatchMessage ==
  queued = "message" /\ ~queuePaused /\ queued' = "none" /\ StartRegular /\ UNCHANGED spent

(* runUserShellCommand on an idle thread, and compact: a turn that only    *)
(* the send queue observes.                                                *)
StartCommand ==
  /\ Commands /\ Spend
  /\ AcceptingWork /\ CanStart
  /\ StartTurn("command", NoGoal)
  /\ UNCHANGED <<goalVars, completing, retired, superseded, chainVars, looseVars, userVars,
                 charged, uncounted, unattended>>

Enqueue ==
  /\ Spend /\ AcceptingWork /\ queued = "none"
  /\ queued' \in {"message"} \cup Objective
  /\ UNCHANGED <<goalVars, turnVars, mapVars, chainVars, looseVars, cancelling, queuePaused,
                 charged, uncounted, unattended>>

ResumeQueue ==
  /\ Spend /\ queuePaused
  /\ queuePaused' = FALSE
  /\ UNCHANGED <<goalVars, turnVars, mapVars, chainVars, looseVars, cancelling, queued,
                 charged, uncounted, unattended>>

(* A goal at the head of the queue enters the chain of goal transactions.  *)
DispatchGoal ==
  /\ queued \in Objective /\ ~queuePaused /\ AcceptingWork /\ ActiveTurn = NoTurn
  /\ TurnIsLeft
  /\ \A i \in DOMAIN ops: ops[i].kind # "queuedGoal"
  /\ Submit(Op("queuedGoal", NoTurn, queued, "active"))
  /\ UNCHANGED spent

(* cancelTurn: a goal turn is aborted only after its goal was paused.      *)
CancelTurn(t) ==
  /\ Cancellable(t)
  /\ IF t \in goalTurns
     THEN ops' = Append(ops, Op("pause", t, Keep, "paused")) /\ UNCHANGED cancelling
     ELSE cancelling' = cancelling \cup {t} /\ UNCHANGED ops
  /\ UNCHANGED <<goalVars, turnVars, mapVars, step, scheduling, looseVars, queued, queuePaused,
                 charged, uncounted, unattended>>

CallCancelTurn == Spend /\ \E t \in Turn: CancelTurn(t)

AbortCancelled ==
  /\ \E t \in cancelling:
       /\ cancelling' = cancelling \ {t}
       /\ AbortIf(Cancellable(t), t)
  /\ UNCHANGED <<mapVars, chainVars, looseVars, queued, queuePaused, countVars>>

-----------------------------------------------------------------------------
(* The life of a turn.                                                     *)

(* completionBlockReason, negated. *)
Completes(t) ==
  /\ goal # NoGoal /\ goal.id = completing[t]
  /\ receipt # NoReceipt /\ receipt.passed /\ receipt.turn = t
  /\ receipt.fresh

TurnMoves(t, to) ==
  /\ phase' = [phase EXCEPT ![t] = to]
  /\ UNCHANGED <<goalVars, startedUnder, goalTurns, commandTurns, bound, retired, superseded,
                 chainVars, looseVars, cancelling, queued, countVars>>

(* The model has nothing more to say: a promised completion whose evidence *)
(* moved is withdrawn and the turn goes on, otherwise it closes.           *)
Close ==
  \E t \in registered \ aborted:
    /\ phase[t] = "running"
    /\ LET withdrawn == completing[t] # 0 /\ ~Completes(t)
       IN /\ completing' = IF withdrawn THEN [completing EXCEPT ![t] = 0] ELSE completing
          /\ TurnMoves(t, IF withdrawn THEN "running" ELSE "closing")
    /\ UNCHANGED <<registryVars, terminal, ended, queuePaused>>

EndsWith(t, event) ==
  /\ terminal' = [terminal EXCEPT ![t] = event]
  /\ ended' = Append(ended, t)
  /\ TurnMoves(t, "ended")
  /\ UNCHANGED <<registryVars, completing, queuePaused>>

(* turn.completed is stored whether or not turn.cancelled was meanwhile.   *)
Complete == \E t \in registered: phase[t] = "closing" /\ EndsWith(t, "completed")

Fail == \E t \in registered \ aborted: phase[t] = "running" /\ EndsWith(t, "error")

(* An aborted turn unwinds; its cancellation stored the terminal event.    *)
Unwind ==
  \E t \in aborted:
    /\ phase[t] \in {"running", "closing"}
    /\ TurnMoves(t, "ended")
    /\ UNCHANGED <<registryVars, terminal, ended, completing, queuePaused>>

(* The task settles.  The send queue pauses behind a turn that was         *)
(* interrupted, unless a newer turn has taken the slot.  The coordinator   *)
(* hears nothing of a shell command or a compaction.                       *)
Finish ==
  \E t \in registered:
    /\ phase[t] = "ended"
    /\ FinishTask(t)
    /\ TurnMoves(t, IF t \in commandTurns THEN "settled" ELSE "done")
    /\ queuePaused' = (queuePaused \/
                       (terminal[t] # "completed" /\ queued # "none" /\ current = t))
    /\ UNCHANGED <<terminal, ended, completing>>

(* observeRun, behind the end of every other turn: onTurnSettled.          *)
ObserveSettlement ==
  \E t \in Turn:
    /\ phase[t] = "done"
    /\ phase' = [phase EXCEPT ![t] = "settling"]
    /\ ops' = Append(ops, Op(IF t \in goalTurns \/ bound[t] # Unbound THEN "settle" ELSE "settleOther",
                             t, bound[t].objective, Keep))
    /\ UNCHANGED <<goalVars, registryVars, terminal, ended, startedUnder, goalTurns,
                   commandTurns, mapVars, step, scheduling, looseVars, userVars, countVars>>

=============================================================================
