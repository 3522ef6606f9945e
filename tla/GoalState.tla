----------------------------- MODULE GoalState -----------------------------
(***************************************************************************)
(* The state of the Goal feature of one thread and the pure functions on   *)
(* it: runtime-goal-state.ts, goal-completion-verification.ts and the      *)
(* reducers of contracts/events.ts (packages/features/goal).               *)
(*                                                                         *)
(* A goal is the record its state-replaced event stores.  Usage is not     *)
(* added up: mark is accountedThroughSeq, the position in the log of       *)
(* terminal events up to which turns were charged to the goal.  A          *)
(* verification's observedThroughSeq becomes fresh: no tool ran and no     *)
(* user message was stored after the events the verifier saw.              *)
(***************************************************************************)
EXTENDS Naturals

CONSTANTS
  Objective,     \* what users and models ask for
  Keep,          \* a patch that leaves the objective or the status alone
  NoGoal,        \* null
  NoReceipt,     \* no verification is recorded
  MaxAutomatic,  \* MAX_AUTOMATIC_GOAL_TURNS (25)
  MaxIdle,       \* MAX_CONSECUTIVE_NO_PROGRESS_TURNS (3)
  MaxAttempts    \* MAX_GOAL_VERIFICATION_ATTEMPTS (3)

ASSUME GoalLimits ==
  /\ {MaxAutomatic, MaxIdle, MaxAttempts} \subseteq Nat \ {0}
  /\ Keep \notin Objective

Status == {"active", "paused", "blocked", "usageLimited", "complete"}

Active(goal) == goal # NoGoal /\ goal.status = "active"

(* Explicit creation and restarting a complete goal are new work.          *)
NewWork(previous, status, forceNew) ==
  forceNew \/ (previous # NoGoal => previous.status = "complete" /\ status = "active")

(* nextGoalState: what a patch makes of the previous goal.  New work gets  *)
(* a new id, an edit keeps identity and usage; both, and a resume, restart *)
(* the safety counters.                                                    *)
NextGoalState(previous, objective, status, forceNew, id) ==
  LET work == IF objective = Keep THEN previous.objective ELSE objective
      new == NewWork(previous, status, forceNew)
      next == IF status # Keep THEN status ELSE IF new THEN "active" ELSE previous.status
      restarts == \/ previous.objective # work
                  \/ previous.status # "active" /\ next = "active"
  IN IF new
     THEN [id |-> id, objective |-> work, status |-> next, mark |-> 0,
           automatic |-> 0, idle |-> 0, byUser |-> status = "paused"]
     ELSE [previous EXCEPT
            !.objective = work,
            !.status = next,
            !.byUser = next = "paused" /\ (status = "paused" \/ @),
            !.automatic = IF restarts THEN 0 ELSE @,
            !.idle = IF restarts THEN 0 ELSE @]

(* withGoalStatus, for the statuses it is called with: none is active.     *)
WithGoalStatus(goal, status) == [goal EXCEPT !.status = status, !.byUser = FALSE]

(* nextGoalSafety, with what the fingerprint of the turn's tools tells:    *)
(* whether the turn brought new evidence of progress.                      *)
NextGoalSafety(goal, progress) ==
  [goal EXCEPT !.automatic = @ + 1, !.idle = IF progress THEN 0 ELSE @ + 1]

(* The safety stops, in the order settleGoalTurn applies them.             *)
SafetyStop_OffByOne(goal) ==
  IF goal.idle > MaxIdle \/ goal.automatic > MaxAutomatic
  THEN WithGoalStatus(goal, "blocked") ELSE goal
SafetyStop(goal) ==
  IF goal.idle >= MaxIdle \/ goal.automatic >= MaxAutomatic
  THEN WithGoalStatus(goal, "blocked") ELSE goal

(* reduceGoalState: a receipt outlives a publication of the same objective *)
(* of the same goal, and no other.                                         *)
ReceiptAfter_SameGoal(receipt, goal) ==
  IF receipt # NoReceipt /\ goal # NoGoal /\ receipt.goal = goal.id
  THEN receipt ELSE NoReceipt
ReceiptAfter(receipt, goal) ==
  IF /\ receipt # NoReceipt
     /\ goal # NoGoal
     /\ receipt.goal = goal.id
     /\ receipt.objective = goal.objective
  THEN receipt ELSE NoReceipt

(* verifyGoalCompletion: the attempt a turn is at.                         *)
Attempt(receipt, t) ==
  IF receipt # NoReceipt /\ receipt.turn = t THEN receipt.attempt + 1 ELSE 1

=============================================================================
