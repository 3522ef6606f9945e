---------------------------- MODULE GoalFeature ----------------------------
(***************************************************************************)
(* RuntimeGoalCoordinator (packages/features/goal/src/runtime) of one      *)
(* thread: an agent that keeps starting turns by itself until its goal is  *)
(* reached, while users edit, pause, clear, replace and cancel, turns      *)
(* settle late, completion is verified by a model that runs outside every  *)
(* lock, the thread is being deleted and the runtime restarts.             *)
(*                                                                         *)
(* Goal transactions run one after the other: ops is the promise chain of  *)
(* withGoalMutation, its head is the operation that runs and step where    *)
(* it is.  Nothing else is serialised: turns end, users cancel and send,   *)
(* and the registry's slot changes between any two steps.                  *)
(***************************************************************************)
EXTENDS GoalThread

-----------------------------------------------------------------------------
(* The chain: what users ask for.                                          *)

(* setGoalUnlocked up to its publication.  A goal that replaces a complete *)
(* one first retires and aborts a turn that still belongs to it.           *)
Refused(objective, status) ==
  \/ queued \in Objective /\ (objective # Keep \/ status = "active")
  \/ goal = NoGoal /\ objective = Keep

Replaces(status) ==
  goal # NoGoal /\ NewWork(goal, status, FALSE) /\ Belongs(ActiveTurn, goal)

PublishSetGoal(objective, status) ==
  LET next == NextGoalState(goal, objective, status, FALSE, lastGoal + 1)
      resumes == /\ goal # NoGoal /\ next.id = goal.id
                 /\ goal.status # "active" /\ next.status = "active"
  IN /\ superseded' = IF resumes
                      THEN superseded \cup {t \in Turn: bound[t].goal = goal.id}
                      ELSE superseded
     /\ \/ /\ Publish(next, NoTurn)
           /\ unattended' = 0
           /\ GoTo("published")
           /\ UNCHANGED spent
        \/ /\ Fault
           /\ EndOp
           /\ UNCHANGED <<goalVars, unattended>>
     /\ UNCHANGED <<turnVars, retired>>

SetGoalUnlocked(objective, status) ==
  \/ /\ step = "begin" /\ Refused(objective, status)
     /\ EndOp
     /\ UNCHANGED <<goalVars, turnVars, retired, superseded, unattended, spent>>
  \/ /\ step = "begin" /\ ~Refused(objective, status) /\ Replaces(status)
     /\ retired' = retired \cup {goal.id}
     /\ AbortIf(Cancellable(ActiveTurn), ActiveTurn)
     /\ GoTo("replacing")
     /\ UNCHANGED <<superseded, unattended, spent>>
  \/ /\ step = "begin" /\ ~Refused(objective, status) /\ ~Replaces(status)
     /\ PublishSetGoal(objective, status)
  \/ step = "replacing" /\ PublishSetGoal(objective, status)

SetGoal ==
  /\ Handles("set", {"begin", "replacing"})
  /\ SetGoalUnlocked(Head(ops).objective, Head(ops).status)
  /\ UNCHANGED <<bound, completing, looseVars, userVars, charged, uncounted>>

(* resumeGoal: an active goal is only continued, a complete one refused.   *)
ResumeGoal ==
  /\ Handles("resume", {"begin"})
  /\ \/ /\ Active(goal)
        /\ Continue
        /\ unattended' = 0
        /\ UNCHANGED <<goalVars, turnVars, retired, superseded, spent>>
     \/ /\ goal # NoGoal => goal.status = "complete"
        /\ EndOp
        /\ UNCHANGED <<goalVars, turnVars, retired, superseded, unattended, spent>>
     \/ /\ goal # NoGoal /\ goal.status \notin {"active", "complete"}
        /\ SetGoalUnlocked(Keep, "active")
  /\ UNCHANGED <<bound, completing, looseVars, userVars, charged, uncounted>>

(* The rest of setGoalUnlocked: a goal that is not active loses its turn,  *)
(* an active one is continued.                                             *)
SetGoalFollowsUp_LeavesTurn ==
  /\ step = "published"
  /\ IF Active(goal) THEN Continue ELSE EndOp
  /\ UNCHANGED <<goalVars, turnVars, mapVars, looseVars, userVars, countVars>>
SetGoalFollowsUp ==
  /\ step = "published"
  /\ IF Active(goal)
     THEN Continue /\ UNCHANGED <<turnVars, goalVars>>
     ELSE EndOp /\ AbortIf(Belongs(ActiveTurn, goal), ActiveTurn)
  /\ UNCHANGED <<mapVars, looseVars, userVars, countVars>>

(* clearGoalUnlocked: the goal's turn is retired and aborted, even one     *)
(* that is already unwinding; then the goal is gone, or, when the write    *)
(* fails, its turn may settle after all.                                   *)
ClearGoalRetires ==
  /\ Handles("clear", {"begin"})
  /\ IF goal = NoGoal
     THEN EndOp /\ UNCHANGED <<turnVars, goalVars, retired>>
     ELSE /\ GoTo("clearing")
          /\ retired' = IF Belongs(current, goal) THEN retired \cup {goal.id} ELSE retired
          /\ AbortIf(Belongs(current, goal) /\ Cancellable(current), current)
  /\ UNCHANGED <<bound, completing, superseded, looseVars, userVars, countVars>>

ClearGoal ==
  /\ step = "clearing"
  /\ \/ Publish(NoGoal, NoTurn) /\ unattended' = 0 /\ UNCHANGED <<retired, spent>>
     \/ Fault /\ retired' = retired \ {goal.id} /\ UNCHANGED <<goalVars, unattended>>
  /\ EndOp
  /\ UNCHANGED <<turnVars, bound, completing, superseded, looseVars, userVars, charged, uncounted>>

(* pauseForCancellation; the abort follows.                                *)
PauseForCancellation ==
  /\ Handles("pause", {"begin"})
  /\ IF Active(goal) THEN Publish(WithGoalStatus(goal, "paused"), NoTurn) ELSE UNCHANGED goalVars
  /\ cancelling' = cancelling \cup {Head(ops).turn}
  /\ EndOp
  /\ UNCHANGED <<turnVars, mapVars, looseVars, queued, queuePaused, countVars>>

(* startQueuedGoalUnlocked: the goal, its visible message and the removal  *)
(* of the queued input are one batch; the turn is created after it.        *)
PublishQueuedGoal ==
  /\ Handles("queuedGoal", {"begin"})
  /\ LET ready == ~Deleting /\ ~scheduling /\ ActiveTurn = NoTurn /\ queued = Head(ops).objective
     IN IF ready
        THEN /\ Publish(NextGoalState(goal, queued, "active", TRUE, lastGoal + 1), NoTurn)
             /\ queued' = "none"
             /\ unattended' = 0
             /\ step' = "start" /\ scheduling' = TRUE /\ UNCHANGED ops
        ELSE EndOp /\ UNCHANGED <<goalVars, queued, unattended>>
  /\ UNCHANGED <<turnVars, mapVars, looseVars, cancelling, queuePaused,
                 charged, uncounted, spent>>

-----------------------------------------------------------------------------
(* continueIfIdle.                                                         *)

(* After its awaits; explicit user work beats autonomous continuation.     *)
Continuable == ~Deleting /\ current = NoTurn /\ Active(goal) /\ queued = "none"

StopScheduling == ops' = Tail(ops) /\ step' = "begin" /\ scheduling' = FALSE

ContinueIfIdle ==
  /\ step = "continue"
  /\ IF Continuable THEN GoTo("start") ELSE StopScheduling
  /\ UNCHANGED <<goalVars, turnVars, mapVars, looseVars, userVars, countVars>>

(* createContinuation under the thread's admission, an await after the     *)
(* checks: another turn may be active by now, or the model not resolve.    *)
(* A turn that the chain started for the goal as it is may still be due.   *)
Unsettling(g) ==
  \E t \in goalTurns \ (superseded \cup unserialized):
    bound[t] = [goal |-> g.id, objective |-> g.objective]

CreateContinuation(g) ==
  \/ /\ AcceptingWork /\ CanStart
     /\ StartTurn("goal", g)
     /\ UNCHANGED spent
  \/ /\ ~AcceptingWork \/ ~CanStart
     /\ UNCHANGED <<turnVars, bound, spent>>
  \/ Fault /\ UNCHANGED <<turnVars, bound>>

StartContinuation ==
  /\ step = "start"
  /\ CreateContinuation(goal)
  /\ unattended' = IF registered' = registered THEN unattended ELSE unattended + 1
  /\ uncounted' = IF registered' # registered /\ Unsettling(goal) THEN uncounted + 1 ELSE uncounted
  /\ StopScheduling
  /\ UNCHANGED <<goalVars, completing, retired, superseded, looseVars, userVars, charged>>

(* The continueIfIdle of finishThreadDeletion runs beside the chain; it    *)
(* is scheduling from the moment the deletion is over.                     *)
LooseContinue ==
  /\ loose = "check"
  /\ IF Continuable
     THEN loose' = "start" /\ looseGoal' = goal /\ UNCHANGED scheduling
     ELSE loose' = "idle" /\ scheduling' = FALSE /\ UNCHANGED looseGoal
  /\ UNCHANGED <<goalVars, turnVars, mapVars, ops, step, unserialized, orphaned, userVars, countVars>>

LooseStart ==
  /\ loose = "start"
  /\ CreateContinuation(looseGoal)
  /\ unserialized' = unserialized \cup (registered' \ registered)
  /\ scheduling' = FALSE /\ loose' = "idle" /\ looseGoal' = NoGoal
  /\ UNCHANGED <<goalVars, completing, retired, superseded, ops, step, orphaned, userVars, charged,
                 unattended, uncounted>>

-----------------------------------------------------------------------------
(* The model's tools.                                                      *)

(* assertCurrentGoalRevision *)
CurrentRevision(t) ==
  bound[t] = Unbound \/
    (goal # NoGoal /\ bound[t] = [goal |-> goal.id, objective |-> goal.objective])

Waits(t, op, answer) ==
  /\ t \notin commandTurns
  /\ phase' = [phase EXCEPT ![t] = "asking"]
  /\ ask' = [ask EXCEPT ![t] = answer]
  /\ ops' = Append(ops, op)
  /\ UNCHANGED <<goal, lastGoal, receipt, sound, registryVars, terminal, ended, startedUnder,
                 goalTurns, commandTurns, mapVars, step, scheduling, looseVars, userVars, charged,
                 unattended, uncounted>>

CallCreateGoal ==
  /\ Spend
  /\ \E t \in registered \ aborted, o \in Objective:
       phase[t] = "running" /\ Waits(t, Op("create", t, o, "active"), Asking("creating"))

CallUpdateGoal ==
  /\ \E t \in registered \ aborted:
       phase[t] = "running" /\ Waits(t, Op("prepare", t, Keep, Keep), Asking("preparing"))
  /\ UNCHANGED spent

Answered(t) == phase' = [phase EXCEPT ![t] = "running"]
NoAnswer(t) ==
  /\ Answered(t)
  /\ ask' = [ask EXCEPT ![t] = NoAsk]
  /\ UNCHANGED <<goal, lastGoal, receipt, sound>>

(* create_goal: new work for the turn that asks, aborted or not; the turn  *)
(* keeps running under the new goal.                                       *)
CreateGoal ==
  /\ Handles("create", {"begin"})
  /\ LET t == Head(ops).turn
         next == NextGoalState(goal, Head(ops).objective, "active", TRUE, lastGoal + 1)
     IN IF CurrentRevision(t) /\ queued \notin Objective
        THEN /\ Publish(next, t)
             /\ unattended' = 0
             /\ bound' = [bound EXCEPT ![t] = [goal |-> next.id, objective |-> next.objective]]
             /\ orphaned' = orphaned \cup {u \in registered \ (aborted \cup {t}): bound[u] # Unbound}
             /\ Answered(t)
             /\ Continue
        ELSE NoAnswer(t) /\ EndOp /\ UNCHANGED <<bound, orphaned, unattended>>
  /\ UNCHANGED <<registryVars, terminal, ended, startedUnder, goalTurns, commandTurns, completing,
                 retired, superseded, loose, looseGoal, unserialized, userVars, charged, uncounted, spent>>

(* update_goal, under the chain: what the verifier is going to judge.      *)
PrepareVerification ==
  /\ Handles("prepare", {"begin"})
  /\ LET t == Head(ops).turn
     IN IF t \notin aborted /\ Active(goal) /\ CurrentRevision(t)
        THEN /\ ask' = [ask EXCEPT ![t] =
                  [stage |-> "verifying", goal |-> goal.id, objective |-> goal.objective,
                   fresh |-> TRUE, changed |-> FALSE, untouched |-> TRUE,
                   passed |-> FALSE, attempt |-> Attempt(receipt, t)]]
             /\ UNCHANGED <<goal, lastGoal, receipt, sound, phase>>
        ELSE NoAnswer(t)
  /\ EndOp
  /\ UNCHANGED <<registryVars, terminal, ended, startedUnder, goalTurns, commandTurns, mapVars,
                 looseVars, userVars, countVars>>

(* verifyGoalCompletion: the verifier answers outside the chain; beyond    *)
(* the last attempt it is not asked, and an abort is rethrown.             *)
VerdictArrives ==
  \E t \in registered, passed \in BOOLEAN:
    /\ ask[t].stage = "verifying"
    /\ passed => ask[t].attempt <= MaxAttempts
    /\ IF t \in aborted
       THEN NoAnswer(t) /\ UNCHANGED ops
       ELSE /\ ask' = [ask EXCEPT ![t].stage = "committing", ![t].passed = passed]
            /\ ops' = Append(ops, Op("commit", t, Keep, Keep))
            /\ UNCHANGED <<goal, lastGoal, receipt, sound, phase>>
    /\ UNCHANGED <<registryVars, terminal, ended, startedUnder, goalTurns, commandTurns, mapVars,
                   step, scheduling, looseVars, userVars, countVars>>

(* Under the chain again: the verdict counts if no goal event was stored   *)
(* since it was prepared, an edit away and back included.                  *)
MayCommit_SameGoal(t) ==
  /\ t \notin aborted /\ ~Deleting
  /\ Active(goal) /\ goal.id = ask[t].goal
  /\ CurrentRevision(t)
MayCommit(t) ==
  /\ t \notin aborted /\ ~Deleting
  /\ Active(goal) /\ goal.id = ask[t].goal
  /\ ~ask[t].changed
  /\ CurrentRevision(t)

CommitVerification ==
  /\ Handles("commit", {"begin"})
  /\ LET t == Head(ops).turn
         report == [goal |-> ask[t].goal, objective |-> ask[t].objective, turn |-> t,
                    attempt |-> ask[t].attempt, passed |-> ask[t].passed, fresh |-> ask[t].fresh]
         exhausted == ~report.passed /\ report.attempt >= MaxAttempts
     IN IF MayCommit(t)
        THEN /\ receipt' = IF report.objective = goal.objective THEN report ELSE receipt
             /\ ask' = [u \in Turn |-> IF u = t THEN NoAsk ELSE [ask[u] EXCEPT !.changed = TRUE]]
             /\ goal' = IF exhausted THEN WithGoalStatus(goal, "blocked") ELSE goal
             /\ sound' = IF report.passed /\ ask[t].untouched THEN sound \cup {t} ELSE sound \ {t}
             /\ bound' = [bound EXCEPT ![t] = [goal |-> goal.id, objective |-> goal.objective]]
             /\ completing' = IF report.passed THEN [completing EXCEPT ![t] = goal.id]
                                               ELSE completing
             /\ Answered(t)
             /\ UNCHANGED lastGoal
        ELSE NoAnswer(t) /\ UNCHANGED <<bound, completing>>
  /\ EndOp
  /\ UNCHANGED <<registryVars, terminal, ended, startedUnder, goalTurns, commandTurns, retired,
                 superseded, looseVars, userVars, countVars>>

-----------------------------------------------------------------------------
(* Settlement.                                                             *)

(* The settlement's finally: nothing is remembered of the turn.            *)
Forget(t) ==
  /\ phase' = [phase EXCEPT ![t] = "settled"]
  /\ bound' = [bound EXCEPT ![t] = Unbound]
  /\ completing' = [completing EXCEPT ![t] = 0]
  /\ superseded' = superseded \ {t}
  /\ retired' = retired \ {bound[t].goal}
  /\ terminal' = [terminal EXCEPT ![t] = "none"]
  /\ UNCHANGED <<registryVars, ended, startedUnder, goalTurns, commandTurns>>

(* A turn no goal had a part in; afterwards the goal goes on.              *)
SettleOther_Ends ==
  /\ Handles("settleOther", {"begin"})
  /\ Forget(Head(ops).turn)
  /\ EndOp
  /\ UNCHANGED <<goalVars, looseVars, userVars, countVars>>
SettleOther ==
  /\ Handles("settleOther", {"begin"})
  /\ Forget(Head(ops).turn)
  /\ IF ~Deleting /\ Active(goal) THEN Continue ELSE EndOp
  /\ UNCHANGED <<goalVars, looseVars, userVars, countVars>>

LastPosition(t) == CHOOSE i \in DOMAIN ended:
                     ended[i] = t /\ \A j \in DOMAIN ended: ended[j] = t => j <= i
Later(m, n) == IF m > n THEN m ELSE n

(* settleGoalTurn up to its publication: the turn is charged to the goal   *)
(* that is current now.  A result of the goal as it was before an edit or  *)
(* a resume does not decide anything.                                      *)
Ignored(t) ==
  \/ Deleting
  \/ bound[t].goal \in retired
  \/ goal = NoGoal
  \/ goal # NoGoal /\ goal.id # bound[t].goal
Overtaken(t, objective) == t \in superseded \/ objective # goal.objective

(* The recheck of the evidence, which is read from the log as it is: what  *)
(* the writer has not stored yet is not seen.                              *)
Confirms_Promised(t) ==
  terminal[t] = "completed" /\ completing[t] = goal.id
Confirms(t) ==
  terminal[t] = "completed" /\ completing[t] = goal.id /\ Completes(t)

SettleGoalTurn ==
  /\ Handles("settle", {"begin"})
  /\ LET t == Head(ops).turn
         decides == Active(goal) /\ ~Overtaken(t, Head(ops).objective)
     IN IF Ignored(t)
        THEN /\ Forget(t)
             /\ uncounted' = IF Active(goal) /\ goal.id = bound[t].goal
                             THEN uncounted + 1 ELSE uncounted
             /\ EndOp
        ELSE /\ GoTo(IF decides /\ Confirms(t) THEN "completing" ELSE "settling")
             /\ UNCHANGED <<turnVars, mapVars, uncounted>>
  /\ UNCHANGED <<goalVars, looseVars, userVars, charged, unattended, spent>>

(* What the outcome of the turn makes of a goal that is active.            *)
Outcome(g, t, progress) ==
  CASE terminal[t] = "cancelled" -> WithGoalStatus(g, "paused")
    [] terminal[t] = "error" -> WithGoalStatus(g, "blocked")
    [] terminal[t] = "completed" /\ step = "completing" -> WithGoalStatus(g, "complete")
    [] OTHER -> SafetyStop(NextGoalSafety(g, progress))

(* The rest of settleGoalTurn, after its awaits.                           *)
PublishSettlement ==
  /\ Handles("settle", {"completing", "settling"})
  /\ LET t == Head(ops).turn
         accounted == [goal EXCEPT !.mark = Later(@, LastPosition(t))]
     IN /\ Forget(t)
        /\ \/ \E progress \in BOOLEAN:
                LET next == IF Overtaken(t, Head(ops).objective) \/ ~Active(goal)
                            THEN accounted ELSE Outcome(accounted, t, progress)
                IN /\ Publish(next, NoTurn)
                   /\ charged' = [charged EXCEPT ![t] = @ + 1]
                   /\ IF Active(next) THEN Continue ELSE EndOp
                   /\ UNCHANGED <<uncounted, spent>>
           \/ Fault /\ EndOp /\ uncounted' = uncounted + 1 /\ UNCHANGED <<goalVars, charged>>
  /\ UNCHANGED <<looseVars, userVars, unattended>>

-----------------------------------------------------------------------------
(* Deletion and restart.                                                   *)

(* withThreadDeletionBarrier, for a deletion that fails in the end.        *)
BeginDeletion ==
  /\ ~Deleting /\ Spend
  /\ Refuse("deleting")
  /\ UNCHANGED <<goalVars, terminal, ended, startedUnder, phase, goalTurns, commandTurns, mapVars,
                 chainVars, looseVars, userVars, charged, uncounted, unattended>>

DeletionCancels ==
  /\ Deleting /\ Cancellable(ActiveTurn)
  /\ ActiveTurn \notin cancelling
  /\ \A i \in DOMAIN ops: ~(ops[i].kind = "pause" /\ ops[i].turn = ActiveTurn)
  /\ CancelTurn(ActiveTurn)
  /\ UNCHANGED spent

DeletionFails ==
  /\ Deleting /\ current = NoTurn
  /\ \A t \in Turn: phase[t] \notin {"done", "settling"}
  /\ \A i \in DOMAIN ops: ops[i].kind \notin {"queuedGoal", "resume"}
  /\ Readmit("deleting")
  /\ loose' = IF scheduling THEN loose ELSE "check"
  /\ scheduling' = TRUE
  /\ UNCHANGED <<goalVars, terminal, ended, startedUnder, phase, goalTurns, commandTurns, mapVars,
                 ops, step, looseGoal, unserialized, orphaned, userVars, countVars>>

(* The process dies.  An unsettled turn gets a terminal event; then        *)
(* reconcileRestoredGoals charges every goal turn whose terminal event     *)
(* lies beyond the watermark, and an active goal is paused.                *)
Unsettled_All(log, mark) ==
  {t \in goalTurns: startedUnder[t] = goal.id /\ \E i \in DOMAIN log: log[i] = t}
Unsettled(log, mark) ==
  {t \in goalTurns: startedUnder[t] = goal.id /\ \E i \in DOMAIN log: i > mark /\ log[i] = t}

Restart ==
  /\ Spend
  /\ LET stale == {t \in Turn: phase[t] \in Live /\ terminal[t] = "none"}
         log == IF stale = {} THEN ended ELSE Append(ended, CHOOSE t \in stale: TRUE)
         due == IF goal = NoGoal THEN {} ELSE Unsettled(log, goal.mark)
         accounted == [goal EXCEPT !.mark = Later(@, Len(log))]
     IN /\ ended' = log
        /\ terminal' = [t \in Turn |-> "none"]
        /\ charged' = [t \in Turn |-> IF t \in due THEN charged[t] + 1 ELSE charged[t]]
        /\ goal' = IF goal = NoGoal THEN goal
                   ELSE IF Active(goal) THEN WithGoalStatus(accounted, "paused") ELSE accounted
  /\ registered' = {} /\ current' = NoTurn /\ aborted' = {} /\ accepting' = {} /\ closed' = {}
  /\ phase' = [t \in Turn |-> IF phase[t] = "unused" THEN "unused" ELSE "settled"]
  /\ ask' = [t \in Turn |-> NoAsk] /\ sound' = {}
  /\ bound' = [t \in Turn |-> Unbound] /\ completing' = [t \in Turn |-> 0]
  /\ retired' = {} /\ superseded' = {}
  /\ ops' = <<>> /\ step' = "begin"
  /\ scheduling' = FALSE /\ loose' = "idle" /\ looseGoal' = NoGoal
  /\ cancelling' = {} /\ queuePaused' = FALSE
  /\ UNCHANGED <<lastGoal, receipt, startedUnder, goalTurns, commandTurns, unserialized, orphaned,
                 queued, unattended, uncounted>>

-----------------------------------------------------------------------------
(* The specification.                                                      *)

UserActs ==
  \/ CallSetGoal \/ CallClearGoal \/ CallResumeGoal \/ SendMessage \/ StartCommand \/ Enqueue
  \/ ResumeQueue \/ CallCancelTurn \/ BeginDeletion

ModelActs == NewEvidence \/ CallCreateGoal \/ CallUpdateGoal

ChainActs ==
  \/ SetGoal \/ ResumeGoal \/ SetGoalFollowsUp \/ ClearGoalRetires \/ ClearGoal
  \/ PauseForCancellation \/ PublishQueuedGoal \/ ContinueIfIdle \/ StartContinuation
  \/ CreateGoal \/ PrepareVerification \/ CommitVerification \/ SettleOther \/ SettleGoalTurn
  \/ PublishSettlement

TurnActs ==
  Close \/ Complete \/ Fail \/ Unwind \/ Finish \/ ObserveSettlement \/ VerdictArrives

Next ==
  \/ UserActs \/ ModelActs \/ ChainActs \/ TurnActs
  \/ DispatchMessage \/ DispatchGoal \/ AbortCancelled \/ LooseContinue \/ LooseStart
  \/ DeletionCancels \/ DeletionFails \/ Restart

Spec == Init /\ [][Next]_vars

(* Promise chains and continuations run, an aborted turn unwinds, a turn   *)
(* comes to its end and the verifier answers.  The turn may end in any     *)
(* way, so all ends are one action for fairness.                          *)
Fairness ==
  /\ WF_vars(ChainActs) /\ WF_vars(AbortCancelled)
  /\ WF_vars(LooseContinue \/ LooseStart)
  /\ WF_vars(TurnActs)
  /\ WF_vars(DispatchMessage \/ DispatchGoal)
  /\ WF_vars(DeletionCancels \/ DeletionFails)

FairSpec == Spec /\ Fairness

-----------------------------------------------------------------------------
(* Properties.                                                             *)

(* A goal becomes complete only while a turn of it settles that ended      *)
(* successfully and whose verification passed.  From the moment the        *)
(* verifier was asked to the moment the settlement decided no tool event   *)
(* and no user message was stored, and to the completion itself the goal   *)
(* was not edited, paused or replaced, an edit away and back included.     *)
(* What is stored between the decision and its publication, an append      *)
(* away, comes too late (README, section 5).                               *)
CompletionIsVerified ==
  [][(goal' # NoGoal /\ goal'.status = "complete" /\ goal' # goal /\ Active(goal)) =>
       /\ ops # <<>> /\ Head(ops).kind = "settle"
       /\ Head(ops).turn \in sound
       /\ terminal[Head(ops).turn] = "completed"]_vars

(* What a user stopped stays stopped: as soon as the goal is cleared, or   *)
(* paused and the call of the user is through, no turn works for a goal.   *)
(* Excepted are a turn of the loose continuation, which nothing orders     *)
(* against the pause, and a turn whose goal the late create_goal of a      *)
(* cancelled turn replaced.                                                *)
UserStopHolds ==
  goal = NoGoal \/ (goal.status = "paused" /\ goal.byUser /\ step # "published")
  => \A t \in registered \ aborted: bound[t] = Unbound \/ t \in unserialized \cup orphaned

(* A turn's usage is charged to at most one goal, once, whether it settles *)
(* in the chain, is retired with its goal or is found after a restart.     *)
UsageCountedOnce == \A t \in Turn: charged[t] <= 1

(* No goal keeps starting turns: without a user, or a model that asks for  *)
(* new work, the chain starts at most MaxAutomatic in a row, and one for   *)
(* every settlement that a deletion, a retired id or a failing write kept  *)
(* from being counted or that was still due when the next turn started.    *)
AutonomyIsBounded == unattended <= MaxAutomatic + uncounted

(* An active goal does not lie idle for ever: it has a turn, waits behind  *)
(* queued input that the user must release, or stops being active.         *)
(* Excepted are behaviours in which a turn of another goal still unwinds   *)
(* while the goal is active, see NewGoalStarts, or a shell command or a    *)
(* compaction holds the slot: the goal finds the thread busy, and nothing  *)
(* tells it when the slot is free again.                                   *)
Idle ==
  /\ Active(goal) /\ current = NoTurn
  /\ queued = "none" /\ TurnIsLeft

OtherGoalUnwinds ==
  /\ Active(goal)
  /\ \E t \in Turn: bound[t] # Unbound /\ bound[t].goal # goal.id

CommandHoldsSlot == Active(goal) /\ current \in commandTurns

GoalDoesNotStall == []~(OtherGoalUnwinds \/ CommandHoldsSlot) => ~<>[]Idle

(* "no goal / create: active, write the state, start the first turn when   *)
(* the thread is idle" (persistent-goals.md): a goal that is set gets its  *)
(* turn, and no other excuse.                                              *)
NewGoalStarts == ~<>[]Idle

=============================================================================
