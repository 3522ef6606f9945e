----------------------------- MODULE GoalProofs -----------------------------
(***************************************************************************)
(* GoalFeature: types, what a user stopped, what is charged, how far a     *)
(* goal goes on by itself and what completes it, for every set of turns    *)
(* and objectives and all limits.                                          *)
(*                                                                         *)
(* The invariant has eleven parts, each about a few of the variables: the  *)
(* registry, the goal, the step of the chain, the operations that are due, *)
(* which turn works for which goal, what is stopped, charged, counted and  *)
(* verified, the turns that serve no goal and the settlement that has      *)
(* decided.  For each part there is first what the moves the actions are   *)
(* made of do to it (a turn that starts, ends or is aborted, an operation  *)
(* that joins or leaves the chain, a publication); then every action is    *)
(* taken apart into these moves.                                           *)
(***************************************************************************)
EXTENDS GoalFeature, SequenceTheorems, WellFoundedInduction, TLAPS

-----------------------------------------------------------------------------
(* The parts of the invariant.                                             *)

Kind == {"set", "clear", "resume", "pause", "queuedGoal", "create", "prepare", "commit",
         "settle", "settleOther"}
OfTurn == {"create", "prepare", "commit", "settle", "settleOther"}
Operation == [kind: Kind, turn: Turn \cup {NoTurn}, objective: Objective \cup {Keep},
              status: {"active", "paused", Keep}]
Stage == {"none", "creating", "preparing", "verifying", "committing"}
AskType == [stage: Stage, goal: Nat, objective: Objective \cup {Keep}, fresh: BOOLEAN,
            changed: BOOLEAN, untouched: BOOLEAN, passed: BOOLEAN, attempt: Nat]
ReceiptType == [goal: Nat, objective: Objective \cup {Keep}, turn: Turn, attempt: Nat,
                passed: BOOLEAN, fresh: BOOLEAN]
StepName == {"begin", "replacing", "published", "clearing", "completing", "settling",
             "continue", "start"}
BoundType(last) == [goal: 0..last, objective: Objective \cup {Keep}]

(* An operation of a turn fits where the turn is: its call, its phase and  *)
(* its goal.                                                               *)
Fits(op, stage, ph, b) ==
  /\ op.kind = "create" => stage = "creating" /\ op.objective \in Objective
  /\ op.kind = "prepare" => stage = "preparing"
  /\ op.kind = "commit" => stage = "committing"
  /\ op.kind = "settle" => ph = "settling" /\ op.objective = b.objective
  /\ op.kind = "settleOther" => ph = "settling" /\ b = Unbound

(* The operations that have not done their part: while the chain continues *)
(* the goal, its head has.                                                 *)
Due == IF step \in {"continue", "start"} THEN Tail(ops) ELSE ops

RegistryInv ==
  /\ RegistryTypeOK
  /\ current # NoTurn => current \in registered
  /\ registered \ aborted \subseteq {current}
  /\ phase \in [Turn -> Phase] /\ terminal \in [Turn -> Terminal]
  /\ \A t \in Turn:
       /\ t \in registered <=> phase[t] \in Live
       /\ t \in aborted => phase[t] # "unused"
       /\ t \in aborted /\ t \in registered => terminal[t] # "none"
       /\ phase[t] \in {"ended", "done", "settling"} => terminal[t] # "none"

GoalInv ==
  /\ lastGoal \in Nat /\ goal \in GoalType \cup {NoGoal}
  /\ goal # NoGoal => goal.id <= lastGoal
  /\ Active(goal) => goal.automatic < MaxAutomatic /\ goal.idle < MaxIdle
  /\ looseGoal \in GoalType \cup {NoGoal}
  /\ looseGoal # NoGoal => looseGoal.id <= lastGoal
  /\ loose = "start" => looseGoal # NoGoal

StepInv ==
  /\ step \in StepName
  /\ step # "begin" => ops # <<>>
  /\ step = "start" => Active(goal)
  /\ step \in {"published", "replacing", "clearing"} => goal # NoGoal

DueInv(due, asks, phases, bounds) ==
  /\ \A i \in 1..Len(due):
       /\ due[i].kind \in OfTurn =>
            /\ due[i].turn \in Turn
            /\ Fits(due[i], asks[due[i].turn].stage, phases[due[i].turn], bounds[due[i].turn])
       /\ due[i].kind = "pause" => due[i].turn \in Turn
       /\ due[i].kind = "queuedGoal" => due[i].objective \in Objective
       /\ due[i].kind = "resume" => due[i].status = "active"
  /\ \A i, j \in 1..Len(due):
       due[i].kind \in OfTurn /\ due[j].kind \in OfTurn /\ due[i].turn = due[j].turn => i = j

(* A turn waits for its tool while its call is under way.                  *)
AskInv ==
  /\ ask \in [Turn -> AskType]
  /\ \A t \in Turn: phase[t] = "asking" <=> ask[t].stage # "none"

ChainInv ==
  /\ ops \in Seq(Operation) /\ AskInv
  /\ DueInv(Due, ask, phase, bound)

BindInv ==
  /\ bound \in [Turn -> BoundType(lastGoal)]
  /\ completing \in [Turn -> 0..lastGoal] /\ retired \subseteq 1..lastGoal
  /\ startedUnder \in [Turn -> 0..lastGoal]
  /\ superseded \subseteq Turn /\ goalTurns \subseteq Turn
  /\ unserialized \subseteq Turn /\ orphaned \subseteq Turn
  /\ \A t \in Turn:
       /\ phase[t] \in {"unused", "settled"} => bound[t] = Unbound /\ completing[t] = 0
       /\ phase[t] = "unused" => startedUnder[t] = 0 /\ t \notin superseded \cup unserialized

(* A turn that works for a goal and that nobody has aborted works for the  *)
(* current one, and nobody has stopped it.                                 *)
StopInv ==
  \A t \in registered \ aborted:
    bound[t] # Unbound /\ t \notin unserialized \cup orphaned =>
      /\ goal # NoGoal /\ bound[t].goal = goal.id
      /\ goal.status = "paused" /\ goal.byUser => step = "published"
      /\ step \notin {"replacing", "clearing"}

(* A turn that was charged has settled, and if a restart could take it for *)
(* a turn of the goal, its terminal events lie before the mark.            *)
UsageInv ==
  /\ ended \in Seq(Turn)
  /\ goal # NoGoal => goal.mark <= Len(ended)
  /\ charged \in [Turn -> 0..1]
  /\ \A t \in Turn:
       /\ terminal[t] # "none" => \E i \in 1..Len(ended): ended[i] = t
       /\ charged[t] = 1 =>
            /\ phase[t] = "settled"
            /\ goal # NoGoal /\ startedUnder[t] = goal.id =>
                 \A i \in 1..Len(ended): ended[i] = t => i <= goal.mark

(* Of the turns the chain started by itself at most one has not been       *)
(* counted, and that one is still due.                                     *)
AutonomyInv ==
  /\ unattended \in Nat /\ uncounted \in Nat
  /\ unattended <= MaxAutomatic + uncounted
  /\ Active(goal) => /\ unattended <= goal.automatic + uncounted + 1
                     /\ ~Unsettling(goal) => unattended <= goal.automatic + uncounted

(* A receipt that could complete the goal is sound, or the turn it was     *)
(* given is not going to decide anything; a verification nothing was       *)
(* stored behind judges the goal as it is.                                 *)
ReceiptInv ==
  /\ receipt \in ReceiptType \cup {NoReceipt}
  /\ receipt # NoReceipt =>
       /\ goal # NoGoal /\ receipt.goal = goal.id /\ receipt.objective = goal.objective
       /\ Active(goal) /\ receipt.passed /\ receipt.fresh /\ completing[receipt.turn] = goal.id
          => receipt.turn \in sound \cup superseded
  /\ goal # NoGoal => \A t \in Turn: completing[t] = goal.id => bound[t].goal = goal.id
  /\ \A t \in Turn: Judged(t) /\ ~ask[t].changed =>
       /\ goal # NoGoal /\ ask[t].goal = goal.id /\ ask[t].objective = goal.objective
       /\ ask[t].fresh => ask[t].untouched

(* No goal has a part in a shell command or a compaction.                  *)
CommandInv ==
  /\ commandTurns \subseteq Turn
  /\ \A t \in commandTurns:
       phase[t] \notin {"unused", "asking"} /\ bound[t] = Unbound /\ completing[t] = 0

(* A settlement that has decided still finds the goal of its turn, and one *)
(* that completes the goal the verification it rests on.                   *)
Decided == step \in {"completing", "settling"}
DecideInv ==
  /\ Decided => /\ Head(ops).kind = "settle"
                /\ goal # NoGoal /\ goal.id = bound[Head(ops).turn].goal
  /\ step = "completing" => /\ Active(goal) /\ Head(ops).turn \in sound
                            /\ terminal[Head(ops).turn] = "completed"

Inv ==
  /\ RegistryInv /\ GoalInv /\ StepInv /\ ChainInv /\ BindInv
  /\ StopInv /\ UsageInv /\ AutonomyInv /\ ReceiptInv

Whole == Inv /\ CommandInv /\ DecideInv

-----------------------------------------------------------------------------
(* A part does not change with other variables.                            *)

registryPart == <<registered, current, aborted, accepting, closed, phase, terminal>>
goalPart == <<lastGoal, goal, loose, looseGoal>>
stepPart == <<step, ops, goal>>
chainPart == <<ops, step, ask, phase, bound>>
bindPart == <<bound, completing, retired, startedUnder, superseded, goalTurns, unserialized, orphaned, lastGoal, phase>>
stopPart == <<registered, aborted, bound, unserialized, orphaned, goal, step>>
usagePart == <<ended, goal, charged, phase, terminal, startedUnder>>
autonomyPart == <<unattended, uncounted, goal, goalTurns, superseded, unserialized, bound>>
receiptPart == <<receipt, goal, completing, sound, superseded, bound, ask>>

LEMMA RegistryFrame == RegistryInv /\ UNCHANGED registryPart => RegistryInv'
  BY DEF RegistryInv, registryPart, RegistryTypeOK
LEMMA GoalFrame == GoalInv /\ UNCHANGED goalPart => GoalInv'
  BY DEF GoalInv, goalPart
LEMMA StepFrame == StepInv /\ UNCHANGED stepPart => StepInv'
  BY DEF StepInv, stepPart
LEMMA ChainFrame == ChainInv /\ UNCHANGED chainPart => ChainInv'
  BY DEF ChainInv, AskInv, chainPart, Due
LEMMA BindFrame == BindInv /\ UNCHANGED bindPart => BindInv'
  BY DEF BindInv, bindPart
LEMMA StopFrame == StopInv /\ UNCHANGED stopPart => StopInv'
  BY DEF StopInv, stopPart
LEMMA UsageFrame == UsageInv /\ UNCHANGED usagePart => UsageInv'
  BY DEF UsageInv, usagePart
LEMMA AutonomyFrame == AutonomyInv /\ UNCHANGED autonomyPart => AutonomyInv'
  BY DEF AutonomyInv, autonomyPart, Unsettling
LEMMA ReceiptFrame == ReceiptInv /\ UNCHANGED receiptPart => ReceiptInv'
  BY DEF ReceiptInv, receiptPart, Judged

-----------------------------------------------------------------------------
(* The registry.                                                           *)

LEMMA PhaseFacts ==
  /\ Live \subseteq Phase /\ {"unused", "done", "settling", "settled"} \subseteq Phase
  /\ {"running", "asking", "closing", "ended"} \subseteq Live
  /\ "unused" \notin Live /\ "done" \notin Live /\ "settling" \notin Live /\ "settled" \notin Live
  BY DEF Live, Phase

(* A turn that runs goes on, or the task of a turn that ends has done all. *)
LEMMA RegistryPhase ==
  ASSUME RegistryInv, NEW t \in Turn, NEW to \in Phase, phase' = [phase EXCEPT ![t] = to],
         to # "unused", phase[t] \in Live <=> to \in Live,
         to \in {"ended", "done", "settling"} => terminal[t] # "none",
         UNCHANGED <<registryVars, terminal>>
  PROVE  RegistryInv'
  BY DEF RegistryInv, RegistryTypeOK, registryVars

LEMMA RegistryEnds ==
  ASSUME RegistryInv, NEW t \in registered, NEW event \in Terminal \ {"none"},
         phase' = [phase EXCEPT ![t] = "ended"], terminal' = [terminal EXCEPT ![t] = event],
         UNCHANGED registryVars
  PROVE  RegistryInv'
  BY PhaseFacts DEF RegistryInv, RegistryTypeOK, registryVars, Live

LEMMA RegistryFinishes ==
  ASSUME RegistryInv, NEW t \in registered, phase[t] = "ended", FinishTask(t),
         NEW to \in {"done", "settled"}, phase' = [phase EXCEPT ![t] = to], UNCHANGED terminal
  PROVE  RegistryInv'
  BY PhaseFacts, NoTurnAssumption DEF RegistryInv, RegistryTypeOK, FinishTask

LEMMA RegistryForgets ==
  ASSUME RegistryInv, NEW t \in Turn, phase[t] \notin Live,
         phase' = [phase EXCEPT ![t] = "settled"], terminal' = [terminal EXCEPT ![t] = "none"],
         UNCHANGED registryVars
  PROVE  RegistryInv'
  BY PhaseFacts DEF RegistryInv, RegistryTypeOK, registryVars, Terminal

(* No turn is active when one starts. *)
LEMMA NobodyWorks ==
  ASSUME RegistryInv, ActiveTurn = NoTurn
  PROVE  registered \ aborted = {}
  BY NoTurnAssumption DEF RegistryInv, RegistryTypeOK, ActiveTurn

LEMMA RegistryStarts ==
  ASSUME RegistryInv, NEW t \in Turn, phase[t] = "unused", ActiveTurn = NoTurn,
         StartTask(t, FALSE), phase' = [phase EXCEPT ![t] = "running"], UNCHANGED terminal
  PROVE  RegistryInv'
  <1>1. registered \ aborted = {}  BY NobodyWorks
  <1> QED  BY <1>1, PhaseFacts DEF RegistryInv, RegistryTypeOK, StartTask

LEMMA RegistryAborts ==
  ASSUME RegistryInv, NEW t \in registered, Abort(t)
  PROVE  RegistryInv'
  <1>1. t \in Turn /\ phase[t] # "unused"  BY PhaseFacts DEF RegistryInv, RegistryTypeOK
  <1>2. terminal' \in [Turn -> Terminal] /\ terminal'[t] # "none"
        /\ \A u \in Turn: terminal[u] # "none" => terminal'[u] # "none"
    BY <1>1 DEF RegistryInv, Abort, Terminal
  <1> QED  BY <1>1, <1>2 DEF RegistryInv, RegistryTypeOK, Abort, AbortTask

LEMMA RegistryAdmits ==
  ASSUME RegistryInv, NEW reason \in Reason, Refuse(reason) \/ Readmit(reason),
         UNCHANGED <<phase, terminal>>
  PROVE  RegistryInv'
  BY DEF RegistryInv, RegistryTypeOK, Refuse, Readmit, Reason

-----------------------------------------------------------------------------
(* The goal.                                                               *)

(* What an operation of the coordinator may publish next. *)
GoodGoal(g) ==
  /\ g \in GoalType
  /\ g.id <= lastGoal + 1
  /\ Active(g) => g.automatic < MaxAutomatic /\ g.idle < MaxIdle

LEMMA GoalPublished ==
  ASSUME GoalInv, NEW g, GoodGoal(g) \/ g = NoGoal, NEW t, Publish(g, t),
         UNCHANGED <<loose, looseGoal>>
  PROVE  GoalInv' /\ lastGoal' \in Nat /\ lastGoal <= lastGoal'
         /\ goal' = g /\ (g # NoGoal => g.id <= lastGoal')
  <1>1. goal' = g /\ lastGoal' = IF g # NoGoal /\ g.id > lastGoal THEN g.id ELSE lastGoal
    BY DEF Publish
  <1>2. g # NoGoal => g \in GoalType /\ g.id \in Nat  BY DEF GoodGoal, GoalType
  <1>3. lastGoal' \in Nat /\ lastGoal <= lastGoal' /\ (g # NoGoal => g.id <= lastGoal')
    BY <1>1, <1>2 DEF GoalInv
  <1>4. looseGoal # NoGoal => looseGoal.id \in Nat  BY DEF GoalInv, GoalType
  <1>5. Active(g) => g.automatic < MaxAutomatic /\ g.idle < MaxIdle  BY DEF GoodGoal, Active
  <1>6. looseGoal' # NoGoal => looseGoal'.id <= lastGoal'  BY <1>3, <1>4 DEF GoalInv
  <1> QED  BY <1>1, <1>2, <1>3, <1>5, <1>6 DEF GoalInv

LEMMA WithStatus ==
  ASSUME NEW g \in GoalType, NEW s \in Status \ {"active"}
  PROVE  /\ WithGoalStatus(g, s) \in GoalType /\ WithGoalStatus(g, s).id = g.id
         /\ WithGoalStatus(g, s).objective = g.objective /\ WithGoalStatus(g, s).mark = g.mark
         /\ WithGoalStatus(g, s).status = s /\ ~WithGoalStatus(g, s).byUser
         /\ ~Active(WithGoalStatus(g, s)) /\ WithGoalStatus(g, s) # NoGoal
  BY NullAssumption DEF WithGoalStatus, GoalType, Active

(* What a patch of a user or a model may make of the goal. *)
NextGoal(g, new) ==
  /\ GoodGoal(g) /\ g # NoGoal
  /\ g.id = IF new THEN lastGoal + 1 ELSE goal.id
  /\ new => g.mark = 0
  /\ ~new => g.mark = goal.mark

LEMMA NextGoalIsGood ==
  ASSUME GoalInv, NEW o \in Objective \cup {Keep}, NEW s \in {"active", "paused", Keep},
         NEW force \in BOOLEAN, ~(goal = NoGoal /\ o = Keep)
  PROVE  NextGoal(NextGoalState(goal, o, s, force, lastGoal + 1), NewWork(goal, s, force))
  <1> DEFINE new == NewWork(goal, s, force)
             work == IF o = Keep THEN goal.objective ELSE o
             next == IF s # Keep THEN s ELSE IF new THEN "active" ELSE goal.status
             g == NextGoalState(goal, o, s, force, lastGoal + 1)
  <1>1. lastGoal + 1 \in Nat \ {0} /\ 0 < MaxAutomatic /\ 0 < MaxIdle /\ MaxAutomatic \in Nat /\ MaxIdle \in Nat
        /\ goal \in GoalType \cup {NoGoal}
    BY GoalLimits DEF GoalInv
  <1>2. CASE new
    <2>1. work \in Objective /\ next \in Status
      BY <1>1, <1>2 DEF GoalType, Status
    <2>2. g = [id |-> lastGoal + 1, objective |-> work, status |-> next, mark |-> 0,
               automatic |-> 0, idle |-> 0, byUser |-> s = "paused"]
      BY <1>2 DEF NextGoalState
    <2> HIDE DEF work, next, new, g
    <2>3. g \in GoalType  BY <1>1, <2>1, <2>2 DEF GoalType
    <2>4. g.id = lastGoal + 1 /\ g.mark = 0 /\ g.automatic = 0 /\ g.idle = 0 /\ g # NoGoal
      BY <2>2, <2>3, NullAssumption
    <2>5. GoodGoal(g)  BY <1>1, <2>3, <2>4 DEF GoodGoal, GoalInv
    <2> QED  BY <1>2, <2>4, <2>5 DEF NextGoal, new, g
  <1>3. CASE ~new
    <2>1. goal \in GoalType /\ goal # NoGoal  BY <1>1, <1>3 DEF NewWork
    <2>2. work \in Objective /\ next \in Status
      BY <1>1, <1>3, <2>1 DEF GoalType, Status
    <2> DEFINE restarts == \/ goal.objective # work
                           \/ goal.status # "active" /\ next = "active"
    <2>3. g = [goal EXCEPT !.objective = work, !.status = next,
                 !.byUser = next = "paused" /\ (s = "paused" \/ @),
                 !.automatic = IF restarts THEN 0 ELSE @, !.idle = IF restarts THEN 0 ELSE @]
      BY <1>3 DEF NextGoalState
    <2> HIDE DEF work, next, new, g
    <2>4. g.id = goal.id /\ g.mark = goal.mark /\ g.status = next
          /\ g.automatic = (IF restarts THEN 0 ELSE goal.automatic)
          /\ g.idle = (IF restarts THEN 0 ELSE goal.idle)
      BY <2>1, <2>3 DEF GoalType
    <2>5. g \in GoalType
      <3>1. PICK a, i, b: /\ a = (IF restarts THEN 0 ELSE goal.automatic)
                          /\ i = (IF restarts THEN 0 ELSE goal.idle)
                          /\ b = (next = "paused" /\ (s = "paused" \/ goal.byUser))
        OBVIOUS
      <3>2. a \in 0..MaxAutomatic /\ i \in 0..MaxIdle  BY <1>1, <2>1, <3>1 DEF GoalType
      <3>3. b \in BOOLEAN  BY <3>1, Zenon
      <3>4. g = [goal EXCEPT !.objective = work, !.status = next, !.byUser = b,
                   !.automatic = a, !.idle = i]
        BY <2>3, <3>1
      <3> QED  BY <2>1, <2>2, <3>2, <3>3, <3>4 DEF GoalType
    <2>6. Active(g) => g.automatic < MaxAutomatic /\ g.idle < MaxIdle
      BY <1>1, <2>1, <2>4 DEF Active, GoalInv
    <2>7. GoodGoal(g)  BY <2>1, <2>4, <2>5, <2>6 DEF GoodGoal, GoalInv, GoalType
    <2> QED  BY <1>3, <2>4, <2>5, <2>7, NullAssumption DEF NextGoal, new, g
  <1> QED  BY <1>2, <1>3

-----------------------------------------------------------------------------
(* The chain.                                                              *)

Serving == {"creating", "preparing", "committing"}
Continuing == {"continue", "start"}

(* What the operations of all turns but those of X rest on stays.          *)
Kept(X) ==
  \A t \in Turn \ X:
    /\ ask[t].stage \in Serving => ask'[t].stage = ask[t].stage
    /\ phase[t] = "settling" => phase'[t] = "settling" /\ bound'[t] = bound[t]

DueNow(due) == DueInv(due, ask, phase, bound)
DueNext(due) == DueInv(due, ask', phase', bound')

LEMMA FitsRests ==
  ASSUME NEW op, op.kind \in OfTurn, NEW stage, NEW ph, NEW b, Fits(op, stage, ph, b)
  PROVE  stage \in Serving \/ ph = "settling"
  BY DEF Fits, OfTurn, Serving

LEMMA FitsStays ==
  ASSUME NEW op, op.kind \in OfTurn, NEW stage, NEW ph, NEW b, Fits(op, stage, ph, b),
         NEW stage2, NEW ph2, NEW b2,
         stage \in Serving => stage2 = stage,
         ph = "settling" => ph2 = "settling" /\ b2 = b
  PROVE  Fits(op, stage2, ph2, b2)
  BY DEF Fits, OfTurn, Serving

LEMMA DueKept ==
  ASSUME NEW due, DueNow(due), Kept({})
  PROVE  DueNext(due)
  <1>1. ASSUME NEW i \in 1..Len(due), due[i].kind \in OfTurn
        PROVE  /\ due[i].turn \in Turn
               /\ Fits(due[i], ask'[due[i].turn].stage, phase'[due[i].turn], bound'[due[i].turn])
    <2>1. PICK t \in Turn: t = due[i].turn /\ Fits(due[i], ask[t].stage, phase[t], bound[t])
      BY <1>1 DEF DueNow, DueInv
    <2>2. Fits(due[i], ask'[t].stage, phase'[t], bound'[t])
      BY <1>1, <2>1, FitsStays DEF Kept
    <2> QED  BY <2>1, <2>2
  <1> QED  BY <1>1 DEF DueNow, DueNext, DueInv

LEMMA DueRest ==
  ASSUME NEW due \in Seq(Operation), due # <<>>, DueNow(due), NEW X, Kept(X),
         X = {} \/ (X = {Head(due).turn} /\ Head(due).kind \in OfTurn)
  PROVE  DueNext(Tail(due))
  <1>1. PICK rest \in Seq(Operation), n \in Nat:
          /\ rest = Tail(due) /\ n = Len(due) /\ Len(rest) = n - 1 /\ n > 0
          /\ \A i \in 1..(n - 1): rest[i] = due[i + 1]
    <2>1. Len(due) \in Nat /\ Len(due) > 0  BY EmptySeq, LenProperties
    <2>2. /\ Tail(due) \in Seq(Operation) /\ Len(Tail(due)) = Len(due) - 1
          /\ \A i \in 1..Len(Tail(due)): Tail(due)[i] = due[i + 1]
      BY HeadTailProperties
    <2> QED  BY <2>1, <2>2
  <1>2. Head(due) = due[1] /\ 1 \in 1..Len(due)  BY <1>1, EmptySeq
  <1>3. ASSUME NEW i \in 1..Len(rest)
        PROVE  \E j \in 2..n: j = i + 1 /\ j \in 1..Len(due) /\ rest[i] = due[j]
    BY <1>1
  <1>4. ASSUME NEW j \in 2..n, due[j].kind \in OfTurn
        PROVE  /\ due[j].turn \in Turn
               /\ Fits(due[j], ask'[due[j].turn].stage, phase'[due[j].turn], bound'[due[j].turn])
    <2>1. PICK t \in Turn: t = due[j].turn /\ Fits(due[j], ask[t].stage, phase[t], bound[t])
      BY <1>1, <1>4 DEF DueNow, DueInv
    <2>2. t \notin X
      BY <1>1, <1>2, <1>4, <2>1 DEF DueNow, DueInv
    <2>3. Fits(due[j], ask'[t].stage, phase'[t], bound'[t])
      BY <1>4, <2>1, <2>2, FitsStays DEF Kept
    <2> QED  BY <2>1, <2>3
  <1>5. ASSUME NEW j \in 2..n
        PROVE  /\ due[j].kind = "pause" => due[j].turn \in Turn
               /\ due[j].kind = "queuedGoal" => due[j].objective \in Objective
               /\ due[j].kind = "resume" => due[j].status = "active"
    BY <1>1 DEF DueNow, DueInv
  <1>6. ASSUME NEW j \in 2..n, NEW k \in 2..n,
               due[j].kind \in OfTurn, due[k].kind \in OfTurn, due[j].turn = due[k].turn
        PROVE  j = k
    BY <1>1, <1>6 DEF DueNow, DueInv
  <1>7. ASSUME NEW i \in 1..Len(rest)
        PROVE  /\ rest[i].kind \in OfTurn =>
                    /\ rest[i].turn \in Turn
                    /\ Fits(rest[i], ask'[rest[i].turn].stage, phase'[rest[i].turn], bound'[rest[i].turn])
               /\ rest[i].kind = "pause" => rest[i].turn \in Turn
               /\ rest[i].kind = "queuedGoal" => rest[i].objective \in Objective
               /\ rest[i].kind = "resume" => rest[i].status = "active"
    <2>1. PICK j \in 2..n: j = i + 1 /\ rest[i] = due[j]  BY <1>3
    <2> QED  BY <2>1, <1>4, <1>5
  <1>8. ASSUME NEW i \in 1..Len(rest), NEW l \in 1..Len(rest),
               rest[i].kind \in OfTurn, rest[l].kind \in OfTurn, rest[i].turn = rest[l].turn
        PROVE  i = l
    <2>1. PICK j \in 2..n: j = i + 1 /\ rest[i] = due[j]  BY <1>3
    <2>2. PICK k \in 2..n: k = l + 1 /\ rest[l] = due[k]  BY <1>3
    <2>3. j = k  BY <1>6, <1>8, <2>1, <2>2
    <2> QED  BY <2>1, <2>2, <2>3
  <1>9. DueNext(rest)  BY <1>7, <1>8 DEF DueNext, DueInv
  <1> QED  BY <1>1, <1>9

(* What an operation that joins the chain finds. *)
Joins(op) ==
  /\ op \in Operation
  /\ IF op.kind \in OfTurn
     THEN /\ op.turn \in Turn /\ Kept({op.turn})
          /\ ask[op.turn].stage \notin Serving /\ phase[op.turn] # "settling"
          /\ Fits(op, ask'[op.turn].stage, phase'[op.turn], bound'[op.turn])
     ELSE Kept({})
  /\ op.kind = "pause" => op.turn \in Turn
  /\ op.kind = "queuedGoal" => op.objective \in Objective
  /\ op.kind = "resume" => op.status = "active"

LEMMA DueMore ==
  ASSUME NEW due \in Seq(Operation), DueNow(due), NEW op \in Operation, Joins(op)
  PROVE  DueNext(Append(due, op))
  <1>1. PICK more \in Seq(Operation), n \in Nat:
          /\ more = Append(due, op) /\ n = Len(due) /\ Len(more) = n + 1
          /\ \A i \in 1..n: more[i] = due[i]
          /\ more[n + 1] = op
    <2>1. Len(due) \in Nat  BY LenProperties
    <2>2. /\ Append(due, op) \in Seq(Operation) /\ Len(Append(due, op)) = Len(due) + 1
          /\ \A i \in 1..Len(due): Append(due, op)[i] = due[i]
          /\ Append(due, op)[Len(due) + 1] = op
      BY AppendProperties
    <2> QED  BY <2>1, <2>2
  <1>2. PICK last \in Nat: last = n + 1 /\ more[last] = op /\ \A i \in 1..last: i \in 1..n \/ i = last
    BY <1>1
  <1>3. ASSUME NEW i \in 1..n, due[i].kind \in OfTurn
        PROVE  /\ due[i].turn \in Turn
               /\ op.kind \in OfTurn => due[i].turn # op.turn
               /\ Fits(due[i], ask'[due[i].turn].stage, phase'[due[i].turn], bound'[due[i].turn])
    <2>1. PICK t \in Turn: t = due[i].turn /\ Fits(due[i], ask[t].stage, phase[t], bound[t])
      BY <1>1, <1>3 DEF DueNow, DueInv
    <2>2. ask[t].stage \in Serving \/ phase[t] = "settling"  BY <1>3, <2>1, FitsRests
    <2>3. op.kind \in OfTurn => t # op.turn  BY <2>2 DEF Joins
    <2>4. /\ ask[t].stage \in Serving => ask'[t].stage = ask[t].stage
          /\ phase[t] = "settling" => phase'[t] = "settling" /\ bound'[t] = bound[t]
      BY <2>3 DEF Joins, Kept
    <2>5. Fits(due[i], ask'[t].stage, phase'[t], bound'[t])  BY <1>3, <2>1, <2>4, FitsStays
    <2> QED  BY <2>1, <2>3, <2>5
  <1>4. ASSUME NEW i \in 1..last
        PROVE  /\ more[i].kind \in OfTurn =>
                    /\ more[i].turn \in Turn
                    /\ Fits(more[i], ask'[more[i].turn].stage, phase'[more[i].turn], bound'[more[i].turn])
               /\ more[i].kind = "pause" => more[i].turn \in Turn
               /\ more[i].kind = "queuedGoal" => more[i].objective \in Objective
               /\ more[i].kind = "resume" => more[i].status = "active"
    <2>1. CASE i \in 1..n  BY <1>1, <1>3, <2>1 DEF DueNow, DueInv
    <2>2. CASE i = last  BY <1>2, <2>2 DEF Joins
    <2> QED  BY <1>2, <2>1, <2>2
  <1>5. ASSUME NEW i \in 1..last, NEW j \in 1..last,
               more[i].kind \in OfTurn, more[j].kind \in OfTurn, more[i].turn = more[j].turn
        PROVE  i = j
    <2>1. CASE i \in 1..n /\ j \in 1..n  BY <1>1, <1>5, <2>1 DEF DueNow, DueInv
    <2>2. CASE i = last /\ j \in 1..n  BY <1>1, <1>2, <1>3, <1>5, <2>2
    <2>3. CASE i \in 1..n /\ j = last  BY <1>1, <1>2, <1>3, <1>5, <2>3
    <2> QED  BY <1>2, <2>1, <2>2, <2>3
  <1>6. DueNext(more)
    <2>1. Len(more) = last  BY <1>1, <1>2
    <2> QED  BY <2>1, <1>4, <1>5 DEF DueNext, DueInv
  <1> QED  BY <1>1, <1>6

-----------------------------------------------------------------------------
(* The steps of the chain.                                                 *)

(* The head of the chain does its part: it leaves, or stays to continue    *)
(* the goal.                                                               *)
HeadActs ==
  /\ step \notin Continuing /\ ops # <<>>
  /\ \/ ops' = Tail(ops) /\ step' = "begin"
     \/ ops' = ops /\ step' \in Continuing

(* The head stays where it is in its part, or the continuation ends. *)
HeadStays ==
  \/ ops' = ops /\ (step \in Continuing <=> step' \in Continuing)
  \/ step \in Continuing /\ step' = "begin" /\ ops # <<>> /\ ops' = Tail(ops)

ChainType == ops \in Seq(Operation) /\ (step # "begin" => ops # <<>>)

LEMMA TailType ==
  ASSUME NEW s \in Seq(Operation), s # <<>>
  PROVE  Tail(s) \in Seq(Operation) /\ Head(s) \in Operation
  BY HeadTailProperties

LEMMA DueType ==
  ASSUME ChainType
  PROVE  Due \in Seq(Operation)
  BY TailType DEF ChainType, Due, Continuing

LEMMA DueActs ==
  ASSUME ChainType, HeadActs
  PROVE  /\ Due = ops /\ Due' = Tail(ops) /\ ops' \in Seq(Operation)
         /\ step' # "begin" => ops' # <<>>
  BY TailType DEF ChainType, Due, HeadActs, Continuing

LEMMA DueStays ==
  ASSUME ChainType, HeadStays, step' # "begin" => step # "begin" \/ ops # <<>>
  PROVE  /\ Due' = Due /\ ops' \in Seq(Operation)
         /\ step' # "begin" => ops' # <<>>
  BY TailType DEF ChainType, Due, HeadStays, Continuing

LEMMA DueJoins ==
  ASSUME ChainType, NEW op \in Operation, ops' = Append(ops, op), step' = step
  PROVE  Due' = Append(Due, op) /\ ops' \in Seq(Operation) /\ ops' # <<>>
  <1>1. ops' \in Seq(Operation) /\ ops' # <<>>  BY AppendProperties DEF ChainType
  <1>2. ops # <<>> => Tail(Append(ops, op)) = Append(Tail(ops), op)
    BY DEF ChainType
  <1> QED  BY <1>1, <1>2 DEF Due, ChainType

LEMMA HeadOfChainActs ==
  ASSUME ChainInv, StepInv, HeadActs, AskInv', NEW X, Kept(X),
         X = {} \/ (X = {Head(ops).turn} /\ Head(ops).kind \in OfTurn)
  PROVE  ChainInv'
  <1>1. ChainType /\ ops # <<>>  BY DEF ChainInv, StepInv, ChainType, HeadActs
  <1>2. Due = ops /\ Due' = Tail(ops) /\ ops' \in Seq(Operation)  BY <1>1, DueActs
  <1>3. DueNow(ops)  BY <1>2 DEF ChainInv, DueNow
  <1>4. DueNext(Tail(ops))  BY <1>1, <1>3, DueRest DEF ChainType
  <1> QED  BY <1>2, <1>4 DEF ChainInv, DueNext

LEMMA ChainStays ==
  ASSUME ChainInv, StepInv, HeadStays, step' # "begin" => step # "begin" \/ ops # <<>>,
         AskInv', Kept({})
  PROVE  ChainInv'
  <1>1. ChainType  BY DEF ChainInv, StepInv, ChainType
  <1>2. Due' = Due /\ ops' \in Seq(Operation)  BY <1>1, DueStays
  <1>3. DueNow(Due)  BY DEF ChainInv, DueNow
  <1>4. DueNext(Due)  BY <1>3, DueKept
  <1> QED  BY <1>2, <1>4 DEF ChainInv, DueNext

LEMMA ChainJoins ==
  ASSUME ChainInv, StepInv, NEW op \in Operation, ops' = Append(ops, op), step' = step,
         AskInv', Joins(op)
  PROVE  ChainInv' /\ ops' # <<>>
  <1>1. ChainType  BY DEF ChainInv, StepInv, ChainType
  <1>2. Due' = Append(Due, op) /\ ops' \in Seq(Operation) /\ ops' # <<>>  BY <1>1, DueJoins
  <1>3. DueNow(Due) /\ Due \in Seq(Operation)  BY <1>1, DueType DEF ChainInv, DueNow
  <1>4. DueNext(Append(Due, op))  BY <1>3, DueMore
  <1> QED  BY <1>2, <1>4 DEF ChainInv, DueNext

(* What the head of the chain that has yet to act finds. *)
LEMMA HeadFinds ==
  ASSUME ChainInv, step \notin Continuing, ops # <<>>
  PROVE  /\ Head(ops) \in Operation
         /\ Head(ops).kind \in OfTurn =>
              /\ Head(ops).turn \in Turn
              /\ Fits(Head(ops), ask[Head(ops).turn].stage, phase[Head(ops).turn],
                      bound[Head(ops).turn])
         /\ Head(ops).kind = "pause" => Head(ops).turn \in Turn
         /\ Head(ops).kind = "queuedGoal" => Head(ops).objective \in Objective
         /\ Head(ops).kind = "resume" => Head(ops).status = "active"
  <1>1. Due = ops /\ ops \in Seq(Operation)  BY DEF ChainInv, Due, Continuing
  <1>2. 1 \in 1..Len(ops)  BY <1>1, EmptySeq, LenProperties
  <1>3. Head(ops) = ops[1]  BY <1>1
  <1>4. Head(ops) \in Operation  BY <1>1, TailType
  <1> QED  BY <1>1, <1>2, <1>3, <1>4 DEF ChainInv, DueInv

(* The calls of the turns. *)
LEMMA AsksAnswered ==
  ASSUME AskInv, NEW g, NEW t, Publish(g, t)
  PROVE  /\ ask' \in [Turn -> AskType]
         /\ \A u \in Turn: IF u = t THEN ask'[u] = NoAsk ELSE ask'[u].stage = ask[u].stage
  <1>1. ASSUME NEW u \in Turn, u # t
        PROVE  ask'[u] \in AskType /\ ask'[u].stage = ask[u].stage
    <2>1. PICK b: ask'[u] = IF Judged(u) THEN [ask[u] EXCEPT !.changed = TRUE, !.untouched = @ /\ b]
                                        ELSE ask[u]
      BY <1>1 DEF Publish
    <2>2. ask[u] \in AskType  BY DEF AskInv
    <2>3. PICK c: c = (ask[u].untouched /\ b)  OBVIOUS
    <2>4. c \in BOOLEAN  BY <2>2, <2>3, Zenon
    <2>5. ask'[u] = IF Judged(u) THEN [ask[u] EXCEPT !.changed = TRUE, !.untouched = c] ELSE ask[u]
      BY <2>1, <2>3
    <2> QED  BY <2>2, <2>4, <2>5 DEF AskType
  <1>2. ask' = [u \in Turn |-> ask'[u]]  BY DEF Publish
  <1>3. \A u \in Turn: u = t => ask'[u] = NoAsk  BY DEF Publish
  <1>4. NoAsk \in AskType  BY DEF NoAsk, Asking, AskType, Stage
  <1> QED  BY <1>1, <1>2, <1>3, <1>4

LEMMA AsksPublished ==
  ASSUME AskInv, NEW g, Publish(g, NoTurn)
  PROVE  /\ ask' \in [Turn -> AskType]
         /\ \A t \in Turn: ask'[t].stage = ask[t].stage
  BY AsksAnswered, NoTurnAssumption

LEMMA AsksSee ==
  ASSUME AskInv, EvidenceMoves
  PROVE  /\ ask' \in [Turn -> AskType]
         /\ \A t \in Turn: ask'[t].stage = ask[t].stage
  BY DEF AskInv, EvidenceMoves, AskType

LEMMA AskTypes ==
  /\ NoAsk \in AskType /\ NoAsk.stage = "none"
  /\ Asking("creating") \in AskType /\ Asking("creating").stage = "creating"
  /\ Asking("preparing") \in AskType /\ Asking("preparing").stage = "preparing"
  BY DEF NoAsk, Asking, AskType, Stage

(* Stages and phases that stay together. *)
LEMMA AsksStay ==
  ASSUME AskInv, ask' \in [Turn -> AskType], \A t \in Turn: ask'[t].stage = ask[t].stage,
         \A t \in Turn: phase'[t] = "asking" <=> phase[t] = "asking"
  PROVE  AskInv'
  BY DEF AskInv

-----------------------------------------------------------------------------
(* Which turn works for which goal.                                        *)

LEMMA BindGrows ==
  ASSUME BindInv, lastGoal \in Nat, NEW last \in Nat, lastGoal <= last
  PROVE  /\ bound \in [Turn -> BoundType(last)] /\ completing \in [Turn -> 0..last]
         /\ retired \subseteq 1..last /\ startedUnder \in [Turn -> 0..last]
  <1>1. 0..lastGoal \subseteq 0..last /\ 1..lastGoal \subseteq 1..last  OBVIOUS
  <1>2. BoundType(lastGoal) \subseteq BoundType(last)  BY <1>1 DEF BoundType
  <1> QED  BY <1>1, <1>2 DEF BindInv

LEMMA UnboundFacts ==
  /\ Unbound.goal = 0 /\ \A last \in Nat: Unbound \in BoundType(last)
  BY DEF Unbound, BoundType

LEMMA BindPhase ==
  ASSUME BindInv, NEW t \in Turn, NEW to \in Phase \ {"unused"},
         to = "settled" => bound[t] = Unbound /\ completing[t] = 0,
         phase' = [phase EXCEPT ![t] = to], phase \in [Turn -> Phase],
         UNCHANGED <<bound, retired, startedUnder, superseded, goalTurns, unserialized, orphaned, lastGoal>>,
         completing' = completing \/ completing' = [completing EXCEPT ![t] = 0],
         lastGoal \in Nat
  PROVE  BindInv'
  BY DEF BindInv

(* A publication hands out at most one id; users who resume a goal         *)
(* supersede its turns, and its id may be retired.                         *)
LEMMA BindPublished ==
  ASSUME BindInv, GoalInv, lastGoal' \in Nat, lastGoal <= lastGoal',
         UNCHANGED <<bound, completing, startedUnder, goalTurns, unserialized, orphaned, phase>>,
         retired' \subseteq retired \/ (goal # NoGoal /\ retired' = retired \cup {goal.id}),
         superseded' = superseded \/
           (goal # NoGoal /\ superseded' = superseded \cup {t \in Turn: bound[t].goal = goal.id})
  PROVE  BindInv'
  <1>1. /\ bound \in [Turn -> BoundType(lastGoal')] /\ completing \in [Turn -> 0..lastGoal']
        /\ retired \subseteq 1..lastGoal' /\ startedUnder \in [Turn -> 0..lastGoal']
    BY BindGrows DEF GoalInv
  <1>2. goal # NoGoal => goal.id \in 1..lastGoal'  BY DEF GoalInv, GoalType
  <1>3. retired' \subseteq 1..lastGoal'  BY <1>1, <1>2
  <1>4. goal # NoGoal => \A t \in Turn: bound[t].goal = goal.id => phase[t] # "unused"
    BY <1>2, UnboundFacts DEF BindInv
  <1>5. superseded' \subseteq Turn /\ \A t \in Turn: phase[t] = "unused" => t \notin superseded'
    BY <1>4 DEF BindInv
  <1>6. bound' \in [Turn -> BoundType(lastGoal')] /\ completing' \in [Turn -> 0..lastGoal']
        /\ startedUnder' \in [Turn -> 0..lastGoal']
    BY <1>1
  <1>7. \A t \in Turn:
          /\ phase'[t] \in {"unused", "settled"} => bound'[t] = Unbound /\ completing'[t] = 0
          /\ phase'[t] = "unused" => startedUnder'[t] = 0 /\ t \notin superseded' \cup unserialized'
    BY <1>5 DEF BindInv
  <1> QED  BY <1>3, <1>5, <1>6, <1>7 DEF BindInv

(* A turn joins a goal. *)
LEMMA BindJoins ==
  ASSUME BindInv, lastGoal \in Nat, lastGoal' \in Nat, lastGoal <= lastGoal',
         NEW t \in Turn, phase[t] = "asking", NEW b \in BoundType(lastGoal'),
         bound' = [bound EXCEPT ![t] = b], phase \in [Turn -> Phase],
         phase' = [phase EXCEPT ![t] = "running"],
         completing' = completing \/
           (\E id \in 0..lastGoal': completing' = [completing EXCEPT ![t] = id]),
         UNCHANGED <<retired, startedUnder, superseded, goalTurns, unserialized>>,
         orphaned' \subseteq Turn
  PROVE  BindInv'
  <1>1. /\ bound \in [Turn -> BoundType(lastGoal')] /\ completing \in [Turn -> 0..lastGoal']
        /\ retired \subseteq 1..lastGoal' /\ startedUnder \in [Turn -> 0..lastGoal']
    BY BindGrows
  <1>2. bound' \in [Turn -> BoundType(lastGoal')] /\ completing' \in [Turn -> 0..lastGoal']
    BY <1>1
  <1> QED  BY <1>1, <1>2 DEF BindInv

LEMMA BindForgets ==
  ASSUME BindInv, lastGoal \in Nat, lastGoal' \in Nat, lastGoal <= lastGoal',
         NEW t \in Turn, Forget(t), phase \in [Turn -> Phase], phase[t] # "unused",
         UNCHANGED <<unserialized, orphaned>>
  PROVE  BindInv'
  <1>1. /\ bound \in [Turn -> BoundType(lastGoal')] /\ completing \in [Turn -> 0..lastGoal']
        /\ retired \subseteq 1..lastGoal' /\ startedUnder \in [Turn -> 0..lastGoal']
    BY BindGrows
  <1>2. bound' \in [Turn -> BoundType(lastGoal')] /\ completing' \in [Turn -> 0..lastGoal']
    BY <1>1, UnboundFacts DEF Forget
  <1>3. \A u \in Turn:
          /\ phase'[u] \in {"unused", "settled"} => bound'[u] = Unbound /\ completing'[u] = 0
          /\ phase'[u] = "unused" => startedUnder'[u] = 0 /\ u \notin superseded' \cup unserialized'
    BY DEF BindInv, Forget
  <1>4. retired' \subseteq 1..lastGoal' /\ superseded' \subseteq Turn
    BY <1>1 DEF Forget, BindInv
  <1> QED  BY <1>1, <1>2, <1>3, <1>4 DEF BindInv, Forget

(* A turn t starts. *)
Starts(t, kind, g) ==
  /\ t \in Turn /\ phase[t] = "unused" /\ StartTask(t, FALSE)
  /\ phase' = [phase EXCEPT ![t] = "running"]
  /\ startedUnder' = [startedUnder EXCEPT ![t] = IF goal = NoGoal THEN 0 ELSE goal.id]
  /\ IF kind = "goal"
     THEN /\ goalTurns' = goalTurns \cup {t}
          /\ bound' = [bound EXCEPT ![t] = [goal |-> g.id, objective |-> g.objective]]
     ELSE UNCHANGED <<goalTurns, bound>>
  /\ commandTurns' = IF kind = "command" THEN commandTurns \cup {t} ELSE commandTurns
  /\ UNCHANGED <<terminal, ended>>

LEMMA SomeTurnStarts ==
  ASSUME NEW kind, NEW g, StartTurn(kind, g)
  PROVE  \E t \in Turn: Starts(t, kind, g)
  BY DEF StartTurn, Starts

LEMMA GoalBinding ==
  ASSUME GoalInv, NEW g \in GoalType, g.id <= lastGoal
  PROVE  [goal |-> g.id, objective |-> g.objective] \in BoundType(lastGoal)
  BY DEF BoundType, GoalInv, GoalType

LEMMA BindStarts ==
  ASSUME BindInv, GoalInv, phase \in [Turn -> Phase], NEW t, NEW kind, NEW g, Starts(t, kind, g),
         kind = "goal" => g \in GoalType /\ g.id <= lastGoal,
         UNCHANGED <<completing, retired, superseded, orphaned, lastGoal>>,
         unserialized' = unserialized \/ unserialized' = unserialized \cup {t}
  PROVE  BindInv'
  <1>1. t \in Turn /\ goalTurns' \subseteq Turn /\ unserialized' \subseteq Turn  BY DEF Starts, BindInv
  <1>2. bound' \in [Turn -> BoundType(lastGoal)] /\ \A u \in Turn \ {t}: bound'[u] = bound[u]
    BY <1>1, GoalBinding DEF Starts, BindInv
  <1>3. startedUnder' \in [Turn -> 0..lastGoal] /\ \A u \in Turn \ {t}: startedUnder'[u] = startedUnder[u]
    <2>1. goal # NoGoal => goal.id \in 0..lastGoal  BY DEF GoalInv, GoalType
    <2>2. 0 \in 0..lastGoal  BY DEF GoalInv
    <2> QED  BY <1>1, <2>1, <2>2 DEF Starts, BindInv
  <1>4. phase'[t] = "running" /\ \A u \in Turn \ {t}: phase'[u] = phase[u]  BY <1>1 DEF Starts
  <1>5. \A u \in Turn:
          /\ phase'[u] \in {"unused", "settled"} => bound'[u] = Unbound /\ completing'[u] = 0
          /\ phase'[u] = "unused" => startedUnder'[u] = 0 /\ u \notin superseded' \cup unserialized'
    BY <1>1, <1>2, <1>3, <1>4 DEF BindInv
  <1> QED  BY <1>1, <1>2, <1>3, <1>5 DEF BindInv

-----------------------------------------------------------------------------
(* What is stopped.                                                        *)

(* A turn that works for a goal, for all that is excepted. *)
Works(t) == bound[t] # Unbound /\ t \notin unserialized \cup orphaned

LEMMA StopShrinks ==
  ASSUME StopInv, registered' \ aborted' \subseteq registered \ aborted,
         UNCHANGED <<bound, unserialized, orphaned, goal>>,
         step' \notin {"replacing", "clearing"} \/ step' = step,
         step = "published" => step' = "published"
  PROVE  StopInv'
  BY DEF StopInv

LEMMA StopNobody ==
  ASSUME \A t \in registered' \ aborted': ~Works(t)'
  PROVE  StopInv'
  BY DEF StopInv, Works

LEMMA StopStarts ==
  ASSUME RegistryInv, BindInv, StopInv, ActiveTurn = NoTurn, NEW t, NEW kind, NEW g, Starts(t, kind, g),
         kind = "goal" =>
           t \in unserialized' \/ (g = goal /\ Active(goal) /\ goal' = goal /\ step' = "begin")
  PROVE  StopInv'
  <1>1. registered \ aborted = {}  BY NobodyWorks
  <1>2. registered' \ aborted' \subseteq {t} /\ t \in Turn  BY <1>1 DEF Starts, StartTask
  <1>3. CASE kind = "goal"
    <2>1. bound'[t] = [goal |-> g.id, objective |-> g.objective]
      BY <1>2, <1>3 DEF Starts, BindInv
    <2>2. bound'[t].goal = g.id  BY <2>1
    <2> QED  BY <1>2, <1>3, <2>2 DEF StopInv, Active
  <1>4. CASE kind # "goal"
    <2>1. bound'[t] = Unbound  BY <1>2, <1>4 DEF Starts, BindInv
    <2> QED  BY <1>2, <2>1 DEF StopInv
  <1> QED  BY <1>3, <1>4

-----------------------------------------------------------------------------
(* What is charged.                                                        *)

LEMMA EndedGrows ==
  ASSUME NEW log \in Seq(Turn), NEW t \in Turn
  PROVE  /\ Append(log, t) \in Seq(Turn) /\ Len(log) \in Nat
         /\ Len(Append(log, t)) = Len(log) + 1
         /\ \A i \in 1..Len(log): Append(log, t)[i] = log[i]
         /\ \E i \in 1..Len(Append(log, t)): Append(log, t)[i] = t
         /\ \A i \in 1..Len(Append(log, t)): i \notin 1..Len(log) => Append(log, t)[i] = t
  <1>1. Len(log) \in Nat  BY LenProperties
  <1>2. /\ Append(log, t) \in Seq(Turn) /\ Len(Append(log, t)) = Len(log) + 1
        /\ \A i \in 1..Len(log): Append(log, t)[i] = log[i]
        /\ Append(log, t)[Len(log) + 1] = t
    BY AppendProperties
  <1>3. PICK n \in Nat: n = Len(log) + 1 /\ Append(log, t)[n] = t  BY <1>1, <1>2
  <1>4. n \in 1..Len(Append(log, t))
        /\ \A i \in 1..Len(Append(log, t)): i \notin 1..Len(log) => i = n
    BY <1>1, <1>2, <1>3
  <1> QED  BY <1>1, <1>2, <1>3, <1>4

UsagePhase(t, to) ==
  /\ t \in Turn /\ phase[t] # "settled" /\ to # "unused"
  /\ phase' = [phase EXCEPT ![t] = to]
  /\ UNCHANGED <<ended, goal, charged, terminal, startedUnder>>

LEMMA UsageMoves ==
  ASSUME UsageInv, phase \in [Turn -> Phase], NEW t, NEW to, UsagePhase(t, to)
  PROVE  UsageInv'
  BY DEF UsageInv, UsagePhase

LEMMA UsageStarts ==
  ASSUME UsageInv, phase \in [Turn -> Phase], startedUnder \in [Turn -> 0..lastGoal],
         NEW t, NEW kind, NEW g, Starts(t, kind, g), UNCHANGED <<goal, charged>>
  PROVE  UsageInv'
  BY DEF UsageInv, Starts

(* A terminal event is stored, of a turn that has not settled. *)
LEMMA UsageEnds ==
  ASSUME UsageInv, phase \in [Turn -> Phase], terminal \in [Turn -> Terminal],
         NEW t \in Turn, phase[t] # "settled", NEW event, terminal' = [terminal EXCEPT ![t] = event],
         ended' = Append(ended, t), phase' = phase \/ phase' = [phase EXCEPT ![t] = "ended"],
         UNCHANGED <<goal, charged, startedUnder>>, goal # NoGoal => goal.mark \in Nat
  PROVE  UsageInv'
  <1>1. ended \in Seq(Turn)  BY DEF UsageInv
  <1>2. PICK n \in Nat, m \in Nat:
          /\ n = Len(ended) /\ m = Len(ended') /\ m = n + 1 /\ ended' \in Seq(Turn)
          /\ \A i \in 1..n: ended'[i] = ended[i]
          /\ \E i \in 1..m: ended'[i] = t
          /\ \A i \in 1..m: i \notin 1..n => ended'[i] = t
    BY <1>1, EndedGrows
  <1>3. goal' # NoGoal => goal'.mark <= m  BY <1>2 DEF UsageInv
  <1>4. \A u \in Turn: terminal'[u] # "none" => \E i \in 1..m: ended'[i] = u
    <2> SUFFICES ASSUME NEW u \in Turn, terminal'[u] # "none"
                 PROVE  \E i \in 1..m: ended'[i] = u
      OBVIOUS
    <2>1. CASE u = t  BY <1>2, <2>1
    <2>2. CASE u # t
      <3>1. PICK i \in 1..n: ended[i] = u  BY <1>2, <2>2 DEF UsageInv
      <3>2. i \in 1..m /\ ended'[i] = u  BY <1>2, <3>1
      <3> QED  BY <3>2
    <2> QED  BY <2>1, <2>2
  <1>5. \A u \in Turn: charged'[u] = 1 =>
            /\ phase'[u] = "settled"
            /\ goal' # NoGoal /\ startedUnder'[u] = goal'.id =>
                 \A i \in 1..m: ended'[i] = u => i <= goal'.mark
    <2> SUFFICES ASSUME NEW u \in Turn, charged[u] = 1
                 PROVE  /\ phase'[u] = "settled"
                        /\ goal # NoGoal /\ startedUnder[u] = goal.id =>
                             \A i \in 1..m: ended'[i] = u => i <= goal.mark
      OBVIOUS
    <2>1. phase[u] = "settled" /\ u # t  BY DEF UsageInv
    <2>2. \A i \in 1..m: ended'[i] = u => i \in 1..n /\ ended[i] = u  BY <1>2, <2>1
    <2> QED  BY <1>2, <2>1, <2>2 DEF UsageInv
  <1> QED  BY <1>2, <1>3, <1>4, <1>5 DEF UsageInv

(* The goal changes and no turn is charged: the mark does not fall behind, *)
(* or the goal is one that no turn was started under.                      *)
LEMMA UsageGoal ==
  ASSUME UsageInv, GoalInv, BindInv,
         goal' # NoGoal =>
           /\ goal' \in GoalType
           /\ \/ goal # NoGoal /\ goal'.id = goal.id /\ goal'.mark = goal.mark
              \/ goal'.id = lastGoal + 1 /\ goal'.mark = 0,
         UNCHANGED <<ended, charged, terminal, startedUnder>>,
         \A t \in Turn: phase[t] = "settled" => phase'[t] = "settled"
  PROVE  UsageInv'
  <1>1. Len(ended) \in Nat  BY LenProperties DEF UsageInv
  <1>2. goal' # NoGoal => goal'.mark <= Len(ended)  BY <1>1 DEF UsageInv
  <1>3. ASSUME NEW t \in Turn, charged[t] = 1, goal' # NoGoal, startedUnder[t] = goal'.id
        PROVE  \A i \in 1..Len(ended): ended[i] = t => i <= goal'.mark
    <2>1. startedUnder[t] \in 0..lastGoal /\ lastGoal \in Nat  BY DEF BindInv, GoalInv
    <2>2. goal # NoGoal /\ goal'.id = goal.id /\ goal'.mark = goal.mark  BY <1>3, <2>1
    <2> QED  BY <1>3, <2>2 DEF UsageInv
  <1> QED  BY <1>1, <1>2, <1>3 DEF UsageInv

-----------------------------------------------------------------------------
(* What is verified.                                                       *)

LEMMA ReceiptSees ==
  ASSUME ReceiptInv, AskInv, EvidenceMoves, UNCHANGED <<completing, bound, superseded>>
  PROVE  ReceiptInv'
  <1>1. receipt' \in ReceiptType \cup {NoReceipt} /\
        (receipt' # NoReceipt =>
           /\ receipt # NoReceipt /\ receipt'.goal = receipt.goal /\ receipt'.objective = receipt.objective
           /\ receipt'.turn = receipt.turn /\ ~receipt'.fresh)
    BY DEF ReceiptInv, EvidenceMoves, ReceiptType
  <1>2. goal' = goal  BY DEF EvidenceMoves
  <1>3. \A t \in Turn: ask'[t] = [ask[t] EXCEPT !.fresh = FALSE, !.untouched = FALSE] /\ ask[t] \in AskType
    BY DEF EvidenceMoves, AskInv
  <1>4. \A t \in Turn: /\ ask'[t].stage = ask[t].stage /\ ask'[t].goal = ask[t].goal
                       /\ ask'[t].objective = ask[t].objective /\ ask'[t].changed = ask[t].changed
                       /\ ~ask'[t].fresh
    BY <1>3 DEF AskType
  <1>5. goal # NoGoal => \A t \in Turn: completing'[t] = goal.id => bound'[t].goal = goal.id
    BY DEF ReceiptInv
  <1>6. \A t \in Turn: Judged(t)' /\ ~ask'[t].changed =>
       /\ goal # NoGoal /\ ask'[t].goal = goal.id /\ ask'[t].objective = goal.objective
       /\ ask'[t].fresh => ask'[t].untouched
    BY <1>4 DEF ReceiptInv, Judged
  <1>7. receipt' # NoReceipt => goal # NoGoal /\ receipt'.goal = goal.id /\ receipt'.objective = goal.objective
    BY <1>1 DEF ReceiptInv
  <1> QED  BY <1>1, <1>2, <1>5, <1>6, <1>7 DEF ReceiptInv

LEMMA ReceiptPublished ==
  ASSUME ReceiptInv, GoalInv, AskInv, NEW g, NEW t, Publish(g, t),
         \A u \in Turn: g # NoGoal /\ completing'[u] = g.id =>
            /\ bound'[u].goal = g.id /\ completing[u] = g.id /\ goal # NoGoal /\ goal.id = g.id,
         \A u \in Turn: /\ goal # NoGoal /\ g # NoGoal /\ goal.id = g.id /\ completing'[u] = g.id
                        /\ u \in superseded \/ (Active(g) /\ ~Active(goal))
                        => u \in superseded'
  PROVE  ReceiptInv'
  <1> DEFINE accounting == /\ goal # NoGoal /\ g # NoGoal
                           /\ <<g.id, g.objective, g.status>> = <<goal.id, goal.objective, goal.status>>
  <1>1. /\ goal' = g /\ receipt' = ReceiptAfter(receipt, g)
        /\ sound' = IF accounting THEN sound ELSE {}
    BY DEF Publish
  <1>2. \A u \in Turn: u = t => ask'[u] = NoAsk
    BY DEF Publish
  <1>3. ASSUME NEW u \in Turn, Judged(u)'
        PROVE  ask'[u].changed
    <2>1. PICK b: ask'[u] = IF u = t THEN NoAsk ELSE
                            IF Judged(u) THEN [ask[u] EXCEPT !.changed = TRUE, !.untouched = @ /\ b]
                                         ELSE ask[u]
      BY DEF Publish
    <2>2. u # t  BY <1>2, <1>3, AskTypes DEF Judged
    <2>3. Judged(u)
      <3>1. SUFFICES ASSUME ~Judged(u) PROVE FALSE  OBVIOUS
      <3>2. ask'[u] = ask[u]  BY <2>1, <2>2, <3>1
      <3> QED  BY <1>3, <3>1, <3>2 DEF Judged
    <2>4. ask[u] \in AskType  BY DEF AskInv
    <2> QED  BY <2>1, <2>2, <2>3, <2>4 DEF AskType
  <1>4. ASSUME receipt' # NoReceipt
        PROVE  /\ receipt' = receipt /\ goal # NoGoal /\ g # NoGoal
               /\ receipt.goal = g.id /\ receipt.objective = g.objective
               /\ g.id = goal.id /\ g.objective = goal.objective
    BY <1>1, <1>4 DEF ReceiptAfter, ReceiptInv
  <1>5. ASSUME receipt' # NoReceipt, Active(g), receipt.passed, receipt.fresh,
               completing'[receipt.turn] = g.id
        PROVE  receipt.turn \in sound' \cup superseded'
    <2>1. receipt # NoReceipt /\ receipt.turn \in Turn
      BY <1>4, <1>5 DEF ReceiptInv, ReceiptType
    <2>2. completing[receipt.turn] = goal.id  BY <1>4, <1>5, <2>1
    <2>3. CASE Active(goal)
      <3>1. accounting  BY <1>4, <1>5, <2>3 DEF Active
      <3>2. receipt.turn \in sound \cup superseded  BY <1>5, <2>1, <2>2, <2>3 DEF ReceiptInv
      <3> QED  BY <1>1, <1>4, <1>5, <2>1, <3>1, <3>2
    <2>4. CASE ~Active(goal)  BY <1>4, <1>5, <2>1, <2>4
    <2> QED  BY <2>3, <2>4
  <1>6. receipt' \in ReceiptType \cup {NoReceipt}  BY <1>1 DEF ReceiptAfter, ReceiptInv
  <1>7. g # NoGoal => \A u \in Turn: completing'[u] = g.id => bound'[u].goal = g.id
    OBVIOUS
  <1> QED  BY <1>1, <1>3, <1>4, <1>5, <1>6, <1>7 DEF ReceiptInv

(* Nothing is published, and nothing new is promised. *)
LEMMA ReceiptStays ==
  ASSUME ReceiptInv, GoalInv, UNCHANGED <<receipt, goal, sound>>,
         \A u \in Turn: goal # NoGoal /\ completing'[u] = goal.id =>
            /\ bound'[u] = bound[u] /\ completing[u] = goal.id
            /\ u \in superseded => u \in superseded',
         \A u \in Turn: Judged(u)' =>
            /\ Judged(u)
            /\ ask'[u].goal = ask[u].goal /\ ask'[u].objective = ask[u].objective
            /\ ask'[u].changed = ask[u].changed /\ ask'[u].fresh = ask[u].fresh
            /\ ask'[u].untouched = ask[u].untouched
  PROVE  ReceiptInv'
  <1>1. receipt # NoReceipt => receipt.turn \in Turn  BY DEF ReceiptInv, ReceiptType
  <1>2. \A u \in Turn: Judged(u)' /\ ~ask'[u].changed =>
       /\ goal # NoGoal /\ ask'[u].goal = goal.id /\ ask'[u].objective = goal.objective
       /\ ask'[u].fresh => ask'[u].untouched
    BY DEF ReceiptInv
  <1>3. goal # NoGoal => \A u \in Turn: completing'[u] = goal.id => bound'[u].goal = goal.id
    BY DEF ReceiptInv
  <1>4. ASSUME receipt # NoReceipt, Active(goal), receipt.passed, receipt.fresh,
               completing'[receipt.turn] = goal.id
        PROVE  receipt.turn \in sound' \cup superseded'
    BY <1>1, <1>4 DEF ReceiptInv
  <1> QED  BY <1>2, <1>3, <1>4 DEF ReceiptInv

-----------------------------------------------------------------------------
(* What is counted.                                                        *)

LEMMA AutonomyStays ==
  ASSUME AutonomyInv, UNCHANGED <<unattended, uncounted, goal>>,
         Active(goal) /\ Unsettling(goal) => Unsettling(goal)'
  PROVE  AutonomyInv'
  BY DEF AutonomyInv

LEMMA AutonomyRests ==
  ASSUME AutonomyInv, unattended' = 0, uncounted' = uncounted, goal' \in GoalType \cup {NoGoal}
  PROVE  AutonomyInv'
  BY GoalLimits DEF AutonomyInv, Active, GoalType

LEMMA AutonomyStops ==
  ASSUME AutonomyInv, UNCHANGED <<unattended, uncounted>>, ~Active(goal')
  PROVE  AutonomyInv'
  BY DEF AutonomyInv

(* A turn that is due stays due while it keeps its goal. *)
LEMMA UnsettlingStays ==
  ASSUME NEW g, Unsettling(g), goal' = g,
         \A t \in goalTurns \ (superseded \cup unserialized):
           bound[t] = [goal |-> g.id, objective |-> g.objective] =>
             t \in goalTurns' \ (superseded' \cup unserialized') /\ bound'[t] = bound[t]
  PROVE  Unsettling(goal)'
  BY DEF Unsettling

-----------------------------------------------------------------------------
(* Users, clients and the send queue.                                      *)

LEMMA QuietStep ==
  ASSUME Inv, UNCHANGED <<goalVars, turnVars, mapVars, ops, step, looseVars,
                          charged, unattended, uncounted>>
  PROVE  Inv'
  <1> USE DEF goalVars, turnVars, registryVars, mapVars, looseVars
  <1>1. RegistryInv'  BY RegistryFrame DEF Inv, registryPart
  <1>2. GoalInv'  BY GoalFrame DEF Inv, goalPart
  <1>3. StepInv'  BY StepFrame DEF Inv, stepPart
  <1>4. ChainInv'  BY ChainFrame DEF Inv, chainPart
  <1>5. BindInv'  BY BindFrame DEF Inv, bindPart
  <1>6. StopInv'  BY StopFrame DEF Inv, stopPart
  <1>7. UsageInv'  BY UsageFrame DEF Inv, usagePart
  <1>8. AutonomyInv'  BY AutonomyFrame DEF Inv, autonomyPart
  <1>9. ReceiptInv'  BY ReceiptFrame DEF Inv, receiptPart
  <1> QED  BY <1>1, <1>2, <1>3, <1>4, <1>5, <1>6, <1>7, <1>8, <1>9 DEF Inv

(* A request of a user or of the send queue joins the chain. *)
LEMMA JoinStep ==
  ASSUME Inv, NEW op \in Operation, op.kind \notin OfTurn, ops' = Append(ops, op),
         op.kind = "pause" => op.turn \in Turn,
         op.kind = "queuedGoal" => op.objective \in Objective,
         op.kind = "resume" => op.status = "active",
         UNCHANGED <<goalVars, turnVars, mapVars, step, looseVars, charged, unattended, uncounted>>
  PROVE  Inv'
  <1> USE DEF goalVars, turnVars, registryVars, mapVars, looseVars
  <1>1. RegistryInv'  BY RegistryFrame DEF Inv, registryPart
  <1>2. GoalInv'  BY GoalFrame DEF Inv, goalPart
  <1>3. ChainInv' /\ ops' # <<>>
    <2>1. AskInv'  BY DEF Inv, ChainInv, AskInv
    <2>2. Joins(op)  BY DEF Joins, Kept
    <2> QED  BY <2>1, <2>2, ChainJoins DEF Inv
  <1>4. StepInv'  BY <1>3 DEF Inv, StepInv
  <1>5. BindInv'  BY BindFrame DEF Inv, bindPart
  <1>6. StopInv'  BY StopFrame DEF Inv, stopPart
  <1>7. UsageInv'  BY UsageFrame DEF Inv, usagePart
  <1>8. AutonomyInv'  BY AutonomyFrame DEF Inv, autonomyPart
  <1>9. ReceiptInv'  BY ReceiptFrame DEF Inv, receiptPart
  <1> QED  BY <1>1, <1>2, <1>3, <1>4, <1>5, <1>6, <1>7, <1>8, <1>9 DEF Inv

LEMMA OpType ==
  ASSUME NEW kind \in Kind, NEW t \in Turn \cup {NoTurn}, NEW o \in Objective \cup {Keep},
         NEW s \in {"active", "paused", Keep}
  PROVE  /\ Op(kind, t, o, s) \in Operation
         /\ Op(kind, t, o, s).kind = kind /\ Op(kind, t, o, s).turn = t
         /\ Op(kind, t, o, s).objective = o /\ Op(kind, t, o, s).status = s
  BY DEF Op, Operation

LEMMA RequestStep ==
  ASSUME Inv, CallSetGoal \/ CallClearGoal \/ CallResumeGoal \/ DispatchGoal
  PROVE  Inv'
  <1>1. PICK kind \in {"set", "clear", "resume", "queuedGoal"}, o \in Objective \cup {Keep},
             s \in {"active", "paused", Keep}:
          /\ Submit(Op(kind, NoTurn, o, s))
          /\ kind = "queuedGoal" => o \in Objective
          /\ kind = "resume" => s = "active"
    BY DEF CallSetGoal, CallClearGoal, CallResumeGoal, DispatchGoal
  <1>2. PICK op \in Operation: op = Op(kind, NoTurn, o, s) /\ op.kind = kind
                               /\ op.objective = o /\ op.status = s
    BY OpType DEF Kind
  <1>3. /\ ops' = Append(ops, op)
        /\ UNCHANGED <<goalVars, turnVars, mapVars, step, looseVars, charged, unattended, uncounted>>
    BY <1>1, <1>2 DEF Submit
  <1>4. op.kind \notin OfTurn /\ op.kind # "pause"  BY <1>2 DEF OfTurn
  <1> QED  BY <1>1, <1>2, <1>3, <1>4, JoinStep

LEMMA CancelStep ==
  ASSUME Inv, NEW t \in Turn, CancelTurn(t)
  PROVE  Inv'
  <1>1. UNCHANGED <<goalVars, turnVars, mapVars, step, looseVars, charged, unattended, uncounted>>
    BY DEF CancelTurn
  <1>2. CASE t \in goalTurns
    <2>1. PICK op \in Operation: op = Op("pause", t, Keep, "paused") /\ op.kind = "pause" /\ op.turn = t
      BY OpType DEF Kind
    <2>2. ops' = Append(ops, op)  BY <1>2, <2>1 DEF CancelTurn
    <2>3. op.kind \notin OfTurn  BY <2>1 DEF OfTurn
    <2> QED  BY <1>1, <2>1, <2>2, <2>3, JoinStep
  <1>3. CASE t \notin goalTurns
    <2>1. UNCHANGED ops  BY <1>3 DEF CancelTurn
    <2> QED  BY <1>1, <2>1, QuietStep
  <1> QED  BY <1>2, <1>3

(* The chain does not move. *)
LEMMA NoOperationMoves ==
  ASSUME ChainInv, StepInv, AskInv', Kept({}), UNCHANGED <<ops, step>>
  PROVE  ChainInv'
  BY ChainStays DEF HeadStays

LEMMA SeenByChain ==
  ASSUME ChainInv, StepInv, EvidenceMoves, UNCHANGED <<ops, step, bound>>,
         \A t \in Turn: /\ phase'[t] = "asking" <=> phase[t] = "asking"
                        /\ phase[t] = "settling" => phase'[t] = "settling"
  PROVE  ChainInv'
  <1>1. ask' \in [Turn -> AskType] /\ \A t \in Turn: ask'[t].stage = ask[t].stage
    BY AsksSee DEF ChainInv
  <1>2. AskInv'  BY <1>1, AsksStay DEF ChainInv
  <1>3. Kept({})  BY <1>1 DEF Kept
  <1> QED  BY <1>2, <1>3, NoOperationMoves

LEMMA EvidenceStep ==
  ASSUME Inv, NewEvidence
  PROVE  Inv'
  <1> USE DEF turnVars, registryVars, mapVars, chainVars, looseVars, countVars
  <1>0. EvidenceMoves /\ UNCHANGED <<turnVars, mapVars, chainVars, looseVars, countVars, goal, lastGoal>>
    BY DEF NewEvidence, EvidenceMoves
  <1>1. RegistryInv'  BY <1>0, RegistryFrame DEF Inv, registryPart
  <1>2. GoalInv'  BY <1>0, GoalFrame DEF Inv, goalPart
  <1>3. StepInv'  BY <1>0, StepFrame DEF Inv, stepPart
  <1>4. ChainInv'  BY <1>0, SeenByChain DEF Inv
  <1>5. BindInv'  BY <1>0, BindFrame DEF Inv, bindPart
  <1>6. StopInv'  BY <1>0, StopFrame DEF Inv, stopPart
  <1>7. UsageInv'  BY <1>0, UsageFrame DEF Inv, usagePart
  <1>8. AutonomyInv'  BY <1>0, AutonomyFrame DEF Inv, autonomyPart
  <1>9. ReceiptInv'  BY <1>0, ReceiptSees DEF Inv, ChainInv
  <1> QED  BY <1>1, <1>2, <1>3, <1>4, <1>5, <1>6, <1>7, <1>8, <1>9 DEF Inv

LEMMA RegularStep ==
  ASSUME Inv, StartRegular
  PROVE  Inv'
  <1> USE DEF mapVars, chainVars, looseVars
  <1>0. /\ EvidenceMoves /\ CanStart
        /\ UNCHANGED <<completing, retired, superseded, chainVars, looseVars, charged, uncounted,
                       unattended, goal, lastGoal>>
    BY DEF StartRegular, EvidenceMoves
  <1>t. PICK t \in Turn: Starts(t, "regular", NoGoal)
    BY SomeTurnStarts DEF StartRegular
  <1>p. /\ ActiveTurn = NoTurn /\ phase[t] = "unused" /\ UNCHANGED <<bound, goalTurns, terminal, ended>>
        /\ phase' = [phase EXCEPT ![t] = "running"] /\ phase \in [Turn -> Phase]
        /\ StartTask(t, FALSE)
    BY <1>0, <1>t DEF CanStart, Starts, Inv, RegistryInv
  <1>1. RegistryInv'  BY <1>p, RegistryStarts DEF Inv
  <1>2. GoalInv'  BY <1>0, GoalFrame DEF Inv, goalPart
  <1>3. StepInv'  BY <1>0, StepFrame DEF Inv, stepPart
  <1>4. ChainInv'  BY <1>0, <1>p, SeenByChain DEF Inv
  <1>5. BindInv'  BY <1>0, <1>t, <1>p, BindStarts DEF Inv
  <1>6. StopInv'  BY <1>0, <1>t, <1>p, StopStarts DEF Inv
  <1>7. UsageInv'  BY <1>0, <1>t, <1>p, UsageStarts DEF Inv, BindInv
  <1>8. AutonomyInv'  BY <1>0, <1>p, AutonomyFrame DEF Inv, autonomyPart
  <1>9. ReceiptInv'  BY <1>0, <1>p, ReceiptSees DEF Inv, ChainInv
  <1> QED  BY <1>1, <1>2, <1>3, <1>4, <1>5, <1>6, <1>7, <1>8, <1>9 DEF Inv

LEMMA CommandStep ==
  ASSUME Inv, StartCommand
  PROVE  Inv'
  <1> USE DEF goalVars, mapVars, chainVars, looseVars
  <1>0. /\ CanStart
        /\ UNCHANGED <<goalVars, completing, retired, superseded, chainVars, looseVars, charged,
                       uncounted, unattended>>
    BY DEF StartCommand
  <1>t. PICK t \in Turn: Starts(t, "command", NoGoal)
    BY SomeTurnStarts DEF StartCommand
  <1>p. /\ ActiveTurn = NoTurn /\ phase[t] = "unused" /\ UNCHANGED <<bound, goalTurns, terminal, ended>>
        /\ phase' = [phase EXCEPT ![t] = "running"] /\ phase \in [Turn -> Phase]
        /\ StartTask(t, FALSE)
    BY <1>0, <1>t DEF CanStart, Starts, Inv, RegistryInv
  <1>1. RegistryInv'  BY <1>p, RegistryStarts DEF Inv
  <1>2. GoalInv'  BY <1>0, GoalFrame DEF Inv, goalPart
  <1>3. StepInv'  BY <1>0, StepFrame DEF Inv, stepPart
  <1>4. ChainInv'
    <2>1. AskInv'  BY <1>0, <1>p DEF Inv, ChainInv, AskInv
    <2>2. Kept({})  BY <1>0, <1>p DEF Kept
    <2> QED  BY <1>0, <2>1, <2>2, NoOperationMoves DEF Inv
  <1>5. BindInv'  BY <1>0, <1>t, <1>p, BindStarts DEF Inv
  <1>6. StopInv'  BY <1>0, <1>t, <1>p, StopStarts DEF Inv
  <1>7. UsageInv'  BY <1>0, <1>t, <1>p, UsageStarts DEF Inv, BindInv
  <1>8. AutonomyInv'  BY <1>0, <1>p, AutonomyFrame DEF Inv, autonomyPart
  <1>9. ReceiptInv'  BY <1>0, <1>p, ReceiptFrame DEF Inv, receiptPart
  <1> QED  BY <1>1, <1>2, <1>3, <1>4, <1>5, <1>6, <1>7, <1>8, <1>9 DEF Inv

(* What an abort does, if there is one. *)
LEMMA AbortMoves ==
  ASSUME Inv, NEW c \in BOOLEAN, NEW t, AbortIf(c, t), c => t \in registered,
         UNCHANGED <<charged, completing, bound, superseded>>
  PROVE  /\ RegistryInv' /\ UsageInv' /\ ReceiptInv' /\ AskInv'
         /\ UNCHANGED <<registered, goal, lastGoal, phase, startedUnder, goalTurns>>
         /\ \A u \in Turn: ask'[u].stage = ask[u].stage
         /\ registered' \ aborted' \subseteq registered \ aborted
         /\ c => t \notin registered' \ aborted'
  <1>1. CASE ~c
    <2>1. UNCHANGED <<turnVars, goalVars>>  BY <1>1 DEF AbortIf
    <2> USE DEF turnVars, registryVars, goalVars
    <2>2. RegistryInv'  BY <2>1, RegistryFrame DEF Inv, registryPart
    <2>3. UsageInv'  BY <2>1, UsageFrame DEF Inv, usagePart
    <2>4. ReceiptInv'  BY <2>1, ReceiptFrame DEF Inv, receiptPart
    <2>5. AskInv'  BY <2>1 DEF Inv, ChainInv, AskInv
    <2> QED  BY <1>1, <2>1, <2>2, <2>3, <2>4, <2>5
  <1>2. CASE c
    <2>1. Abort(t) /\ t \in registered  BY <1>2 DEF AbortIf
    <2>2. t \in Turn /\ phase[t] # "settled" /\ phase \in [Turn -> Phase] /\ terminal \in [Turn -> Terminal]
      BY <2>1, PhaseFacts DEF Inv, RegistryInv, RegistryTypeOK
    <2>3. /\ EvidenceMoves /\ UNCHANGED <<registered, goal, lastGoal, phase, startedUnder, goalTurns>>
          /\ aborted' = aborted \cup {t}
      BY <2>1 DEF Abort, AbortTask, EvidenceMoves
    <2>4. RegistryInv'  BY <2>1, RegistryAborts DEF Inv
    <2>5. UsageInv'
      <3>1. goal # NoGoal => goal.mark \in Nat  BY DEF Inv, GoalInv, GoalType
      <3>2. CASE terminal[t] = "none"
        BY <2>1, <2>2, <2>3, <3>1, <3>2, UsageEnds DEF Abort, Inv
      <3>3. CASE terminal[t] # "none"
        <4>1. UNCHANGED usagePart  BY <2>1, <2>3, <3>3 DEF usagePart, Abort
        <4> QED  BY <4>1, UsageFrame DEF Inv
      <3> QED  BY <3>2, <3>3
    <2>6. ask' \in [Turn -> AskType] /\ \A u \in Turn: ask'[u].stage = ask[u].stage
      BY <2>3, AsksSee DEF Inv, ChainInv
    <2>7. AskInv'  BY <2>3, <2>6, AsksStay DEF Inv, ChainInv
    <2>8. ReceiptInv'  BY <2>3, ReceiptSees DEF Inv, ChainInv
    <2> QED  BY <2>3, <2>4, <2>5, <2>6, <2>7, <2>8
  <1> QED  BY <1>1, <1>2

LEMMA AbortCancelledStep ==
  ASSUME Inv, AbortCancelled
  PROVE  Inv'
  <1> USE DEF mapVars, chainVars, looseVars, countVars
  <1>0. UNCHANGED <<mapVars, chainVars, looseVars, countVars>>  BY DEF AbortCancelled
  <1>t. PICK t: AbortIf(Cancellable(t), t)  BY DEF AbortCancelled
  <1>b. PICK c \in BOOLEAN: c <=> Cancellable(t)  OBVIOUS
  <1>c. AbortIf(c, t) /\ (c => t \in registered)  BY <1>t, <1>b DEF AbortIf, Cancellable
  <1>1. /\ RegistryInv' /\ UsageInv' /\ ReceiptInv' /\ AskInv'
        /\ UNCHANGED <<registered, goal, lastGoal, phase, startedUnder, goalTurns>>
        /\ \A u \in Turn: ask'[u].stage = ask[u].stage
        /\ registered' \ aborted' \subseteq registered \ aborted
    BY <1>0, <1>c, AbortMoves
  <1>2. GoalInv'  BY <1>0, <1>1, GoalFrame DEF Inv, goalPart
  <1>3. StepInv'  BY <1>0, <1>1, StepFrame DEF Inv, stepPart
  <1>4. ChainInv'
    <2>1. Kept({})  BY <1>0, <1>1 DEF Kept
    <2> QED  BY <1>0, <1>1, <2>1, NoOperationMoves DEF Inv
  <1>5. BindInv'  BY <1>0, <1>1, BindFrame DEF Inv, bindPart
  <1>6. StopInv'  BY <1>0, <1>1, StopShrinks DEF Inv
  <1>8. AutonomyInv'  BY <1>0, <1>1, AutonomyFrame DEF Inv, autonomyPart
  <1> QED  BY <1>1, <1>2, <1>3, <1>4, <1>5, <1>6, <1>8 DEF Inv

LEMMA AdmissionStep ==
  ASSUME Inv, BeginDeletion \/ DeletionFails
  PROVE  Inv'
  <1> USE DEF goalVars, mapVars, chainVars
  <1>0. /\ UNCHANGED <<goalVars, terminal, ended, startedUnder, phase, goalTurns, mapVars, ops, step,
                       looseGoal, unserialized, orphaned, charged, uncounted, unattended>>
        /\ Refuse("deleting") \/ Readmit("deleting")
        /\ loose' = "start" => loose = "start"
    BY DEF BeginDeletion, DeletionFails, looseVars, countVars
  <1>e. UNCHANGED <<registered, current, aborted>>  BY <1>0 DEF Refuse, Readmit
  <1>1. RegistryInv'  BY <1>0, RegistryAdmits DEF Inv, Reason
  <1>2. GoalInv'  BY <1>0 DEF Inv, GoalInv
  <1>3. StepInv'  BY <1>0, StepFrame DEF Inv, stepPart
  <1>4. ChainInv'  BY <1>0, ChainFrame DEF Inv, chainPart
  <1>5. BindInv'  BY <1>0, BindFrame DEF Inv, bindPart
  <1>6. StopInv'  BY <1>0, <1>e, StopFrame DEF Inv, stopPart
  <1>7. UsageInv'  BY <1>0, UsageFrame DEF Inv, usagePart
  <1>8. AutonomyInv'  BY <1>0, AutonomyFrame DEF Inv, autonomyPart
  <1>9. ReceiptInv'  BY <1>0, ReceiptFrame DEF Inv, receiptPart
  <1> QED  BY <1>1, <1>2, <1>3, <1>4, <1>5, <1>6, <1>7, <1>8, <1>9 DEF Inv

-----------------------------------------------------------------------------
(* The life of a turn.                                                     *)

(* A turn moves between phases in which the chain does not serve it; it    *)
(* may end, or withdraw what it promised.                                  *)
LEMMA MoveStep ==
  ASSUME Inv, NEW t \in Turn, NEW to \in Phase \ {"unused", "asking", "settling"},
         to = "settled" => bound[t] = Unbound /\ completing[t] = 0,
         phase[t] \notin {"settled", "asking", "settling"}, TurnMoves(t, to),
         RegistryInv', UsageInv', registered' \ aborted' \subseteq registered \ aborted,
         completing' = completing \/ completing' = [completing EXCEPT ![t] = 0]
  PROVE  Inv'
  <1> USE DEF goalVars, chainVars, looseVars, countVars
  <1>0. /\ phase' = [phase EXCEPT ![t] = to] /\ phase \in [Turn -> Phase]
        /\ UNCHANGED <<goalVars, startedUnder, goalTurns, bound, retired, superseded, chainVars,
                       looseVars, countVars>>
    BY DEF TurnMoves, Inv, RegistryInv
  <1>2. GoalInv'  BY <1>0, GoalFrame DEF Inv, goalPart
  <1>3. StepInv'  BY <1>0, StepFrame DEF Inv, stepPart
  <1>4. ChainInv'
    <2>1. AskInv'  BY <1>0 DEF Inv, ChainInv, AskInv
    <2>2. Kept({})  BY <1>0 DEF Kept
    <2> QED  BY <1>0, <2>1, <2>2, NoOperationMoves DEF Inv
  <1>5. BindInv'  BY <1>0, BindPhase DEF Inv, GoalInv
  <1>6. StopInv'  BY <1>0, StopShrinks DEF Inv
  <1>8. AutonomyInv'  BY <1>0, AutonomyFrame DEF Inv, autonomyPart
  <1>9. ReceiptInv'
    <2>1. \A u \in Turn: completing'[u] = completing[u] \/ completing'[u] = 0
      BY DEF Inv, BindInv
    <2>2. goal # NoGoal => goal.id # 0  BY DEF Inv, GoalInv, GoalType
    <2>3. \A u \in Turn: goal # NoGoal /\ completing'[u] = goal.id =>
            /\ bound'[u] = bound[u] /\ completing[u] = goal.id
            /\ u \in superseded => u \in superseded'
      BY <1>0, <2>1, <2>2
    <2>4. \A u \in Turn: Judged(u)' <=> Judged(u)  BY <1>0 DEF Judged
    <2> QED  BY <1>0, <2>3, <2>4, ReceiptStays DEF Inv
  <1> QED  BY <1>2, <1>3, <1>4, <1>5, <1>6, <1>8, <1>9 DEF Inv

LEMMA CloseStep ==
  ASSUME Inv, Close
  PROVE  Inv'
  <1>1. PICK t \in registered \ aborted, withdrawn \in BOOLEAN:
          /\ phase[t] = "running"
          /\ completing' = IF withdrawn THEN [completing EXCEPT ![t] = 0] ELSE completing
          /\ TurnMoves(t, IF withdrawn THEN "running" ELSE "closing")
          /\ UNCHANGED <<registryVars, terminal, ended>>
    BY DEF Close
  <1>2. PICK to \in {"running", "closing"}: TurnMoves(t, to)  BY <1>1
  <1>3. to \in Phase /\ to \in Live /\ phase[t] \in Live /\ t \in Turn
    BY <1>1, PhaseFacts DEF Live, Inv, RegistryInv, RegistryTypeOK
  <1>4. phase' = [phase EXCEPT ![t] = to] /\ phase \in [Turn -> Phase]
        /\ UNCHANGED <<goal, charged, startedUnder>>
    BY <1>2 DEF TurnMoves, Inv, RegistryInv, goalVars, countVars
  <1>5. RegistryInv'  BY <1>1, <1>3, <1>4, RegistryPhase DEF Inv
  <1>6. UsageInv'
    <2>1. UsagePhase(t, to)  BY <1>1, <1>3, <1>4 DEF UsagePhase
    <2> QED  BY <1>4, <2>1, UsageMoves DEF Inv
  <1>7. registered' \ aborted' \subseteq registered \ aborted  BY <1>1 DEF registryVars
  <1>8. completing' = completing \/ completing' = [completing EXCEPT ![t] = 0]  BY <1>1
  <1> QED  BY <1>1, <1>2, <1>3, <1>5, <1>6, <1>7, <1>8, MoveStep

LEMMA EndStep ==
  ASSUME Inv, Complete \/ Fail
  PROVE  Inv'
  <1>1. PICK t \in registered, event \in Terminal \ {"none"}:
          phase[t] \in {"running", "closing"} /\ EndsWith(t, event)
    BY DEF Complete, Fail, Terminal
  <1>2. "ended" \in Phase /\ t \in Turn
    BY PhaseFacts DEF Inv, RegistryInv, RegistryTypeOK
  <1>3. /\ phase' = [phase EXCEPT ![t] = "ended"] /\ phase \in [Turn -> Phase]
        /\ terminal' = [terminal EXCEPT ![t] = event] /\ terminal \in [Turn -> Terminal]
        /\ ended' = Append(ended, t)
        /\ UNCHANGED <<registryVars, completing, goal, charged, startedUnder>>
        /\ TurnMoves(t, "ended")
    BY <1>1 DEF EndsWith, TurnMoves, Inv, RegistryInv, goalVars, countVars
  <1>4. RegistryInv'  BY <1>1, <1>3, RegistryEnds DEF Inv
  <1>5. UsageInv'
    <2>1. goal # NoGoal => goal.mark \in Nat  BY DEF Inv, GoalInv, GoalType
    <2> QED  BY <1>1, <1>2, <1>3, <2>1, UsageEnds DEF Inv
  <1>6. registered' \ aborted' \subseteq registered \ aborted  BY <1>3 DEF registryVars
  <1> QED  BY <1>1, <1>2, <1>3, <1>4, <1>5, <1>6, MoveStep

LEMMA UnwindStep ==
  ASSUME Inv, Unwind
  PROVE  Inv'
  <1>1. PICK t \in aborted: /\ phase[t] \in {"running", "closing"} /\ TurnMoves(t, "ended")
                            /\ UNCHANGED <<registryVars, terminal, ended, completing>>
    BY DEF Unwind
  <1>2. t \in Turn /\ t \in registered /\ terminal[t] # "none" /\ "ended" \in Phase
        /\ "ended" \in Live /\ phase[t] \in Live
    BY <1>1, PhaseFacts DEF Inv, RegistryInv, RegistryTypeOK, Live
  <1>3. phase' = [phase EXCEPT ![t] = "ended"] /\ phase \in [Turn -> Phase]
        /\ UNCHANGED <<goal, charged, startedUnder>>
    BY <1>1 DEF TurnMoves, Inv, RegistryInv, goalVars, countVars
  <1>4. RegistryInv'  BY <1>1, <1>2, <1>3, RegistryPhase DEF Inv
  <1>5. UsageInv'
    <2>1. UsagePhase(t, "ended")  BY <1>1, <1>2, <1>3 DEF UsagePhase
    <2> QED  BY <1>3, <2>1, UsageMoves DEF Inv
  <1>6. registered' \ aborted' \subseteq registered \ aborted  BY <1>1 DEF registryVars
  <1> QED  BY <1>1, <1>2, <1>4, <1>5, <1>6, MoveStep

LEMMA FinishStep ==
  ASSUME Inv, CommandInv, Finish
  PROVE  Inv'
  <1>1. PICK t \in registered, to \in {"done", "settled"}:
          /\ phase[t] = "ended" /\ FinishTask(t) /\ TurnMoves(t, to)
          /\ to = "settled" => t \in commandTurns
          /\ UNCHANGED <<terminal, ended, completing>>
    BY DEF Finish
  <1>2. t \in Turn /\ to \in Phase  BY PhaseFacts DEF Inv, RegistryInv, RegistryTypeOK
  <1>3. phase' = [phase EXCEPT ![t] = to] /\ phase \in [Turn -> Phase]
        /\ UNCHANGED <<goal, charged, startedUnder>>
    BY <1>1 DEF TurnMoves, Inv, RegistryInv, goalVars, countVars
  <1>4. RegistryInv'  BY <1>1, <1>3, RegistryFinishes DEF Inv
  <1>5. UsageInv'
    <2>1. UsagePhase(t, to)  BY <1>1, <1>2, <1>3 DEF UsagePhase
    <2> QED  BY <1>3, <2>1, UsageMoves DEF Inv
  <1>6. registered' \ aborted' \subseteq registered \ aborted  BY <1>1 DEF FinishTask
  <1>7. to = "settled" => bound[t] = Unbound /\ completing[t] = 0  BY <1>1 DEF CommandInv
  <1>8. to \in Phase \ {"unused", "asking", "settling"}  BY <1>2
  <1> QED  BY <1>1, <1>2, <1>4, <1>5, <1>6, <1>7, <1>8, MoveStep

(* A turn hands itself to the chain: it asks for a goal, or has ended.     *)
LEMMA HandOver ==
  ASSUME Inv, NEW t \in Turn, NEW to \in {"asking", "settling"},
         phase[t] = IF to = "asking" THEN "running" ELSE "done",
         phase' = [phase EXCEPT ![t] = to],
         NEW op \in Operation, op.kind \in OfTurn, op.turn = t, ops' = Append(ops, op),
         Fits(op, ask'[t].stage, to, bound[t]),
         NEW a \in AskType, ask' = [ask EXCEPT ![t] = a],
         a.stage \in {"none", "creating", "preparing"}, a.stage # "none" <=> to = "asking",
         UNCHANGED <<goal, lastGoal, receipt, sound, registryVars, terminal, ended, startedUnder,
                     goalTurns, mapVars, step, looseVars, charged, unattended, uncounted>>
  PROVE  Inv'
  <1> USE DEF mapVars, looseVars
  <1>0. /\ phase \in [Turn -> Phase] /\ to \in Phase \ {"unused", "settled"}
        /\ phase[t] \in Live <=> to \in Live
        /\ to = "settling" => terminal[t] # "none"
    BY PhaseFacts DEF Inv, RegistryInv, Live
  <1>1. RegistryInv'  BY <1>0, RegistryPhase DEF Inv
  <1>2. GoalInv'  BY GoalFrame DEF Inv, goalPart
  <1>3. ChainInv' /\ ops' # <<>>
    <2>1. ask[t].stage = "none"  BY DEF Inv, ChainInv, AskInv
    <2>2. AskInv'  BY <1>0 DEF Inv, ChainInv, AskInv
    <2>3. Kept({t})  BY <1>0 DEF Kept, Inv, ChainInv, AskInv
    <2>4. op.kind \notin {"pause", "queuedGoal", "resume"}  BY DEF OfTurn
    <2>5. Joins(op)
      BY <1>0, <2>1, <2>3, <2>4 DEF Joins, Serving
    <2> QED  BY <2>2, <2>5, ChainJoins DEF Inv
  <1>4. StepInv'  BY <1>3 DEF Inv, StepInv
  <1>5. BindInv'  BY <1>0, BindPhase DEF Inv, GoalInv
  <1>6. StopInv'  BY StopFrame DEF Inv, stopPart, registryVars
  <1>7. UsageInv'
    <2>1. UsagePhase(t, to)  BY <1>0 DEF UsagePhase
    <2> QED  BY <1>0, <2>1, UsageMoves DEF Inv
  <1>8. AutonomyInv'  BY AutonomyFrame DEF Inv, autonomyPart
  <1>9. ReceiptInv'
    <2>1. \A u \in Turn: Judged(u)' => ask'[u] = ask[u] /\ Judged(u)
      BY DEF Judged, Inv, ChainInv, AskInv
    <2> QED  BY <2>1, ReceiptStays DEF Inv
  <1> QED  BY <1>1, <1>2, <1>3, <1>4, <1>5, <1>6, <1>7, <1>8, <1>9 DEF Inv

LEMMA ObserveStep ==
  ASSUME Inv, ObserveSettlement
  PROVE  Inv'
  <1>1. PICK t \in Turn, kind \in {"settle", "settleOther"}:
          /\ phase[t] = "done" /\ phase' = [phase EXCEPT ![t] = "settling"]
          /\ ops' = Append(ops, Op(kind, t, bound[t].objective, Keep))
          /\ kind = "settleOther" => bound[t] = Unbound
          /\ UNCHANGED <<goalVars, registryVars, terminal, ended, startedUnder, goalTurns, mapVars,
                         step, scheduling, looseVars, userVars, countVars>>
    BY DEF ObserveSettlement
  <1>2. bound[t].objective \in Objective \cup {Keep}  BY DEF Inv, BindInv, BoundType
  <1>3. PICK op \in Operation: op = Op(kind, t, bound[t].objective, Keep) /\ op.kind = kind
                               /\ op.turn = t /\ op.objective = bound[t].objective
    BY <1>2, OpType DEF Kind
  <1>4. ops' = Append(ops, op) /\ op.kind \in OfTurn  BY <1>1, <1>3 DEF OfTurn
  <1>5. ask[t] \in AskType /\ ask[t].stage = "none" /\ ask \in [Turn -> AskType]
    BY <1>1 DEF Inv, ChainInv, AskInv
  <1>6. ask' = ask  BY <1>1 DEF goalVars
  <1>7. ask' = [ask EXCEPT ![t] = ask[t]]  BY <1>5, <1>6
  <1>8. Fits(op, ask'[t].stage, "settling", bound[t])  BY <1>1, <1>3, <1>5, <1>6 DEF Fits
  <1>9. UNCHANGED <<goal, lastGoal, receipt, sound, registryVars, terminal, ended, startedUnder,
                    goalTurns, mapVars, step, looseVars, charged, unattended, uncounted>>
    BY <1>1 DEF goalVars, countVars
  <1>10. phase[t] = IF "settling" = "asking" THEN "running" ELSE "done"  BY <1>1
  <1> QED  BY <1>1, <1>3, <1>4, <1>5, <1>7, <1>8, <1>9, <1>10, HandOver

LEMMA CallStep ==
  ASSUME Inv, CallCreateGoal \/ CallUpdateGoal
  PROVE  Inv'
  <1>1. PICK t \in registered \ aborted, kind \in {"create", "prepare"}, o \in Objective \cup {Keep},
             s \in {"active", "paused", Keep}:
          /\ phase[t] = "running" /\ (kind = "create" => o \in Objective)
          /\ Waits(t, Op(kind, t, o, s), Asking(IF kind = "create" THEN "creating" ELSE "preparing"))
    <2>1. CASE CallCreateGoal
      <3>1. PICK t \in registered \ aborted, o \in Objective:
              phase[t] = "running" /\ Waits(t, Op("create", t, o, "active"), Asking("creating"))
        BY <2>1 DEF CallCreateGoal
      <3> QED  BY <3>1
    <2>2. CASE CallUpdateGoal
      <3>1. PICK t \in registered \ aborted:
              phase[t] = "running" /\ Waits(t, Op("prepare", t, Keep, Keep), Asking("preparing"))
        BY <2>2 DEF CallUpdateGoal
      <3> QED  BY <3>1
    <2> QED  BY <2>1, <2>2
  <1>2. t \in Turn  BY DEF Inv, RegistryInv, RegistryTypeOK
  <1>3. PICK op \in Operation: op = Op(kind, t, o, s) /\ op.kind = kind
                               /\ op.turn = t /\ op.objective = o
    BY <1>2, OpType DEF Kind
  <1>4. PICK a \in AskType: /\ a = Asking(IF kind = "create" THEN "creating" ELSE "preparing")
                            /\ a.stage = IF kind = "create" THEN "creating" ELSE "preparing"
    BY AskTypes
  <1>5. /\ phase' = [phase EXCEPT ![t] = "asking"] /\ ask' = [ask EXCEPT ![t] = a]
        /\ ops' = Append(ops, op)
        /\ UNCHANGED <<goal, lastGoal, receipt, sound, registryVars, terminal, ended, startedUnder,
                       goalTurns, mapVars, step, looseVars, charged, unattended, uncounted>>
    BY <1>1, <1>3, <1>4 DEF Waits
  <1>6. op.kind \in OfTurn  BY <1>3 DEF OfTurn
  <1>7. ask'[t] = a  BY <1>2, <1>5 DEF Inv, ChainInv, AskInv
  <1>8. Fits(op, ask'[t].stage, "asking", bound[t])  BY <1>1, <1>3, <1>4, <1>7 DEF Fits
  <1>9. phase[t] = IF "asking" = "asking" THEN "running" ELSE "done"  BY <1>1
  <1> QED  BY <1>2, <1>3, <1>4, <1>5, <1>6, <1>8, <1>9, HandOver

(* The tool call of t is over without a new goal event. *)
LEMMA NoAnswerMoves ==
  ASSUME Inv, NEW t \in Turn, phase[t] = "asking", NoAnswer(t),
         UNCHANGED <<registryVars, terminal, ended, startedUnder, goalTurns, mapVars,
                     unserialized, orphaned, loose, looseGoal, charged, unattended, uncounted>>
  PROVE  /\ RegistryInv' /\ GoalInv' /\ AskInv' /\ BindInv' /\ UsageInv' /\ AutonomyInv' /\ ReceiptInv'
         /\ Kept({t})
  <1> USE DEF mapVars
  <1>0. /\ phase' = [phase EXCEPT ![t] = "running"] /\ phase \in [Turn -> Phase]
        /\ ask' = [ask EXCEPT ![t] = NoAsk] /\ "running" \in Phase /\ "running" \in Live /\ "asking" \in Live
        /\ UNCHANGED <<goal, lastGoal, receipt, sound>>
    BY PhaseFacts DEF NoAnswer, Answered, Inv, RegistryInv
  <1>1. RegistryInv'  BY <1>0, RegistryPhase DEF Inv
  <1>2. GoalInv'  BY <1>0, GoalFrame DEF Inv, goalPart
  <1>3. AskInv'  BY <1>0, AskTypes DEF Inv, ChainInv, AskInv
  <1>4. Kept({t})  BY <1>0 DEF Kept, Inv, ChainInv, AskInv
  <1>5. BindInv'  BY <1>0, BindPhase DEF Inv, GoalInv
  <1>7. UsageInv'
    <2>1. UsagePhase(t, "running")  BY <1>0 DEF UsagePhase
    <2> QED  BY <1>0, <2>1, UsageMoves DEF Inv
  <1>8. AutonomyInv'  BY <1>0, AutonomyFrame DEF Inv, autonomyPart
  <1>9. ReceiptInv'
    <2>1. \A u \in Turn: Judged(u)' => ask'[u] = ask[u] /\ Judged(u)
      BY <1>0, AskTypes DEF Judged, Inv, ChainInv, AskInv
    <2> QED  BY <1>0, <2>1, ReceiptStays DEF Inv
  <1> QED  BY <1>1, <1>2, <1>3, <1>4, <1>5, <1>7, <1>8, <1>9

LEMMA VerdictStep ==
  ASSUME Inv, VerdictArrives
  PROVE  Inv'
  <1> USE DEF mapVars, looseVars, countVars
  <1>1. PICK t \in registered, passed \in BOOLEAN:
          /\ ask[t].stage = "verifying"
          /\ IF t \in aborted
             THEN NoAnswer(t) /\ UNCHANGED ops
             ELSE /\ ask' = [ask EXCEPT ![t].stage = "committing", ![t].passed = passed]
                  /\ ops' = Append(ops, Op("commit", t, Keep, Keep))
                  /\ UNCHANGED <<goal, lastGoal, receipt, sound, phase>>
          /\ UNCHANGED <<registryVars, terminal, ended, startedUnder, goalTurns, mapVars, step,
                         scheduling, looseVars, userVars, countVars>>
    BY DEF VerdictArrives
  <1>2. t \in Turn  BY DEF Inv, RegistryInv, RegistryTypeOK
  <1>3. phase[t] = "asking"  BY <1>1, <1>2 DEF Inv, ChainInv, AskInv
  <1>4. CASE t \in aborted
    <2>0. NoAnswer(t) /\ UNCHANGED <<ops, goal>>  BY <1>1, <1>4 DEF NoAnswer
    <2>1. /\ RegistryInv' /\ GoalInv' /\ AskInv' /\ BindInv' /\ UsageInv' /\ AutonomyInv' /\ ReceiptInv'
          /\ Kept({t})
      BY <1>1, <1>2, <1>3, <2>0, NoAnswerMoves
    <2>2. Kept({})  BY <1>1, <1>2, <1>3, <2>1 DEF Kept, Serving
    <2>3. ChainInv'  BY <1>1, <2>0, <2>1, <2>2, NoOperationMoves DEF Inv
    <2>4. StepInv'  BY <1>1, <2>0, StepFrame DEF Inv, stepPart
    <2>5. StopInv'  BY <1>1, <2>0, StopFrame DEF Inv, stopPart, registryVars
    <2> QED  BY <2>1, <2>3, <2>4, <2>5 DEF Inv
  <1>5. CASE t \notin aborted
    <2>0. /\ UNCHANGED <<goal, lastGoal, receipt, sound, phase>>
          /\ ops' = Append(ops, Op("commit", t, Keep, Keep))
      BY <1>1, <1>5
    <2>1. ask[t] \in AskType /\ ask \in [Turn -> AskType]  BY <1>2 DEF Inv, ChainInv, AskInv
    <2>2. PICK a \in AskType: /\ a = [ask[t] EXCEPT !.stage = "committing", !.passed = passed]
                              /\ a.stage = "committing" /\ a.goal = ask[t].goal
                              /\ a.objective = ask[t].objective /\ a.changed = ask[t].changed
                              /\ a.fresh = ask[t].fresh /\ a.untouched = ask[t].untouched
      <3>1. PICK a: a = [ask[t] EXCEPT !.stage = "committing", !.passed = passed]  OBVIOUS
      <3>2. /\ a.stage = "committing" /\ a.goal = ask[t].goal
            /\ a.objective = ask[t].objective /\ a.changed = ask[t].changed
            /\ a.fresh = ask[t].fresh /\ a.untouched = ask[t].untouched
        BY <2>1, <3>1 DEF AskType
      <3>3. a \in AskType  BY <2>1, <3>1, passed \in BOOLEAN DEF AskType, Stage
      <3> QED  BY <3>1, <3>2, <3>3
    <2>3. ask' = [ask EXCEPT ![t] = a]  BY <1>1, <1>5, <2>2
    <2>4. PICK op \in Operation: op = Op("commit", t, Keep, Keep) /\ op.kind = "commit" /\ op.turn = t
      BY <1>2, OpType DEF Kind
    <2>5. RegistryInv'  BY <1>1, <2>0, RegistryFrame DEF Inv, registryPart, registryVars
    <2>6. GoalInv'  BY <1>1, <2>0, GoalFrame DEF Inv, goalPart
    <2>7. ChainInv' /\ ops' # <<>>
      <3>1. AskInv'  BY <1>1, <1>2, <1>3, <2>0, <2>2, <2>3 DEF Inv, ChainInv, AskInv
      <3>2. Kept({t})  BY <1>1, <2>0, <2>1, <2>3 DEF Kept
      <3>3. ask'[t].stage = "committing"  BY <1>2, <2>1, <2>2, <2>3
      <3>4. Joins(op)
        BY <1>1, <1>2, <1>3, <2>4, <3>2, <3>3 DEF Joins, Serving, Fits, OfTurn
      <3> QED  BY <1>1, <2>0, <2>4, <3>1, <3>4, ChainJoins DEF Inv
    <2>8. StepInv'  BY <1>1, <2>0, <2>7 DEF Inv, StepInv
    <2>9. BindInv'  BY <1>1, <2>0, BindFrame DEF Inv, bindPart
    <2>10. StopInv'  BY <1>1, <2>0, StopFrame DEF Inv, stopPart, registryVars
    <2>11. UsageInv'  BY <1>1, <2>0, UsageFrame DEF Inv, usagePart
    <2>12. AutonomyInv'  BY <1>1, <2>0, AutonomyFrame DEF Inv, autonomyPart
    <2>13. ReceiptInv'
      <3>1. \A u \in Turn: Judged(u)' =>
              /\ Judged(u)
              /\ ask'[u].goal = ask[u].goal /\ ask'[u].objective = ask[u].objective
              /\ ask'[u].changed = ask[u].changed /\ ask'[u].fresh = ask[u].fresh
              /\ ask'[u].untouched = ask[u].untouched
        BY <1>1, <1>2, <2>1, <2>2, <2>3 DEF Judged
      <3> QED  BY <1>1, <2>0, <3>1, ReceiptStays DEF Inv
    <2> QED  BY <2>5, <2>6, <2>7, <2>8, <2>9, <2>10, <2>11, <2>12, <2>13 DEF Inv
  <1> QED  BY <1>4, <1>5

-----------------------------------------------------------------------------
(* The chain: what users ask for.                                          *)

LEMMA HeadContinues ==
  ASSUME ops # <<>>, step \notin Continuing, Continue
  PROVE  HeadActs /\ step' \in {"begin", "continue"}
  BY DEF Continue, EndOp, HeadActs, Continuing

LEMMA HeadEnds ==
  ASSUME ops # <<>>, step \notin Continuing, EndOp
  PROVE  HeadActs /\ step' = "begin"
  BY DEF EndOp, HeadActs

LEMMA StepActs ==
  ASSUME HeadActs, step' \in {"begin", "continue"}
  PROVE  StepInv'
  BY DEF HeadActs, StepInv, StepName

(* The head of the chain leaves everything as it is, but for the ids it    *)
(* admits again, the automatic turns that are forgotten and the turns of a *)
(* goal that was to be resumed.                                            *)
LEMMA EndsStep ==
  ASSUME Inv, HeadActs, step # "published", step' \in {"begin", "continue"},
         UNCHANGED <<goalVars, turnVars, bound, completing, looseVars, charged, uncounted>>,
         retired' \subseteq retired, unattended' \in {0, unattended},
         superseded' = superseded \/
           (/\ goal # NoGoal /\ ~Active(goal)
            /\ superseded' = superseded \cup {t \in Turn: bound[t].goal = goal.id})
  PROVE  Inv'
  <1> USE DEF goalVars, turnVars, registryVars, looseVars
  <1>1. RegistryInv'  BY RegistryFrame DEF Inv, registryPart
  <1>2. GoalInv'  BY GoalFrame DEF Inv, goalPart
  <1>3. StepInv'  BY StepActs
  <1>4. ChainInv'
    <2>1. AskInv'  BY DEF Inv, ChainInv, AskInv
    <2>2. Kept({})  BY DEF Kept
    <2> QED  BY <2>1, <2>2, HeadOfChainActs DEF Inv
  <1>5. BindInv'
    <2>1. lastGoal' \in Nat /\ lastGoal <= lastGoal'  BY DEF Inv, GoalInv
    <2> QED  BY <2>1, BindPublished DEF Inv
  <1>6. StopInv'  BY StopShrinks DEF Inv
  <1>7. UsageInv'  BY UsageFrame DEF Inv, usagePart
  <1>8. AutonomyInv'
    <2>1. CASE unattended' = 0  BY <2>1, AutonomyRests DEF Inv, GoalInv
    <2>2. CASE unattended' = unattended /\ superseded' = superseded
      BY <2>2, AutonomyFrame DEF Inv, autonomyPart
    <2>3. CASE unattended' = unattended /\ ~Active(goal)
      BY <2>3, AutonomyStops DEF Inv
    <2> QED  BY <2>1, <2>2, <2>3
  <1>9. ReceiptInv'
    <2>1. \A u \in Turn: u \in superseded => u \in superseded'  OBVIOUS
    <2>2. \A u \in Turn: Judged(u)' <=> Judged(u)  BY DEF Judged
    <2> QED  BY <2>1, <2>2, ReceiptStays DEF Inv
  <1> QED  BY <1>1, <1>2, <1>3, <1>4, <1>5, <1>6, <1>7, <1>8, <1>9 DEF Inv

(* What a publication does to all but the chain, the count and the stop.   *)
LEMMA PublishMoves ==
  ASSUME Inv, NEW g, NEW new \in BOOLEAN, g = NoGoal \/ NextGoal(g, new), g # NoGoal /\ ~new => goal # NoGoal,
         Publish(g, NoTurn), UNCHANGED <<turnVars, bound, completing, looseVars, charged>>,
         retired' \subseteq retired,
         superseded' = superseded \/
           (goal # NoGoal /\ superseded' = superseded \cup {t \in Turn: bound[t].goal = goal.id}),
         goal # NoGoal /\ g # NoGoal /\ g.id = goal.id /\ Active(g) /\ ~Active(goal) =>
           superseded' = superseded \cup {t \in Turn: bound[t].goal = goal.id}
  PROVE  /\ RegistryInv' /\ GoalInv' /\ AskInv' /\ Kept({}) /\ BindInv' /\ UsageInv' /\ ReceiptInv'
         /\ goal' = g
  <1> USE DEF turnVars, registryVars, looseVars
  <1>0. GoodGoal(g) \/ g = NoGoal  BY DEF NextGoal
  <1>1. RegistryInv'  BY RegistryFrame DEF Inv, registryPart
  <1>2. GoalInv' /\ lastGoal' \in Nat /\ lastGoal <= lastGoal' /\ goal' = g
    BY <1>0, GoalPublished DEF Inv
  <1>3. ask' \in [Turn -> AskType] /\ \A t \in Turn: ask'[t].stage = ask[t].stage
    BY AsksPublished DEF Inv, ChainInv
  <1>4. AskInv'  BY <1>3, AsksStay DEF Inv, ChainInv
  <1>5. Kept({})  BY <1>3 DEF Kept
  <1>6. BindInv'  BY <1>2, BindPublished DEF Inv
  <1>7. UsageInv'
    <2>1. goal' # NoGoal =>
            /\ goal' \in GoalType
            /\ \/ goal # NoGoal /\ goal'.id = goal.id /\ goal'.mark = goal.mark
               \/ goal'.id = lastGoal + 1 /\ goal'.mark = 0
      BY <1>2 DEF NextGoal, GoodGoal
    <2> QED  BY <2>1, UsageGoal DEF Inv
  <1>8. ReceiptInv'
    <2>1. ASSUME NEW u \in Turn, g # NoGoal, completing[u] = g.id
          PROVE  bound[u].goal = g.id /\ goal # NoGoal /\ goal.id = g.id
      <3>1. completing[u] \in 0..lastGoal /\ lastGoal \in Nat  BY DEF Inv, BindInv, GoalInv
      <3>2. g.id # lastGoal + 1  BY <2>1, <3>1
      <3>3. goal # NoGoal /\ goal.id = g.id  BY <2>1, <3>2 DEF NextGoal
      <3> QED  BY <2>1, <3>3 DEF Inv, ReceiptInv
    <2>2. \A u \in Turn: g # NoGoal /\ completing'[u] = g.id =>
            /\ bound'[u].goal = g.id /\ completing[u] = g.id /\ goal # NoGoal /\ goal.id = g.id
      BY <2>1
    <2>3. \A u \in Turn: /\ goal # NoGoal /\ g # NoGoal /\ goal.id = g.id /\ completing'[u] = g.id
                         /\ u \in superseded \/ (Active(g) /\ ~Active(goal))
                         => u \in superseded'
      BY <2>1
    <2> QED  BY <2>2, <2>3, ReceiptPublished DEF Inv, ChainInv
  <1> QED  BY <1>1, <1>2, <1>4, <1>5, <1>6, <1>7, <1>8

LEMMA PublishSetGoalStep ==
  ASSUME Inv, NEW o \in Objective \cup {Keep}, NEW s \in {"active", "paused", Keep},
         ~(goal = NoGoal /\ o = Keep), ops # <<>>,
         step = "replacing" \/ (step = "begin" /\ ~Replaces(s)),
         PublishSetGoal(o, s), UNCHANGED <<bound, completing, looseVars, charged, uncounted>>
  PROVE  Inv'
  <1> DEFINE next == NextGoalState(goal, o, s, FALSE, lastGoal + 1)
             new == NewWork(goal, s, FALSE)
             resumes == /\ goal # NoGoal /\ next.id = goal.id
                        /\ goal.status # "active" /\ next.status = "active"
  <1>1. CASE Publish(next, NoTurn) /\ unattended' = 0 /\ GoTo("published")
    <2>1. NextGoal(next, new)  BY NextGoalIsGood DEF Inv
    <2>2. new \in BOOLEAN  BY DEF NewWork
    <2>3. ~new => goal # NoGoal  BY DEF NewWork
    <2>4. superseded' = (IF resumes THEN superseded \cup {t \in Turn: bound[t].goal = goal.id} ELSE superseded)
          /\ UNCHANGED <<turnVars, retired>>
      BY DEF PublishSetGoal
    <2> HIDE DEF next, new
    <2>5. /\ RegistryInv' /\ GoalInv' /\ AskInv' /\ Kept({}) /\ BindInv' /\ UsageInv' /\ ReceiptInv'
          /\ goal' = next
      <3>1. goal # NoGoal /\ next # NoGoal /\ next.id = goal.id /\ Active(next) /\ ~Active(goal) => resumes
        BY DEF Active
      <3>2. superseded' = superseded \/
           (goal # NoGoal /\ superseded' = superseded \cup {t \in Turn: bound[t].goal = goal.id})
        BY <2>4
      <3>3. retired' \subseteq retired  BY <2>4
      <3> QED  BY <1>1, <2>1, <2>2, <2>3, <2>4, <3>1, <3>2, <3>3, PublishMoves
    <2>6. step' = "published" /\ ops' = ops  BY <1>1 DEF GoTo
    <2>7. next # NoGoal /\ next.id = IF new THEN lastGoal + 1 ELSE goal.id  BY <2>1 DEF NextGoal
    <2>8. StepInv'  BY <2>5, <2>6, <2>7 DEF StepInv, StepName
    <2>9. ChainInv'
      <3>1. HeadStays  BY <2>6 DEF HeadStays, Continuing
      <3> QED  BY <2>5, <3>1, ChainStays DEF Inv
    <2>10. StopInv'
      <3> SUFFICES ASSUME NEW t \in registered \ aborted, Works(t)
                   PROVE  bound[t].goal = next.id
        BY <2>4, <2>5, <2>6, <2>7 DEF StopInv, Works, turnVars, registryVars, looseVars
      <3>1. goal # NoGoal /\ bound[t].goal = goal.id /\ step # "replacing"
        BY DEF Inv, StopInv, Works
      <3>2. t = current /\ t \in Turn /\ ActiveTurn = t
        BY DEF Inv, RegistryInv, RegistryTypeOK, ActiveTurn
      <3>3. Belongs(ActiveTurn, goal)  BY <3>1, <3>2, NoTurnAssumption DEF Belongs
      <3>4. ~new  BY <3>1, <3>3 DEF Replaces, new
      <3> QED  BY <2>7, <3>1, <3>4
    <2>11. AutonomyInv'  BY <1>1, <2>5, AutonomyRests DEF Inv, GoalInv
    <2> QED  BY <2>5, <2>8, <2>9, <2>10, <2>11 DEF Inv
  <1>2. CASE EndOp /\ UNCHANGED <<goalVars, unattended>>
    <2>1. HeadActs /\ step' = "begin"
      <3>1. step \notin Continuing  BY DEF Continuing
      <3> QED  BY <1>2, <3>1, HeadEnds
    <2>2. UNCHANGED <<turnVars, retired>>  BY DEF PublishSetGoal
    <2>3. superseded' = superseded \/
           (/\ goal # NoGoal /\ ~Active(goal)
            /\ superseded' = superseded \cup {t \in Turn: bound[t].goal = goal.id})
      BY DEF PublishSetGoal, Active
    <2>4. step # "published"  OBVIOUS
    <2> QED  BY <1>2, <2>1, <2>2, <2>3, <2>4, EndsStep
  <1> QED  BY <1>1, <1>2 DEF PublishSetGoal

(* A goal transaction may abort a turn and retire the goal. *)
LEMMA AbortStep ==
  ASSUME Inv, NEW c \in BOOLEAN, NEW t, AbortIf(c, t), c => t \in registered,
         retired' = retired \/ (goal # NoGoal /\ retired' = retired \cup {goal.id}),
         UNCHANGED <<bound, completing, superseded, looseVars, charged, unattended, uncounted>>,
         HeadActs \/ (HeadStays /\ ops # <<>>), StepInv', StopInv'
  PROVE  Inv'
  <1> USE DEF looseVars
  <1>1. /\ RegistryInv' /\ UsageInv' /\ ReceiptInv' /\ AskInv'
        /\ UNCHANGED <<registered, goal, lastGoal, phase, startedUnder, goalTurns>>
        /\ \A u \in Turn: ask'[u].stage = ask[u].stage
    BY AbortMoves
  <1>2. GoalInv'  BY <1>1, GoalFrame DEF Inv, goalPart
  <1>3. ChainInv'
    <2>1. Kept({})  BY <1>1 DEF Kept
    <2>2. CASE HeadActs  BY <1>1, <2>1, <2>2, HeadOfChainActs DEF Inv
    <2>3. CASE HeadStays /\ ops # <<>>  BY <1>1, <2>1, <2>3, ChainStays DEF Inv
    <2> QED  BY <2>2, <2>3
  <1>4. BindInv'
    <2>1. lastGoal' \in Nat /\ lastGoal <= lastGoal'  BY <1>1 DEF Inv, GoalInv
    <2> QED  BY <1>1, <2>1, BindPublished DEF Inv
  <1>5. AutonomyInv'  BY <1>1, AutonomyFrame DEF Inv, autonomyPart
  <1> QED  BY <1>1, <1>2, <1>3, <1>4, <1>5 DEF Inv

LEMMA SetGoalUnlockedStep ==
  ASSUME Inv, NEW o \in Objective \cup {Keep}, NEW s \in {"active", "paused", Keep},
         ops # <<>>, step \in {"begin", "replacing"},
         SetGoalUnlocked(o, s), UNCHANGED <<bound, completing, looseVars, charged, uncounted>>
  PROVE  Inv'
  <1> USE DEF Continuing
  <1>1. CASE EndOp /\ UNCHANGED <<goalVars, turnVars, retired, superseded, unattended>>
    <2>1. HeadActs /\ step' = "begin"  BY <1>1, HeadEnds
    <2> QED  BY <1>1, <2>1, EndsStep
  <1>2. CASE /\ ~Refused(o, s) /\ Replaces(s) /\ retired' = retired \cup {goal.id}
             /\ AbortIf(Cancellable(ActiveTurn), ActiveTurn) /\ GoTo("replacing")
             /\ UNCHANGED <<superseded, unattended>>
    <2>1. PICK c \in BOOLEAN: c <=> Cancellable(ActiveTurn)  OBVIOUS
    <2>2. AbortIf(c, ActiveTurn) /\ (c => ActiveTurn \in registered)
      BY <1>2, <2>1 DEF AbortIf, Cancellable
    <2>3. /\ registered' \ aborted' \subseteq registered \ aborted
          /\ c => ActiveTurn \notin registered' \ aborted'
          /\ goal' = goal
      BY <1>2, <2>2, AbortMoves
    <2>4. registered' \ aborted' = {}
      <3> SUFFICES ASSUME NEW u \in registered' \ aborted' PROVE FALSE  OBVIOUS
      <3>1. u \in registered \ aborted /\ u = current  BY <2>3 DEF Inv, RegistryInv
      <3>2. u = ActiveTurn /\ Cancellable(u)  BY <3>1 DEF ActiveTurn, Cancellable
      <3> QED  BY <2>1, <2>3, <3>2
    <2>5. StopInv'  BY <2>4, StopNobody
    <2>6. HeadStays  BY <1>2 DEF HeadStays, GoTo
    <2>7. goal # NoGoal  BY <1>2 DEF Replaces
    <2>8. StepInv'  BY <1>2, <2>3, <2>7 DEF StepInv, GoTo, StepName
    <2> QED  BY <1>2, <2>2, <2>5, <2>6, <2>7, <2>8, AbortStep
  <1>3. CASE step = "begin" /\ ~Refused(o, s) /\ ~Replaces(s) /\ PublishSetGoal(o, s)
    <2>1. ~(goal = NoGoal /\ o = Keep)  BY <1>3 DEF Refused
    <2> QED  BY <1>3, <2>1, PublishSetGoalStep
  <1>4. CASE step = "replacing" /\ PublishSetGoal(o, s)
    <2>1. ~(goal = NoGoal /\ o = Keep)  BY <1>4 DEF Inv, StepInv
    <2> QED  BY <1>4, <2>1, PublishSetGoalStep
  <1> QED  BY <1>1, <1>2, <1>3, <1>4 DEF SetGoalUnlocked

LEMMA SetGoalStep ==
  ASSUME Inv, SetGoal
  PROVE  Inv'
  <1>1. ops # <<>> /\ step \in {"begin", "replacing"}  BY DEF SetGoal, Handles
  <1>2. Head(ops) \in Operation
    <2>1. step \notin Continuing  BY <1>1 DEF Continuing
    <2> QED  BY <1>1, <2>1, HeadFinds DEF Inv
  <1>3. PICK o \in Objective \cup {Keep}, s \in {"active", "paused", Keep}: SetGoalUnlocked(o, s)
    BY <1>2 DEF SetGoal, Operation
  <1> QED  BY <1>1, <1>3, SetGoalUnlockedStep DEF SetGoal

LEMMA ResumeGoalStep ==
  ASSUME Inv, ResumeGoal
  PROVE  Inv'
  <1>0. ops # <<>> /\ step = "begin" /\ step \notin Continuing
        /\ UNCHANGED <<bound, completing, looseVars, userVars, charged, uncounted>>
    BY DEF ResumeGoal, Handles, Continuing
  <1>1. CASE /\ Continue /\ unattended' = 0
             /\ UNCHANGED <<goalVars, turnVars, retired, superseded, spent>>
    <2>1. HeadActs /\ step' \in {"begin", "continue"}  BY <1>0, <1>1, HeadContinues
    <2> QED  BY <1>0, <1>1, <2>1, EndsStep
  <1>2. CASE EndOp /\ UNCHANGED <<goalVars, turnVars, retired, superseded, unattended, spent>>
    <2>1. HeadActs /\ step' = "begin"  BY <1>0, <1>2, HeadEnds
    <2> QED  BY <1>0, <1>2, <2>1, EndsStep
  <1>3. CASE goal # NoGoal /\ SetGoalUnlocked(Keep, "active")
    BY <1>0, <1>3, SetGoalUnlockedStep
  <1> QED  BY <1>1, <1>2, <1>3 DEF ResumeGoal

LEMMA FollowsUpStep ==
  ASSUME Inv, SetGoalFollowsUp
  PROVE  Inv'
  <1> USE DEF mapVars, countVars
  <1>0. /\ ops # <<>> /\ step = "published" /\ step \notin Continuing /\ goal # NoGoal
        /\ UNCHANGED <<mapVars, looseVars, countVars>>
    BY DEF SetGoalFollowsUp, Inv, StepInv, Continuing
  <1>1. CASE Active(goal)
    <2>1. Continue /\ UNCHANGED <<turnVars, goalVars>>  BY <1>1 DEF SetGoalFollowsUp
    <2>2. HeadActs /\ step' \in {"begin", "continue"}  BY <1>0, <2>1, HeadContinues
    <2>3. StepInv'  BY <2>2, StepActs
    <2>4. StopInv'
      BY <1>0, <1>1, <2>1, <2>2 DEF Inv, StopInv, Active, turnVars, registryVars, goalVars, looseVars
    <2>5. AbortIf(FALSE, NoTurn)  BY <2>1 DEF AbortIf
    <2> QED  BY <1>0, <2>2, <2>3, <2>4, <2>5, AbortStep
  <1>2. CASE ~Active(goal)
    <2>0. EndOp /\ AbortIf(Belongs(ActiveTurn, goal), ActiveTurn)  BY <1>2 DEF SetGoalFollowsUp
    <2>1. PICK c \in BOOLEAN: c <=> Belongs(ActiveTurn, goal)  OBVIOUS
    <2>2. AbortIf(c, ActiveTurn) /\ (c => ActiveTurn \in registered)
      BY <2>0, <2>1 DEF AbortIf, Belongs, ActiveTurn, Inv, RegistryInv
    <2>3. /\ registered' \ aborted' \subseteq registered \ aborted
          /\ c => ActiveTurn \notin registered' \ aborted'
          /\ goal' = goal
      BY <1>0, <2>2, AbortMoves
    <2>4. HeadActs /\ step' = "begin"  BY <1>0, <2>0, HeadEnds
    <2>5. StepInv'  BY <2>4, StepActs
    <2>6. ASSUME NEW u \in registered' \ aborted'
          PROVE  ~Works(u)'
      <3> SUFFICES ASSUME Works(u) PROVE FALSE  BY <1>0 DEF Works, looseVars
      <3>1. u \in registered \ aborted /\ u = current /\ u \in Turn
        BY <2>3 DEF Inv, RegistryInv, RegistryTypeOK
      <3>2. u = ActiveTurn  BY <3>1 DEF ActiveTurn
      <3>3. bound[u].goal = goal.id  BY <3>1 DEF Inv, StopInv, Works
      <3> QED  BY <2>1, <2>3, <2>6, <3>1, <3>2, <3>3, NoTurnAssumption DEF Belongs
    <2>7. StopInv'  BY <2>6, StopNobody
    <2> QED  BY <1>0, <2>2, <2>4, <2>5, <2>7, AbortStep
  <1> QED  BY <1>1, <1>2

LEMMA ClearRetiresStep ==
  ASSUME Inv, ClearGoalRetires
  PROVE  Inv'
  <1> USE DEF countVars
  <1>0. /\ ops # <<>> /\ step = "begin" /\ step \notin Continuing
        /\ UNCHANGED <<bound, completing, superseded, looseVars, countVars>>
    BY DEF ClearGoalRetires, Handles, Continuing
  <1>1. CASE goal = NoGoal
    <2>1. EndOp /\ UNCHANGED <<turnVars, goalVars, retired>>  BY <1>1 DEF ClearGoalRetires
    <2>2. HeadActs /\ step' = "begin"  BY <1>0, <2>1, HeadEnds
    <2> QED  BY <1>0, <2>1, <2>2, EndsStep
  <1>2. CASE goal # NoGoal
    <2>0. /\ GoTo("clearing")
          /\ retired' = IF Belongs(current, goal) THEN retired \cup {goal.id} ELSE retired
          /\ AbortIf(Belongs(current, goal) /\ Cancellable(current), current)
      BY <1>2 DEF ClearGoalRetires
    <2>1. PICK c \in BOOLEAN: c <=> (Belongs(current, goal) /\ Cancellable(current))  OBVIOUS
    <2>2. AbortIf(c, current) /\ (c => current \in registered)
      BY <2>0, <2>1 DEF AbortIf, Cancellable
    <2>3. /\ registered' \ aborted' \subseteq registered \ aborted
          /\ c => current \notin registered' \ aborted'
          /\ goal' = goal
      BY <1>0, <2>2, AbortMoves
    <2>4. HeadStays  BY <1>0, <2>0 DEF HeadStays, GoTo, Continuing
    <2>5. StepInv'  BY <1>0, <1>2, <2>0, <2>3 DEF StepInv, GoTo, StepName
    <2>6. ASSUME NEW u \in registered' \ aborted'
          PROVE  ~Works(u)'
      <3> SUFFICES ASSUME Works(u) PROVE FALSE  BY <1>0 DEF Works, looseVars
      <3>1. u \in registered \ aborted /\ u = current /\ u \in Turn
        BY <2>3 DEF Inv, RegistryInv, RegistryTypeOK
      <3>2. bound[u].goal = goal.id  BY <3>1 DEF Inv, StopInv, Works
      <3> QED  BY <2>1, <2>3, <2>6, <3>1, <3>2, NoTurnAssumption DEF Belongs, Cancellable
    <2>7. StopInv'  BY <2>6, StopNobody
    <2>8. retired' = retired \/ (goal # NoGoal /\ retired' = retired \cup {goal.id})
      BY <1>2, <2>0
    <2> QED  BY <1>0, <2>2, <2>4, <2>5, <2>7, <2>8, AbortStep
  <1> QED  BY <1>1, <1>2

LEMMA ClearStep ==
  ASSUME Inv, ClearGoal
  PROVE  Inv'
  <1>0. /\ ops # <<>> /\ step = "clearing" /\ step \notin Continuing /\ EndOp
        /\ UNCHANGED <<turnVars, bound, completing, superseded, looseVars, charged, uncounted>>
    BY DEF ClearGoal, Inv, StepInv, Continuing
  <1>1. HeadActs /\ step' = "begin"  BY <1>0, HeadEnds
  <1>2. CASE Publish(NoGoal, NoTurn) /\ unattended' = 0 /\ UNCHANGED retired
    <2>1. /\ RegistryInv' /\ GoalInv' /\ AskInv' /\ Kept({}) /\ BindInv' /\ UsageInv' /\ ReceiptInv'
          /\ goal' = NoGoal
      <3>1. PICK g: g = NoGoal  OBVIOUS
      <3>2. retired' \subseteq retired  BY <1>2
      <3> QED  BY <1>0, <1>2, <3>1, <3>2, PublishMoves
    <2>2. StepInv'  BY <1>1, StepActs
    <2>3. ChainInv'  BY <1>1, <2>1, HeadOfChainActs DEF Inv
    <2>4. StopInv'
      <3>1. \A u \in registered \ aborted: ~Works(u)  BY <1>0 DEF Inv, StopInv, Works
      <3>2. \A u \in registered' \ aborted': ~Works(u)'
        BY <1>0, <3>1 DEF Works, turnVars, registryVars, looseVars
      <3> QED  BY <3>2, StopNobody
    <2>5. AutonomyInv'  BY <1>0, <1>2, <2>1, AutonomyRests DEF Inv, GoalInv
    <2> QED  BY <2>1, <2>2, <2>3, <2>4, <2>5 DEF Inv
  <1>3. CASE retired' = retired \ {goal.id} /\ UNCHANGED <<goalVars, unattended>>
    <2>1. retired' \subseteq retired /\ step # "published"  BY <1>0, <1>3
    <2> QED  BY <1>0, <1>1, <1>3, <2>1, EndsStep
  <1> QED  BY <1>2, <1>3 DEF ClearGoal

LEMMA PauseStep ==
  ASSUME Inv, PauseForCancellation
  PROVE  Inv'
  <1> USE DEF mapVars, countVars
  <1>0. /\ ops # <<>> /\ step = "begin" /\ step \notin Continuing /\ EndOp
        /\ UNCHANGED <<turnVars, mapVars, looseVars, countVars>>
    BY DEF PauseForCancellation, Handles, Continuing
  <1>1. HeadActs /\ step' = "begin"  BY <1>0, HeadEnds
  <1>2. CASE ~Active(goal)
    <2>1. UNCHANGED goalVars  BY <1>2 DEF PauseForCancellation
    <2> QED  BY <1>0, <1>1, <2>1, EndsStep
  <1>3. CASE Active(goal)
    <2>0. Publish(WithGoalStatus(goal, "paused"), NoTurn)  BY <1>3 DEF PauseForCancellation
    <2>1. goal \in GoalType /\ goal # NoGoal /\ "paused" \in Status \ {"active"}
      BY <1>3 DEF Active, Inv, GoalInv, Status
    <2>2. PICK g \in GoalType:
            /\ g = WithGoalStatus(goal, "paused") /\ g # NoGoal /\ g.id = goal.id /\ g.mark = goal.mark
            /\ ~g.byUser /\ ~Active(g)
      BY <2>1, WithStatus
    <2>3. NextGoal(g, FALSE)
      BY <2>1, <2>2 DEF NextGoal, GoodGoal, Inv, GoalInv, GoalType
    <2>4. /\ RegistryInv' /\ GoalInv' /\ AskInv' /\ Kept({}) /\ BindInv' /\ UsageInv' /\ ReceiptInv'
          /\ goal' = g
      <3>1. Publish(g, NoTurn)  BY <2>0, <2>2
      <3>2. retired' \subseteq retired  BY <1>0
      <3> QED  BY <1>0, <2>1, <2>2, <2>3, <3>1, <3>2, PublishMoves
    <2>5. StepInv'  BY <1>1, StepActs
    <2>6. ChainInv'  BY <1>1, <2>4, HeadOfChainActs DEF Inv
    <2>7. StopInv'
      BY <1>0, <1>1, <2>2, <2>4 DEF Inv, StopInv, turnVars, registryVars, looseVars
    <2>8. AutonomyInv'  BY <1>0, <2>2, <2>4, AutonomyStops DEF Inv
    <2> QED  BY <2>4, <2>5, <2>6, <2>7, <2>8 DEF Inv
  <1> QED  BY <1>2, <1>3

LEMMA QueuedGoalStep ==
  ASSUME Inv, PublishQueuedGoal
  PROVE  Inv'
  <1> USE DEF mapVars
  <1>0. /\ ops # <<>> /\ step = "begin" /\ step \notin Continuing
        /\ UNCHANGED <<turnVars, mapVars, looseVars, charged, uncounted>>
    BY DEF PublishQueuedGoal, Handles, Continuing
  <1>1. CASE EndOp /\ UNCHANGED <<goalVars, queued, unattended>>
    <2>1. HeadActs /\ step' = "begin"  BY <1>0, <1>1, HeadEnds
    <2> QED  BY <1>0, <1>1, <2>1, EndsStep
  <1>2. CASE /\ ActiveTurn = NoTurn /\ queued = Head(ops).objective
             /\ Publish(NextGoalState(goal, queued, "active", TRUE, lastGoal + 1), NoTurn)
             /\ unattended' = 0 /\ step' = "start" /\ UNCHANGED ops
    <2>1. queued \in Objective
      <3>1. Head(ops).kind = "queuedGoal"  BY DEF PublishQueuedGoal, Handles
      <3> QED  BY <1>0, <1>2, <3>1, HeadFinds DEF Inv
    <2>2. PICK g: g = NextGoalState(goal, queued, "active", TRUE, lastGoal + 1)  OBVIOUS
    <2>3. NextGoal(g, TRUE) /\ g.status = "active"
      <3>1. queued # Keep  BY <2>1, GoalLimits
      <3>2. NewWork(goal, "active", TRUE)  BY DEF NewWork
      <3>3. NextGoal(g, NewWork(goal, "active", TRUE))
        BY <2>1, <2>2, <3>1, NextGoalIsGood DEF Inv
      <3>4. NextGoal(g, TRUE)  BY <3>2, <3>3 DEF NextGoal
      <3>5. g.status = "active"  BY <2>2, <3>2, GoalLimits DEF NextGoalState
      <3> QED  BY <3>4, <3>5
    <2>4. /\ RegistryInv' /\ GoalInv' /\ AskInv' /\ Kept({}) /\ BindInv' /\ UsageInv' /\ ReceiptInv'
          /\ goal' = g
      <3>1. Publish(g, NoTurn)  BY <1>2, <2>2
      <3>2. retired' \subseteq retired  BY <1>0
      <3>3. ~(goal # NoGoal /\ g.id = goal.id)
        BY <2>3 DEF NextGoal, Inv, GoalInv, GoalType
      <3> QED  BY <1>0, <2>3, <3>1, <3>2, <3>3, PublishMoves
    <2>5. Active(goal')  BY <2>3, <2>4 DEF Active, NextGoal
    <2>6. HeadActs  BY <1>0, <1>2 DEF HeadActs, Continuing
    <2>7. StepInv'  BY <1>0, <1>2, <2>5 DEF StepInv, StepName
    <2>8. ChainInv'  BY <2>4, <2>6, HeadOfChainActs DEF Inv
    <2>9. StopInv'
      <3>1. registered \ aborted = {}  BY <1>2, NobodyWorks DEF Inv
      <3>2. registered' \ aborted' = {}  BY <1>0, <3>1 DEF turnVars, registryVars
      <3> QED  BY <3>2, StopNobody
    <2>10. AutonomyInv'  BY <1>0, <1>2, <2>4, AutonomyRests DEF Inv, GoalInv
    <2> QED  BY <2>4, <2>7, <2>8, <2>9, <2>10 DEF Inv
  <1> QED  BY <1>1, <1>2 DEF PublishQueuedGoal

-----------------------------------------------------------------------------
(* continueIfIdle.                                                         *)

(* Only the step of the chain, and what the loose continuation has read,   *)
(* may change.                                                             *)
LEMMA StepOnly ==
  ASSUME Inv, HeadStays, StepInv', step' # "begin" => step # "begin" \/ ops # <<>>,
         step # "published", step' \notin {"replacing", "clearing"},
         UNCHANGED <<goalVars, turnVars, mapVars, unserialized, orphaned, charged, unattended, uncounted>>,
         GoalInv'
  PROVE  Inv'
  <1> USE DEF goalVars, turnVars, registryVars, mapVars
  <1>1. RegistryInv'  BY RegistryFrame DEF Inv, registryPart
  <1>4. ChainInv'
    <2>1. AskInv'  BY DEF Inv, ChainInv, AskInv
    <2>2. Kept({})  BY DEF Kept
    <2> QED  BY <2>1, <2>2, ChainStays DEF Inv
  <1>5. BindInv'  BY BindFrame DEF Inv, bindPart
  <1>6. StopInv'  BY StopShrinks DEF Inv
  <1>7. UsageInv'  BY UsageFrame DEF Inv, usagePart
  <1>8. AutonomyInv'  BY AutonomyFrame DEF Inv, autonomyPart
  <1>9. ReceiptInv'  BY ReceiptFrame DEF Inv, receiptPart
  <1> QED  BY <1>1, <1>4, <1>5, <1>6, <1>7, <1>8, <1>9 DEF Inv

LEMMA ContinueStep ==
  ASSUME Inv, ContinueIfIdle
  PROVE  Inv'
  <1>0. /\ step = "continue" /\ ops # <<>>
        /\ UNCHANGED <<goalVars, turnVars, mapVars, looseVars, userVars, countVars>>
    BY DEF ContinueIfIdle, Inv, StepInv
  <1>1. GoalInv'  BY <1>0, GoalFrame DEF Inv, goalPart, goalVars, looseVars
  <1>2. CASE Continuable /\ GoTo("start")
    <2>1. HeadStays  BY <1>0, <1>2 DEF HeadStays, GoTo, Continuing
    <2>2. StepInv'  BY <1>0, <1>2 DEF StepInv, GoTo, StepName, Continuable, Active, goalVars
    <2> QED  BY <1>0, <1>1, <1>2, <2>1, <2>2, StepOnly DEF GoTo, looseVars, countVars
  <1>3. CASE StopScheduling
    <2>1. HeadStays  BY <1>0, <1>3 DEF HeadStays, StopScheduling, Continuing
    <2>2. StepInv'  BY <1>3 DEF StepInv, StopScheduling, StepName
    <2> QED  BY <1>0, <1>1, <1>3, <2>1, <2>2, StepOnly DEF StopScheduling, looseVars, countVars
  <1> QED  BY <1>0, <1>2, <1>3 DEF ContinueIfIdle

LEMMA LooseContinueStep ==
  ASSUME Inv, LooseContinue
  PROVE  Inv'
  <1>0. /\ loose' = "start" => looseGoal' = goal /\ Active(goal)
        /\ looseGoal' \in {goal, looseGoal}
        /\ UNCHANGED <<goalVars, turnVars, mapVars, ops, step, unserialized, orphaned, userVars, countVars>>
    BY DEF LooseContinue, Continuable
  <1>1. GoalInv'  BY <1>0 DEF Inv, GoalInv, goalVars, Active
  <1> USE DEF goalVars, turnVars, registryVars, mapVars, countVars
  <1>2. RegistryInv'  BY <1>0, RegistryFrame DEF Inv, registryPart
  <1>3. StepInv'  BY <1>0, StepFrame DEF Inv, stepPart
  <1>4. ChainInv'  BY <1>0, ChainFrame DEF Inv, chainPart
  <1>5. BindInv'  BY <1>0, BindFrame DEF Inv, bindPart
  <1>6. StopInv'  BY <1>0, StopFrame DEF Inv, stopPart
  <1>7. UsageInv'  BY <1>0, UsageFrame DEF Inv, usagePart
  <1>8. AutonomyInv'  BY <1>0, AutonomyFrame DEF Inv, autonomyPart
  <1>9. ReceiptInv'  BY <1>0, ReceiptFrame DEF Inv, receiptPart
  <1> QED  BY <1>1, <1>2, <1>3, <1>4, <1>5, <1>6, <1>7, <1>8, <1>9 DEF Inv

(* A goal turn starts; nothing else is touched but the step of the chain.  *)
LEMMA GoalTurnStarts ==
  ASSUME Inv, NEW t \in Turn, NEW g \in GoalType, g.id <= lastGoal, Starts(t, "goal", g), CanStart,
         UNCHANGED <<goalVars, completing, retired, superseded, orphaned, charged>>,
         unserialized' = unserialized \/ unserialized' = unserialized \cup {t},
         t \in unserialized' \/ (g = goal /\ Active(goal) /\ step' = "begin"),
         HeadStays, step' # "begin" => step # "begin" \/ ops # <<>>
  PROVE  /\ RegistryInv' /\ ChainInv' /\ BindInv' /\ StopInv' /\ UsageInv' /\ ReceiptInv'
         /\ bound' = [bound EXCEPT ![t] = [goal |-> g.id, objective |-> g.objective]]
         /\ goalTurns' = goalTurns \cup {t}
         /\ t \notin registered /\ registered' = registered \cup {t}
  <1> USE DEF goalVars
  <1>0. /\ ActiveTurn = NoTurn /\ phase[t] = "unused" /\ UNCHANGED <<terminal, ended>>
        /\ phase' = [phase EXCEPT ![t] = "running"] /\ phase \in [Turn -> Phase]
        /\ StartTask(t, FALSE)
        /\ bound' = [bound EXCEPT ![t] = [goal |-> g.id, objective |-> g.objective]]
        /\ goalTurns' = goalTurns \cup {t}
    BY DEF CanStart, Starts, Inv, RegistryInv
  <1>1. RegistryInv'  BY <1>0, RegistryStarts DEF Inv
  <1>2. t \notin registered /\ registered' = registered \cup {t}
    BY <1>0, PhaseFacts DEF Inv, RegistryInv, StartTask
  <1>4. ChainInv'
    <2>1. AskInv'  BY <1>0 DEF Inv, ChainInv, AskInv
    <2>2. Kept({})  BY <1>0 DEF Kept, Inv, BindInv
    <2> QED  BY <2>1, <2>2, ChainStays DEF Inv
  <1>5. BindInv'  BY <1>0, BindStarts DEF Inv
  <1>6. StopInv'  BY <1>0, StopStarts DEF Inv
  <1>7. UsageInv'  BY <1>0, UsageStarts DEF Inv, BindInv
  <1>9. ReceiptInv'
    <2>1. \A u \in Turn: goal # NoGoal /\ completing'[u] = goal.id =>
            /\ bound'[u] = bound[u] /\ completing[u] = goal.id
            /\ u \in superseded => u \in superseded'
      <3>1. completing[t] = 0  BY <1>0 DEF Inv, BindInv
      <3>2. goal # NoGoal => goal.id # 0  BY DEF Inv, GoalInv, GoalType
      <3> QED  BY <1>0, <3>1, <3>2 DEF Inv, BindInv
    <2>2. \A u \in Turn: Judged(u)' <=> Judged(u)  BY DEF Judged
    <2> QED  BY <2>1, <2>2, ReceiptStays DEF Inv
  <1> QED  BY <1>0, <1>1, <1>2, <1>4, <1>5, <1>6, <1>7, <1>9

LEMMA StartContinuationStep ==
  ASSUME Inv, StartContinuation
  PROVE  Inv'
  <1>0. /\ step = "start" /\ ops # <<>> /\ StopScheduling /\ Active(goal)
        /\ goal \in GoalType /\ goal.id <= lastGoal
        /\ CreateContinuation(goal)
        /\ unattended' = (IF registered' = registered THEN unattended ELSE unattended + 1)
        /\ uncounted' = (IF registered' # registered /\ Unsettling(goal) THEN uncounted + 1 ELSE uncounted)
        /\ UNCHANGED <<goalVars, completing, retired, superseded, looseVars, userVars, charged>>
    BY DEF StartContinuation, Inv, StepInv, GoalInv, Active
  <1>1. HeadStays /\ step' = "begin"  BY <1>0 DEF HeadStays, StopScheduling, Continuing
  <1>2. StepInv'  BY <1>1 DEF StepInv, StepName
  <1>3. GoalInv'  BY <1>0, GoalFrame DEF Inv, goalPart, goalVars, looseVars
  <1>4. CASE UNCHANGED <<turnVars, bound>>
    <2>1. UNCHANGED <<mapVars, unattended, uncounted>>
      BY <1>0, <1>4 DEF mapVars, turnVars, registryVars
    <2> QED  BY <1>0, <1>1, <1>2, <1>3, <1>4, <2>1, StepOnly DEF looseVars
  <1>5. CASE CanStart /\ StartTurn("goal", goal)
    <2>1. PICK t \in Turn: Starts(t, "goal", goal)  BY <1>5, SomeTurnStarts
    <2>2. /\ RegistryInv' /\ ChainInv' /\ BindInv' /\ StopInv' /\ UsageInv' /\ ReceiptInv'
          /\ bound' = [bound EXCEPT ![t] = [goal |-> goal.id, objective |-> goal.objective]]
          /\ goalTurns' = goalTurns \cup {t}
          /\ t \notin registered /\ registered' = registered \cup {t}
      BY <1>0, <1>1, <1>5, <2>1, GoalTurnStarts DEF looseVars
    <2>3. t \notin superseded' \cup unserialized'
      BY <1>0, <2>1 DEF Starts, Inv, BindInv, looseVars
    <2>4. Unsettling(goal)'
      BY <1>0, <2>2, <2>3 DEF Unsettling, Inv, BindInv, goalVars
    <2>5. /\ unattended' = unattended + 1
          /\ uncounted' = IF Unsettling(goal) THEN uncounted + 1 ELSE uncounted
      BY <1>0, <2>2
    <2>6. AutonomyInv'
      <3>1. /\ goal.automatic \in Nat /\ MaxAutomatic \in Nat /\ goal.automatic < MaxAutomatic
            /\ unattended \in Nat /\ uncounted \in Nat /\ goal' = goal
        BY <1>0, GoalLimits DEF Inv, GoalInv, GoalType, AutonomyInv, goalVars
      <3>2. CASE Unsettling(goal)
        <4>1. unattended <= goal.automatic + uncounted + 1  BY <1>0 DEF Inv, AutonomyInv
        <4> QED  BY <2>4, <2>5, <3>1, <3>2, <4>1 DEF AutonomyInv
      <3>3. CASE ~Unsettling(goal)
        <4>1. unattended <= goal.automatic + uncounted  BY <1>0, <3>3 DEF Inv, AutonomyInv
        <4> QED  BY <2>4, <2>5, <3>1, <3>3, <4>1 DEF AutonomyInv
      <3> QED  BY <3>2, <3>3
    <2> QED  BY <1>2, <1>3, <2>2, <2>6 DEF Inv
  <1> QED  BY <1>0, <1>4, <1>5 DEF CreateContinuation

LEMMA LooseStartStep ==
  ASSUME Inv, LooseStart
  PROVE  Inv'
  <1>0. /\ looseGoal \in GoalType /\ looseGoal.id <= lastGoal
        /\ CreateContinuation(looseGoal)
        /\ unserialized' = unserialized \cup (registered' \ registered)
        /\ loose' = "idle" /\ looseGoal' = NoGoal
        /\ UNCHANGED <<goalVars, completing, retired, superseded, ops, step, orphaned, charged,
                       unattended, uncounted>>
    BY DEF LooseStart, Inv, GoalInv
  <1>1. GoalInv'  BY <1>0 DEF Inv, GoalInv, goalVars
  <1>2. StepInv'  BY <1>0, StepFrame DEF Inv, stepPart, goalVars
  <1>3. HeadStays /\ (step' # "begin" => step # "begin" \/ ops # <<>>)
    BY <1>0 DEF HeadStays
  <1>4. CASE UNCHANGED <<turnVars, bound>>
    <2> USE DEF goalVars, turnVars, registryVars
    <2>0. unserialized' = unserialized  BY <1>0, <1>4
    <2>1. RegistryInv'  BY <1>4, RegistryFrame DEF Inv, registryPart
    <2>2. ChainInv'  BY <1>0, <1>4, ChainFrame DEF Inv, chainPart
    <2>3. BindInv'  BY <1>0, <1>4, <2>0, BindFrame DEF Inv, bindPart
    <2>4. StopInv'  BY <1>0, <1>4, <2>0, StopFrame DEF Inv, stopPart
    <2>5. UsageInv'  BY <1>0, <1>4, UsageFrame DEF Inv, usagePart
    <2>6. AutonomyInv'  BY <1>0, <1>4, <2>0, AutonomyFrame DEF Inv, autonomyPart
    <2>7. ReceiptInv'  BY <1>0, <1>4, ReceiptFrame DEF Inv, receiptPart
    <2> QED  BY <1>1, <1>2, <2>1, <2>2, <2>3, <2>4, <2>5, <2>6, <2>7 DEF Inv
  <1>5. CASE CanStart /\ StartTurn("goal", looseGoal)
    <2>1. PICK t \in Turn: Starts(t, "goal", looseGoal)  BY <1>5, SomeTurnStarts
    <2>2. t \notin registered /\ registered' = registered \cup {t} /\ phase[t] = "unused"
      BY <2>1, PhaseFacts DEF Starts, StartTask, Inv, RegistryInv
    <2>3. unserialized' = unserialized \cup {t}  BY <1>0, <2>2
    <2>4. /\ RegistryInv' /\ ChainInv' /\ BindInv' /\ StopInv' /\ UsageInv' /\ ReceiptInv'
          /\ bound' = [bound EXCEPT ![t] = [goal |-> looseGoal.id, objective |-> looseGoal.objective]]
          /\ goalTurns' = goalTurns \cup {t}
      BY <1>0, <1>3, <1>5, <2>1, <2>3, GoalTurnStarts
    <2>5. AutonomyInv'
      <3>1. ASSUME goal # NoGoal, Unsettling(goal)
            PROVE  Unsettling(goal)'
        <4>1. bound[t] = Unbound /\ goal.id # 0 /\ goal' = goal
          BY <1>0, <2>2, <3>1 DEF Inv, BindInv, GoalInv, GoalType, goalVars
        <4>2. bound[t] # [goal |-> goal.id, objective |-> goal.objective]
          BY <4>1, UnboundFacts
        <4>3. superseded' = superseded  BY <1>0
        <4> QED  BY <2>3, <2>4, <3>1, <4>1, <4>2, <4>3, UnsettlingStays DEF Inv, BindInv
      <3> QED  BY <1>0, <3>1, AutonomyStays DEF Inv, Active, goalVars
    <2> QED  BY <1>1, <1>2, <2>4, <2>5 DEF Inv
  <1> QED  BY <1>0, <1>4, <1>5 DEF CreateContinuation

-----------------------------------------------------------------------------
(* The model's tools.                                                      *)

(* The turn whose call is at the head of the chain waits for it.           *)
LEMMA HeadCalls ==
  ASSUME Inv, NEW kind \in {"create", "prepare", "commit"}, Handles(kind, {"begin"})
  PROVE  /\ ops # <<>> /\ step = "begin" /\ step \notin Continuing
         /\ Head(ops).turn \in Turn /\ Head(ops).kind \in OfTurn
         /\ phase[Head(ops).turn] = "asking"
         /\ kind = "create" => Head(ops).objective \in Objective
         /\ kind = "commit" => ask[Head(ops).turn].stage = "committing"
  <1>1. ops # <<>> /\ step = "begin" /\ step \notin Continuing /\ Head(ops).kind = kind
    BY DEF Handles, Continuing
  <1>2. Head(ops).kind \in OfTurn  BY <1>1 DEF OfTurn
  <1>3. PICK t \in Turn: t = Head(ops).turn /\ Fits(Head(ops), ask[t].stage, phase[t], bound[t])
    BY <1>1, <1>2, HeadFinds DEF Inv
  <1>4. ask[t].stage # "none"  BY <1>1, <1>3 DEF Fits
  <1> QED  BY <1>1, <1>2, <1>3, <1>4 DEF Fits, Inv, ChainInv, AskInv

(* The call is over and nothing else has happened. *)
LEMMA RefusedStep ==
  ASSUME Inv, NEW t \in Turn, phase[t] = "asking", NoAnswer(t), EndOp,
         ops # <<>>, step = "begin", t = Head(ops).turn, Head(ops).kind \in OfTurn,
         UNCHANGED <<registryVars, terminal, ended, startedUnder, goalTurns, mapVars, looseVars,
                     charged, unattended, uncounted>>
  PROVE  Inv'
  <1>0. UNCHANGED goal  BY DEF NoAnswer
  <1>1. /\ RegistryInv' /\ GoalInv' /\ AskInv' /\ BindInv' /\ UsageInv' /\ AutonomyInv' /\ ReceiptInv'
        /\ Kept({t})
    BY NoAnswerMoves DEF looseVars
  <1>2. HeadActs /\ step' = "begin"
    <2>1. step \notin Continuing  BY DEF Continuing
    <2> QED  BY <2>1, HeadEnds
  <1>3. StepInv'  BY <1>2, StepActs
  <1>4. ChainInv'  BY <1>1, <1>2, HeadOfChainActs DEF Inv
  <1>5. StopInv'  BY <1>0, <1>2, StopShrinks DEF Inv, registryVars, mapVars, looseVars
  <1> QED  BY <1>1, <1>3, <1>4, <1>5 DEF Inv

LEMMA CreateGoalStep ==
  ASSUME Inv, CreateGoal
  PROVE  Inv'
  <1>h. Handles("create", {"begin"})  BY DEF CreateGoal
  <1>t. PICK t \in Turn: t = Head(ops).turn  BY <1>h, HeadCalls
  <1>0. /\ ops # <<>> /\ step = "begin" /\ step \notin Continuing
        /\ Head(ops).kind \in OfTurn /\ phase[t] = "asking" /\ Head(ops).objective \in Objective
        /\ UNCHANGED <<registryVars, terminal, ended, startedUnder, goalTurns, completing, retired,
                       superseded, loose, looseGoal, unserialized, charged, uncounted>>
    BY <1>h, <1>t, HeadCalls DEF CreateGoal
  <1>1. CASE NoAnswer(t) /\ EndOp /\ UNCHANGED <<bound, orphaned, unattended>>
    BY <1>0, <1>t, <1>1, RefusedStep DEF mapVars, looseVars
  <1>2. PICK g: g = NextGoalState(goal, Head(ops).objective, "active", TRUE, lastGoal + 1)  OBVIOUS
  <1>3. CASE /\ Publish(g, t) /\ unattended' = 0
             /\ bound' = [bound EXCEPT ![t] = [goal |-> g.id, objective |-> g.objective]]
             /\ orphaned' = orphaned \cup {u \in registered \ (aborted \cup {t}): bound[u] # Unbound}
             /\ Answered(t) /\ Continue
    <2>1. NextGoal(g, TRUE) /\ g.status = "active"
      <3>1. Head(ops).objective # Keep  BY <1>0, GoalLimits
      <3>2. NewWork(goal, "active", TRUE)  BY DEF NewWork
      <3>3. NextGoal(g, NewWork(goal, "active", TRUE))
        BY <1>0, <1>2, <3>1, NextGoalIsGood DEF Inv
      <3>4. NextGoal(g, TRUE)  BY <3>2, <3>3 DEF NextGoal
      <3>5. g.status = "active"  BY <1>2, <3>2, GoalLimits DEF NextGoalState
      <3> QED  BY <3>4, <3>5
    <2>2. g \in GoalType /\ g # NoGoal /\ g.id = lastGoal + 1 /\ g.mark = 0 /\ GoodGoal(g) /\ lastGoal \in Nat
      BY <2>1 DEF NextGoal, GoodGoal, Inv, GoalInv
    <2>3. GoalInv' /\ lastGoal' \in Nat /\ lastGoal <= lastGoal' /\ goal' = g /\ g.id <= lastGoal'
      BY <1>0, <1>3, <2>2, GoalPublished DEF Inv
    <2>4. /\ ask' \in [Turn -> AskType] /\ ask'[t] = NoAsk
          /\ \A u \in Turn \ {t}: ask'[u].stage = ask[u].stage
      BY <1>3, AsksAnswered DEF Inv, ChainInv
    <2>5. phase' = [phase EXCEPT ![t] = "running"] /\ phase \in [Turn -> Phase]
      BY <1>3 DEF Answered, Inv, RegistryInv
    <2>6. RegistryInv'
      <3>1. "running" \in Phase /\ "running" \in Live /\ phase[t] \in Live  BY <1>0, PhaseFacts
      <3> QED  BY <1>0, <2>5, <3>1, RegistryPhase DEF Inv
    <2>7. AskInv'  BY <2>4, <2>5, AskTypes DEF Inv, ChainInv, AskInv
    <2>8. HeadActs /\ step' \in {"begin", "continue"}  BY <1>0, <1>3, HeadContinues
    <2>9. StepInv'  BY <2>8, StepActs
    <2>10. ChainInv'
      <3>1. Kept({t})  BY <1>3, <2>4, <2>5 DEF Kept, Inv, BindInv
      <3> QED  BY <1>0, <1>t, <2>7, <2>8, <3>1, HeadOfChainActs DEF Inv
    <2>11. PICK b \in BoundType(lastGoal'): b = [goal |-> g.id, objective |-> g.objective] /\ b.goal = g.id
      <3>1. PICK b: b = [goal |-> g.id, objective |-> g.objective]  OBVIOUS
      <3>2. g.id \in 0..lastGoal' /\ g.objective \in Objective  BY <2>2, <2>3 DEF GoalType
      <3>3. b \in BoundType(lastGoal')  BY <3>1, <3>2 DEF BoundType
      <3> QED  BY <3>1, <3>3
    <2>12. BindInv'
      <3>1. orphaned' \subseteq Turn  BY <1>3 DEF Inv, BindInv, RegistryInv, RegistryTypeOK
      <3> QED  BY <1>0, <1>3, <2>2, <2>3, <2>5, <2>11, <3>1, BindJoins DEF Inv
    <2>13. StopInv'
      <3>1. bound'[t].goal = goal'.id /\ goal'.status = "active" /\ goal' # NoGoal
        BY <1>3, <2>1, <2>2, <2>3, <2>11 DEF Inv, BindInv
      <3>2. ASSUME NEW u \in registered \ aborted, u # t
            PROVE  bound'[u] = bound[u] /\ (bound[u] # Unbound => u \in orphaned')
        BY <1>3, <3>2 DEF Inv, BindInv, RegistryInv, RegistryTypeOK
      <3>3. ASSUME NEW u \in registered' \ aborted', bound'[u] # Unbound, u \notin orphaned'
            PROVE  u = t
        BY <1>0, <3>2, <3>3 DEF registryVars
      <3> QED  BY <2>8, <3>1, <3>3 DEF StopInv
    <2>14. UsageInv'
      <3>1. \A u \in Turn: phase[u] = "settled" => phase'[u] = "settled"  BY <1>0, <2>5
      <3> QED  BY <1>0, <2>2, <2>3, <3>1, UsageGoal DEF Inv
    <2>15. AutonomyInv'  BY <1>0, <1>3, <2>2, <2>3, AutonomyRests DEF Inv
    <2>16. ReceiptInv'
      <3>1. \A u \in Turn: completing'[u] # g.id  BY <1>0, <2>2 DEF Inv, BindInv
      <3> QED  BY <1>3, <3>1, ReceiptPublished DEF Inv, ChainInv
    <2> QED  BY <2>3, <2>6, <2>9, <2>10, <2>12, <2>13, <2>14, <2>15, <2>16 DEF Inv
  <1> QED  BY <1>t, <1>1, <1>2, <1>3 DEF CreateGoal

LEMMA PrepareStep ==
  ASSUME Inv, PrepareVerification
  PROVE  Inv'
  <1> USE DEF mapVars, countVars
  <1>h. Handles("prepare", {"begin"})  BY DEF PrepareVerification
  <1>t. PICK t \in Turn: t = Head(ops).turn  BY <1>h, HeadCalls
  <1>0. /\ ops # <<>> /\ step = "begin" /\ step \notin Continuing
        /\ Head(ops).kind \in OfTurn /\ phase[t] = "asking" /\ EndOp
        /\ UNCHANGED <<registryVars, terminal, ended, startedUnder, goalTurns, mapVars, looseVars,
                       userVars, countVars>>
    BY <1>h, <1>t, HeadCalls DEF PrepareVerification
  <1>1. CASE NoAnswer(t)  BY <1>0, <1>t, <1>1, RefusedStep
  <1>2. CASE /\ Active(goal)
             /\ ask' = [ask EXCEPT ![t] =
                  [stage |-> "verifying", goal |-> goal.id, objective |-> goal.objective,
                   fresh |-> TRUE, changed |-> FALSE, untouched |-> TRUE,
                   passed |-> FALSE, attempt |-> Attempt(receipt, t)]]
             /\ UNCHANGED <<goal, lastGoal, receipt, sound, phase>>
    <2>1. PICK a \in AskType:
            /\ ask' = [ask EXCEPT ![t] = a] /\ a.stage = "verifying" /\ a.goal = goal.id
            /\ a.objective = goal.objective /\ a.untouched
      <3>1. Attempt(receipt, t) \in Nat  BY DEF Attempt, Inv, ReceiptInv, ReceiptType
      <3>2. goal.id \in Nat /\ goal.objective \in Objective
        BY <1>2 DEF Inv, GoalInv, GoalType, Active
      <3>3. PICK a: a = [stage |-> "verifying", goal |-> goal.id, objective |-> goal.objective,
                         fresh |-> TRUE, changed |-> FALSE, untouched |-> TRUE,
                         passed |-> FALSE, attempt |-> Attempt(receipt, t)]
        OBVIOUS
      <3>4. /\ a.stage = "verifying" /\ a.goal = goal.id
            /\ a.objective = goal.objective /\ a.untouched
        BY <3>3
      <3>5. a \in AskType  BY <3>1, <3>2, <3>3 DEF AskType, Stage
      <3> QED  BY <1>2, <3>3, <3>4, <3>5
    <2>2. AskInv'  BY <1>0, <1>2, <2>1 DEF Inv, ChainInv, AskInv
    <2>3. HeadActs /\ step' = "begin"  BY <1>0, HeadEnds
    <2>4. StepInv'  BY <2>3, StepActs
    <2>5. ChainInv'
      <3>1. Kept({t})  BY <1>0, <1>2, <2>1 DEF Kept, Inv, ChainInv, AskInv
      <3> QED  BY <1>0, <1>t, <2>2, <2>3, <3>1, HeadOfChainActs DEF Inv
    <2>6. RegistryInv'  BY <1>0, <1>2, RegistryFrame DEF Inv, registryPart, registryVars
    <2>7. GoalInv'  BY <1>0, <1>2, GoalFrame DEF Inv, goalPart, looseVars
    <2>8. BindInv'  BY <1>0, <1>2, BindFrame DEF Inv, bindPart, looseVars
    <2>9. StopInv'  BY <1>0, <1>2, <2>3, StopShrinks DEF Inv, registryVars, looseVars
    <2>10. UsageInv'  BY <1>0, <1>2, UsageFrame DEF Inv, usagePart
    <2>11. AutonomyInv'  BY <1>0, <1>2, AutonomyFrame DEF Inv, autonomyPart, looseVars
    <2>12. ReceiptInv'
      <3>1. ask'[t] = a /\ \A u \in Turn \ {t}: ask'[u] = ask[u]
        BY <2>1 DEF Inv, ChainInv, AskInv
      <3>2. \A u \in Turn \ {t}: Judged(u)' <=> Judged(u)  BY <3>1 DEF Judged
      <3>3. goal # NoGoal  BY <1>2 DEF Active
      <3>4. ASSUME NEW u \in Turn, Judged(u)', ~ask'[u].changed
            PROVE  /\ goal # NoGoal /\ ask'[u].goal = goal.id /\ ask'[u].objective = goal.objective
                   /\ ask'[u].fresh => ask'[u].untouched
        <4>1. CASE u = t  BY <2>1, <3>1, <3>3, <4>1
        <4>2. CASE u # t  BY <3>1, <3>2, <3>4, <4>2 DEF Inv, ReceiptInv
        <4> QED  BY <4>1, <4>2
      <3> QED  BY <1>0, <1>2, <3>4 DEF Inv, ReceiptInv
    <2> QED  BY <2>4, <2>5, <2>6, <2>7, <2>8, <2>9, <2>10, <2>11, <2>12 DEF Inv
  <1> QED  BY <1>t, <1>1, <1>2 DEF PrepareVerification

LEMMA CommitStep ==
  ASSUME Inv, CommitVerification
  PROVE  Inv'
  <1> USE DEF countVars
  <1>h. Handles("commit", {"begin"})  BY DEF CommitVerification
  <1>t. PICK t \in Turn: t = Head(ops).turn  BY <1>h, HeadCalls
  <1>0. /\ ops # <<>> /\ step = "begin" /\ step \notin Continuing
        /\ Head(ops).kind \in OfTurn /\ phase[t] = "asking" /\ EndOp
        /\ ask[t].stage = "committing"
        /\ UNCHANGED <<registryVars, terminal, ended, startedUnder, goalTurns, retired, superseded,
                       looseVars, userVars, countVars>>
    BY <1>h, <1>t, HeadCalls DEF CommitVerification
  <1>1. CASE NoAnswer(t) /\ UNCHANGED <<bound, completing>>
    BY <1>0, <1>t, <1>1, RefusedStep DEF mapVars
  <1>2. PICK report:
          report = [goal |-> ask[t].goal, objective |-> ask[t].objective, turn |-> t,
                    attempt |-> ask[t].attempt, passed |-> ask[t].passed, fresh |-> ask[t].fresh]
    OBVIOUS
  <1>3. PICK exhausted: exhausted = (~report.passed /\ report.attempt >= MaxAttempts)  OBVIOUS
  <1>4. CASE /\ MayCommit(t)
             /\ receipt' = IF report.objective = goal.objective THEN report ELSE receipt
             /\ ask' = [u \in Turn |-> IF u = t THEN NoAsk ELSE [ask[u] EXCEPT !.changed = TRUE]]
             /\ goal' = IF exhausted THEN WithGoalStatus(goal, "blocked") ELSE goal
             /\ sound' = IF report.passed /\ ask[t].untouched THEN sound \cup {t} ELSE sound \ {t}
             /\ bound' = [bound EXCEPT ![t] = [goal |-> goal.id, objective |-> goal.objective]]
             /\ completing' = IF report.passed THEN [completing EXCEPT ![t] = goal.id]
                                               ELSE completing
             /\ Answered(t)
             /\ UNCHANGED lastGoal
    <2>1. ask[t] \in AskType /\ t \notin aborted /\ Active(goal) /\ ~ask[t].changed /\ Judged(t)
          /\ CurrentRevision(t)
      BY <1>0, <1>4 DEF MayCommit, Judged, Inv, ChainInv, AskInv
    <2>2. /\ goal # NoGoal /\ goal \in GoalType /\ goal.id <= lastGoal /\ lastGoal \in Nat
          /\ ask[t].goal = goal.id /\ ask[t].objective = goal.objective
          /\ ask[t].fresh => ask[t].untouched
      BY <2>1 DEF Inv, ReceiptInv, GoalInv
    <2>3. /\ report \in ReceiptType /\ report.goal = goal.id /\ report.objective = goal.objective
          /\ report.turn = t /\ report.passed = ask[t].passed /\ report.fresh = ask[t].fresh
      <3>1. report.goal = ask[t].goal /\ report.objective = ask[t].objective /\ report.turn = t
            /\ report.passed = ask[t].passed /\ report.fresh = ask[t].fresh
        BY <1>2
      <3>2. report \in ReceiptType  BY <1>2, <2>1 DEF ReceiptType, AskType
      <3> QED  BY <2>2, <3>1, <3>2
    <2>4. receipt' = report  BY <1>4, <2>3
    <2>5. /\ goal' \in GoalType /\ goal' # NoGoal /\ goal'.id = goal.id /\ goal'.mark = goal.mark
          /\ goal'.objective = goal.objective /\ goal'.status \in {"active", "blocked"}
          /\ Active(goal') => goal' = goal
      <3>1. "blocked" \in Status \ {"active"}  BY DEF Status
      <3>2. CASE exhausted
        <4>1. goal' = WithGoalStatus(goal, "blocked")  BY <1>4, <3>2
        <4>2. PICK w: w = WithGoalStatus(goal, "blocked")  OBVIOUS
        <4>3. /\ w \in GoalType /\ w.id = goal.id /\ w.objective = goal.objective
              /\ w.mark = goal.mark /\ w.status = "blocked" /\ ~Active(w) /\ w # NoGoal
          BY <2>2, <3>1, <4>2, WithStatus
        <4> QED  BY <4>1, <4>2, <4>3
      <3>3. CASE ~exhausted
        <4>1. goal' = goal  BY <1>4, <3>3
        <4> QED  BY <2>1, <2>2, <4>1 DEF Active
      <3> QED  BY <3>2, <3>3
    <2>6. GoalInv'  BY <1>0, <1>4, <2>2, <2>5 DEF Inv, GoalInv, looseVars
    <2>7. phase' = [phase EXCEPT ![t] = "running"] /\ phase \in [Turn -> Phase]
      BY <1>4 DEF Answered, Inv, RegistryInv
    <2>8. RegistryInv'
      <3>1. "running" \in Phase /\ "running" \in Live /\ phase[t] \in Live  BY <1>0, PhaseFacts
      <3> QED  BY <1>0, <2>7, <3>1, RegistryPhase DEF Inv
    <2>9. /\ ask' \in [Turn -> AskType] /\ ask'[t] = NoAsk
          /\ \A u \in Turn \ {t}: ask'[u].stage = ask[u].stage /\ ask'[u].changed
      <3>1. ask'[t] = NoAsk  BY <1>4
      <3>2. \A u \in Turn \ {t}: ask'[u] = [ask[u] EXCEPT !.changed = TRUE] /\ ask[u] \in AskType
        BY <1>4 DEF Inv, ChainInv, AskInv
      <3>3. \A u \in Turn \ {t}: ask'[u] \in AskType /\ ask'[u].stage = ask[u].stage /\ ask'[u].changed
        BY <3>2 DEF AskType
      <3>4. ask' = [u \in Turn |-> ask'[u]]  BY <1>4
      <3> QED  BY <3>1, <3>3, <3>4, AskTypes
    <2>10. AskInv'  BY <2>7, <2>9, AskTypes DEF Inv, ChainInv, AskInv
    <2>11. HeadActs /\ step' = "begin"  BY <1>0, HeadEnds
    <2>12. StepInv'  BY <2>11, StepActs
    <2>13. PICK b: b = [goal |-> goal.id, objective |-> goal.objective] /\ b.goal = goal.id
                   /\ bound' = [bound EXCEPT ![t] = b]
      BY <1>4
    <2>14. bound'[t] = b /\ \A u \in Turn \ {t}: bound'[u] = bound[u]
      BY <2>13 DEF Inv, BindInv
    <2>15. ChainInv'
      <3>1. Kept({t})  BY <2>7, <2>9, <2>14 DEF Kept
      <3> QED  BY <1>0, <1>t, <2>10, <2>11, <3>1, HeadOfChainActs DEF Inv
    <2>16. BindInv'
      <3>1. b \in BoundType(lastGoal') /\ lastGoal' \in Nat /\ lastGoal <= lastGoal' /\ goal.id \in 0..lastGoal'
        BY <1>4, <2>2, <2>13, GoalBinding DEF Inv, GoalType
      <3>2. completing' = completing \/ \E id \in 0..lastGoal': completing' = [completing EXCEPT ![t] = id]
        BY <1>4, <3>1
      <3>3. orphaned' \subseteq Turn /\ unserialized' = unserialized  BY <1>0 DEF Inv, BindInv, looseVars
      <3> QED  BY <1>0, <2>2, <2>7, <2>13, <3>1, <3>2, <3>3, BindJoins DEF Inv
    <2>17. StopInv'
      <3>1. registered' = registered /\ aborted' = aborted /\ unserialized' = unserialized
            /\ orphaned' = orphaned
        BY <1>0 DEF registryVars, looseVars
      <3>2. ASSUME NEW u \in registered \ aborted, bound'[u] # Unbound, u \notin unserialized \cup orphaned
            PROVE  bound'[u].goal = goal.id
        <4>1. u \in Turn  BY DEF Inv, RegistryInv, RegistryTypeOK
        <4>2. CASE u = t  BY <2>13, <2>14, <4>2
        <4>3. CASE u # t  BY <2>14, <3>2, <4>1, <4>3 DEF Inv, StopInv
        <4> QED  BY <4>2, <4>3
      <3> QED  BY <2>5, <2>11, <3>1, <3>2 DEF StopInv
    <2>18. UsageInv'
      <3>1. \A u \in Turn: phase[u] = "settled" => phase'[u] = "settled"  BY <1>0, <2>7
      <3> QED  BY <1>0, <2>2, <2>5, <3>1, UsageGoal DEF Inv
    <2>19. AutonomyInv'
      <3>1. CASE ~Active(goal')  BY <1>0, <3>1, AutonomyStops DEF Inv
      <3>2. CASE Active(goal')
        <4>1. goal' = goal  BY <2>5, <3>2
        <4>2. ASSUME Unsettling(goal)
              PROVE  Unsettling(goal)'
          <5>1. bound[t] = [goal |-> goal.id, objective |-> goal.objective] => bound'[t] = bound[t]
            BY <2>13, <2>14
          <5>2. UNCHANGED <<goalTurns, superseded, unserialized>>  BY <1>0 DEF looseVars
          <5> QED  BY <2>14, <4>1, <4>2, <5>1, <5>2, UnsettlingStays DEF Inv, BindInv
        <4> QED  BY <1>0, <4>1, <4>2, AutonomyStays DEF Inv
      <3> QED  BY <3>1, <3>2
    <2>20. ReceiptInv'
      <3>1. ASSUME report.passed, report.fresh
            PROVE  t \in sound'
        BY <1>4, <2>2, <2>3, <3>1
      <3>2. ASSUME NEW u \in Turn, completing'[u] = goal.id
            PROVE  bound'[u].goal = goal.id
        <4>1. CASE u = t  BY <2>13, <2>14, <4>1
        <4>2. CASE u # t
          <5>1. completing'[u] = completing[u]  BY <1>4, <4>2 DEF Inv, BindInv
          <5> QED  BY <2>2, <2>14, <3>2, <4>2, <5>1 DEF Inv, ReceiptInv
        <4> QED  BY <4>1, <4>2
      <3>3. \A u \in Turn: Judged(u)' => ask'[u].changed  BY <2>9, AskTypes DEF Judged
      <3> QED  BY <2>3, <2>4, <2>5, <3>1, <3>2, <3>3 DEF ReceiptInv
    <2> QED  BY <2>6, <2>8, <2>12, <2>15, <2>16, <2>17, <2>18, <2>19, <2>20 DEF Inv
  <1> QED  BY <1>t, <1>1, <1>2, <1>3, <1>4 DEF CommitVerification

-----------------------------------------------------------------------------
(* Settlement.                                                             *)

LEMMA LeastElement ==
  ASSUME NEW S, S \subseteq Nat, S # {}
  PROVE  \E n \in S : \A m \in S : n <= m
  <1> DEFINE R == OpToRel(<, Nat)
  <1>1. IsWellFoundedOn(R, Nat)  BY NatLessThanWellFounded, Zenon
  <1> HIDE DEF R
  <1>2. PICK n \in S : \A m \in S : <<m, n>> \notin R  BY <1>1, WFMin, Zenon
  <1>3. \A m, n1 \in Nat : m < n1 => <<m, n1>> \in R  BY DEF R, OpToRel
  <1>4. \A m \in S : ~(m < n)  BY <1>2, <1>3
  <1> QED  BY <1>4, SMT

(* A turn with a terminal event has a last one. *)
LEMMA LastTerminalEvent ==
  ASSUME ended \in Seq(Turn), NEW t, \E i \in 1..Len(ended): ended[i] = t
  PROVE  /\ LastPosition(t) \in 1..Len(ended)
         /\ \A i \in 1..Len(ended): ended[i] = t => i <= LastPosition(t)
  <1>1. PICK n \in Nat: n = Len(ended)  BY LenProperties
  <1> DEFINE S == {k \in 0..n: \E i \in 1..n: ended[i] = t /\ k = n - i}
  <1>2. S \subseteq Nat /\ S # {}
    <2>1. PICK i \in 1..n: ended[i] = t  BY <1>1
    <2>2. PICK m \in 0..n: m = n - i  BY <2>1
    <2>3. m \in S  BY <2>1, <2>2
    <2>4. S \subseteq Nat  OBVIOUS
    <2> HIDE DEF S
    <2> QED  BY <2>3, <2>4
  <1>3. PICK k \in S: \A m \in S: k <= m  BY <1>2, LeastElement, Zenon
  <1>4. PICK i \in 1..n: ended[i] = t /\ k = n - i  BY <1>3
  <1>5. ASSUME NEW j \in 1..n, ended[j] = t PROVE j <= i
    <2>1. PICK m \in 0..n: m = n - j  OBVIOUS
    <2>2. m \in S  BY <1>5, <2>1
    <2>3. k <= m  BY <1>3, <2>2
    <2> QED  BY <1>4, <2>1, <2>3
  <1>6. DOMAIN ended = 1..n  BY <1>1, LenProperties
  <1>7. \E l \in DOMAIN ended: ended[l] = t /\ \A j \in DOMAIN ended: ended[j] = t => j <= l
    BY <1>4, <1>5, <1>6
  <1> QED  BY <1>1, <1>6, <1>7 DEF LastPosition

(* The turn at the head of the chain settles, and nothing is remembered of *)
(* it.                                                                     *)
LEMMA HeadSettles ==
  ASSUME Inv, NEW kind \in {"settle", "settleOther"},
         Handles(kind, {"begin", "completing", "settling"})
  PROVE  /\ ops # <<>> /\ step \in {"begin", "completing", "settling"} /\ step \notin Continuing
         /\ Head(ops).turn \in Turn /\ Head(ops).kind \in OfTurn
         /\ phase[Head(ops).turn] = "settling"
         /\ kind = "settleOther" => bound[Head(ops).turn] = Unbound
         /\ kind = "settle" => Head(ops).objective = bound[Head(ops).turn].objective
  <1>1. /\ ops # <<>> /\ step \in {"begin", "completing", "settling"} /\ step \notin Continuing
        /\ Head(ops).kind = kind
    BY DEF Handles, Continuing
  <1>2. Head(ops).kind \in OfTurn  BY <1>1 DEF OfTurn
  <1>3. PICK t \in Turn: t = Head(ops).turn /\ Fits(Head(ops), ask[t].stage, phase[t], bound[t])
    BY <1>1, <1>2, HeadFinds DEF Inv
  <1> QED  BY <1>1, <1>2, <1>3 DEF Fits

LEMMA ForgetMoves ==
  ASSUME Inv, NEW t \in Turn, phase[t] = "settling", Forget(t),
         UNCHANGED <<unserialized, orphaned>>, lastGoal' \in Nat, lastGoal <= lastGoal',
         ask' \in [Turn -> AskType], \A u \in Turn: ask'[u].stage = ask[u].stage
  PROVE  /\ RegistryInv' /\ BindInv' /\ AskInv' /\ Kept({t})
         /\ phase' = [phase EXCEPT ![t] = "settled"] /\ terminal' = [terminal EXCEPT ![t] = "none"]
         /\ bound'[t] = Unbound /\ completing'[t] = 0
         /\ \A u \in Turn \ {t}: bound'[u] = bound[u] /\ completing'[u] = completing[u]
         /\ superseded' = superseded \ {t}
         /\ UNCHANGED <<registered, aborted, ended, startedUnder, goalTurns>>
         /\ t \notin registered /\ terminal[t] # "none"
  <1>1. /\ phase' = [phase EXCEPT ![t] = "settled"] /\ terminal' = [terminal EXCEPT ![t] = "none"]
        /\ bound' = [bound EXCEPT ![t] = Unbound] /\ completing' = [completing EXCEPT ![t] = 0]
        /\ superseded' = superseded \ {t}
        /\ UNCHANGED <<registryVars, registered, aborted, ended, startedUnder, goalTurns>>
    BY DEF Forget, registryVars
  <1>2. phase \in [Turn -> Phase] /\ phase[t] \notin Live /\ t \notin registered /\ terminal[t] # "none"
    BY PhaseFacts DEF Inv, RegistryInv
  <1>3. RegistryInv'  BY <1>1, <1>2, RegistryForgets DEF Inv
  <1>4. BindInv'  BY <1>2, BindForgets DEF Inv, GoalInv
  <1>5. AskInv'  BY <1>1, <1>2, AsksStay DEF Inv, ChainInv
  <1>6. /\ bound'[t] = Unbound /\ completing'[t] = 0
        /\ \A u \in Turn \ {t}: bound'[u] = bound[u] /\ completing'[u] = completing[u]
    BY <1>1 DEF Inv, BindInv
  <1>7. Kept({t})  BY <1>1, <1>6 DEF Kept
  <1> QED  BY <1>1, <1>2, <1>3, <1>4, <1>5, <1>6, <1>7

LEMMA UsageSettles ==
  ASSUME UsageInv, phase \in [Turn -> Phase], terminal \in [Turn -> Terminal],
         NEW t \in Turn, phase[t] = "settling",
         phase' = [phase EXCEPT ![t] = "settled"], terminal' = [terminal EXCEPT ![t] = "none"],
         UNCHANGED <<ended, startedUnder>>,
         goal # NoGoal => goal.mark \in Nat,
         \/ UNCHANGED <<goal, charged>>
         \/ /\ goal # NoGoal /\ goal' # NoGoal /\ goal'.id = goal.id
            /\ goal'.mark \in Nat /\ goal.mark <= goal'.mark /\ goal'.mark <= Len(ended)
            /\ \A i \in 1..Len(ended): ended[i] = t => i <= goal'.mark
            /\ charged' = [charged EXCEPT ![t] = @ + 1]
  PROVE  UsageInv'
  <1>1. charged[t] = 0 /\ charged \in [Turn -> 0..1]  BY DEF UsageInv
  <1>2. charged' \in [Turn -> 0..1] /\ \A u \in Turn \ {t}: charged'[u] = charged[u]
    <2>1. CASE charged' = charged  BY <1>1, <2>1
    <2>2. CASE charged' = [charged EXCEPT ![t] = @ + 1]  BY <1>1, <2>2
    <2> QED  BY <2>1, <2>2
  <1>3. PICK n \in Nat: n = Len(ended)  BY LenProperties DEF UsageInv
  <1>4. CASE UNCHANGED <<goal, charged>>
    BY <1>1, <1>2, <1>4 DEF UsageInv
  <1>5. CASE /\ goal # NoGoal /\ goal' # NoGoal /\ goal'.id = goal.id
             /\ goal'.mark \in Nat /\ goal.mark <= goal'.mark /\ goal'.mark <= Len(ended)
             /\ \A i \in 1..Len(ended): ended[i] = t => i <= goal'.mark
    <2>1. ASSUME NEW u \in Turn, charged'[u] = 1
          PROVE  /\ phase'[u] = "settled"
                 /\ startedUnder[u] = goal'.id =>
                      \A i \in 1..n: ended[i] = u => i <= goal'.mark
      <3>1. CASE u = t  BY <1>3, <1>5, <3>1
      <3>2. CASE u # t
        <4>1. charged[u] = 1  BY <1>2, <2>1, <3>2
        <4>2. phase[u] = "settled" /\ (startedUnder[u] = goal.id =>
                 \A i \in 1..n: ended[i] = u => i <= goal.mark)
          BY <1>3, <1>5, <4>1 DEF UsageInv
        <4> QED  BY <1>5, <4>2
      <3> QED  BY <3>1, <3>2
    <2>2. \A u \in Turn: terminal'[u] # "none" => \E i \in 1..n: ended[i] = u
      BY <1>3 DEF UsageInv
    <2> QED  BY <1>2, <1>3, <1>5, <2>1, <2>2 DEF UsageInv
  <1> QED  BY <1>4, <1>5

LEMMA SettleOtherStep ==
  ASSUME Inv, SettleOther
  PROVE  Inv'
  <1> USE DEF goalVars, looseVars, countVars
  <1>h. Handles("settleOther", {"begin", "completing", "settling"}) /\ step = "begin"
    BY DEF SettleOther, Handles
  <1>t. PICK t \in Turn: t = Head(ops).turn  BY <1>h, HeadSettles
  <1>0. /\ ops # <<>> /\ step = "begin" /\ step \notin Continuing
        /\ Head(ops).kind \in OfTurn /\ phase[t] = "settling" /\ bound[t] = Unbound
        /\ Forget(t) /\ (Continue \/ EndOp)
        /\ UNCHANGED <<goalVars, looseVars, userVars, countVars>>
    BY <1>h, <1>t, HeadSettles DEF SettleOther
  <1>1. HeadActs /\ step' \in {"begin", "continue"}  BY <1>0, HeadContinues, HeadEnds
  <1>2. /\ RegistryInv' /\ BindInv' /\ AskInv' /\ Kept({t})
        /\ phase' = [phase EXCEPT ![t] = "settled"] /\ terminal' = [terminal EXCEPT ![t] = "none"]
        /\ bound'[t] = Unbound /\ completing'[t] = 0
        /\ \A u \in Turn \ {t}: bound'[u] = bound[u] /\ completing'[u] = completing[u]
        /\ superseded' = superseded \ {t}
        /\ UNCHANGED <<registered, aborted, ended, startedUnder, goalTurns>>
    <2>1. /\ ask' \in [Turn -> AskType] /\ \A u \in Turn: ask'[u].stage = ask[u].stage
          /\ lastGoal' \in Nat /\ lastGoal <= lastGoal'
      BY <1>0 DEF Inv, ChainInv, AskInv, GoalInv
    <2> QED  BY <1>0, <2>1, ForgetMoves
  <1>3. bound' = bound  BY <1>0, <1>2 DEF Inv, BindInv
  <1>4. GoalInv'  BY <1>0, GoalFrame DEF Inv, goalPart
  <1>5. StepInv'  BY <1>1, StepActs
  <1>6. ChainInv'  BY <1>0, <1>t, <1>1, <1>2, HeadOfChainActs DEF Inv
  <1>7. StopInv'  BY <1>0, <1>1, <1>2, <1>3, StopShrinks DEF Inv
  <1>8. UsageInv'
    <2>1. goal # NoGoal => goal.mark \in Nat  BY DEF Inv, GoalInv, GoalType
    <2> QED  BY <1>0, <1>2, <2>1, UsageSettles DEF Inv, RegistryInv
  <1>9. AutonomyInv'
    <2>1. ASSUME Active(goal), Unsettling(goal)
          PROVE  Unsettling(goal)'
      <3>1. bound[t] # [goal |-> goal.id, objective |-> goal.objective]
        BY <1>0, <2>1, UnboundFacts DEF Inv, GoalInv, GoalType, Active
      <3> QED  BY <1>0, <1>2, <1>3, <2>1, <3>1, UnsettlingStays DEF Inv, BindInv
    <2> QED  BY <1>0, <2>1, AutonomyStays DEF Inv
  <1>10. ReceiptInv'
    <2>1. \A u \in Turn: goal # NoGoal /\ completing'[u] = goal.id =>
            /\ bound'[u] = bound[u] /\ completing[u] = goal.id
            /\ u \in superseded => u \in superseded'
      BY <1>2, <1>3 DEF Inv, GoalInv, GoalType
    <2>2. \A u \in Turn: Judged(u)' <=> Judged(u)  BY <1>0 DEF Judged
    <2> QED  BY <1>0, <2>1, <2>2, ReceiptStays DEF Inv
  <1> QED  BY <1>2, <1>4, <1>5, <1>6, <1>7, <1>8, <1>9, <1>10 DEF Inv

(* What the settlement of turn t may make of the goal.                     *)
Settles(next, t, overtaken) ==
  /\ next \in GoalType /\ next # NoGoal
  /\ next.id = goal.id /\ next.objective = goal.objective
  /\ next.mark \in Nat /\ goal.mark <= next.mark /\ next.mark <= Len(ended)
  /\ \A i \in 1..Len(ended): ended[i] = t => i <= next.mark
  /\ Active(next) =>
       /\ Active(goal)
       /\ next.automatic < MaxAutomatic /\ next.idle < MaxIdle
       /\ next.automatic = goal.automatic + (IF overtaken THEN 0 ELSE 1)
  /\ next.status = "paused" /\ next.byUser => goal.status = "paused" /\ goal.byUser
  /\ Active(goal) /\ next.status = "complete" => step = "completing"

LEMMA Accounted ==
  ASSUME Inv, goal # NoGoal, NEW t \in Turn, terminal[t] # "none", NEW a,
         a = [goal EXCEPT !.mark = Later(@, LastPosition(t))]
  PROVE  /\ a \in GoalType /\ a # NoGoal /\ a.id = goal.id /\ a.objective = goal.objective
         /\ a.status = goal.status /\ a.byUser = goal.byUser
         /\ a.automatic = goal.automatic /\ a.idle = goal.idle
         /\ a.mark \in Nat /\ goal.mark <= a.mark /\ a.mark <= Len(ended)
         /\ \A i \in 1..Len(ended): ended[i] = t => i <= a.mark
  <1>1. ended \in Seq(Turn) /\ (\E i \in 1..Len(ended): ended[i] = t) /\ goal.mark <= Len(ended)
        /\ goal \in GoalType
    BY DEF Inv, UsageInv, GoalInv
  <1>2. PICK last \in 1..Len(ended): last = LastPosition(t) /\ \A i \in 1..Len(ended): ended[i] = t => i <= last
    BY <1>1, LastTerminalEvent
  <1>3. Len(ended) \in Nat  BY <1>1, LenProperties
  <1>4. PICK m: m = Later(goal.mark, last)  OBVIOUS
  <1>5. m \in Nat /\ goal.mark <= m /\ last <= m /\ m <= Len(ended)
    BY <1>1, <1>3, <1>4 DEF Later, GoalType
  <1>6. a = [goal EXCEPT !.mark = m]  BY <1>2, <1>4
  <1>7. a \in GoalType /\ a.id = goal.id /\ a.objective = goal.objective
        /\ a.status = goal.status /\ a.byUser = goal.byUser
        /\ a.automatic = goal.automatic /\ a.idle = goal.idle /\ a.mark = m
    BY <1>1, <1>5, <1>6 DEF GoalType
  <1>8. \A i \in 1..Len(ended): ended[i] = t => i <= m  BY <1>2, <1>3, <1>5
  <1> QED  BY <1>5, <1>7, <1>8, NullAssumption

LEMMA SafetyKept ==
  ASSUME NEW a \in GoalType, a.automatic < MaxAutomatic, a.idle < MaxIdle, NEW progress \in BOOLEAN,
         NEW next, next = SafetyStop(NextGoalSafety(a, progress))
  PROVE  /\ next \in GoalType /\ next # NoGoal /\ next.id = a.id /\ next.objective = a.objective
         /\ next.mark = a.mark /\ next.status \in {a.status, "blocked"}
         /\ next.byUser => a.byUser
         /\ Active(next) => /\ next.automatic < MaxAutomatic /\ next.idle < MaxIdle
                            /\ next.automatic = a.automatic + 1
  <1>1. PICK i: i = IF progress THEN 0 ELSE a.idle + 1  OBVIOUS
  <1>2. i \in 0..MaxIdle /\ a.automatic + 1 \in 0..MaxAutomatic
    BY <1>1, GoalLimits DEF GoalType
  <1>3. PICK s: s = NextGoalSafety(a, progress)  OBVIOUS
  <1>4. s = [a EXCEPT !.automatic = a.automatic + 1, !.idle = i]
    BY <1>1, <1>3 DEF NextGoalSafety
  <1>5. /\ s \in GoalType /\ s.id = a.id /\ s.objective = a.objective /\ s.mark = a.mark
        /\ s.status = a.status /\ s.byUser = a.byUser /\ s.automatic = a.automatic + 1 /\ s.idle = i
    BY <1>2, <1>4 DEF GoalType
  <1>6. CASE s.idle >= MaxIdle \/ s.automatic >= MaxAutomatic
    <2>1. next = WithGoalStatus(s, "blocked")  BY <1>3, <1>6 DEF SafetyStop
    <2>2. "blocked" \in Status \ {"active"}  BY DEF Status
    <2> QED  BY <1>5, <2>1, <2>2, WithStatus
  <1>7. CASE ~(s.idle >= MaxIdle \/ s.automatic >= MaxAutomatic)
    <2>1. next = s  BY <1>3, <1>7 DEF SafetyStop
    <2>2. next.automatic < MaxAutomatic /\ next.idle < MaxIdle
      BY <1>2, <1>5, <1>7, <2>1, GoalLimits
    <2> QED  BY <1>5, <2>1, <2>2, NullAssumption
  <1> QED  BY <1>6, <1>7

LEMMA OutcomeSettles ==
  ASSUME Inv, goal # NoGoal, NEW t \in Turn, terminal[t] # "none",
         NEW overtaken \in BOOLEAN, NEW progress \in BOOLEAN, NEW a,
         a = [goal EXCEPT !.mark = Later(@, LastPosition(t))], NEW next,
         next = IF overtaken \/ ~Active(goal) THEN a ELSE Outcome(a, t, progress)
  PROVE  Settles(next, t, overtaken)
  <1>1. /\ a \in GoalType /\ a # NoGoal /\ a.id = goal.id /\ a.objective = goal.objective
        /\ a.status = goal.status /\ a.byUser = goal.byUser
        /\ a.automatic = goal.automatic /\ a.idle = goal.idle
        /\ a.mark \in Nat /\ goal.mark <= a.mark /\ a.mark <= Len(ended)
        /\ \A i \in 1..Len(ended): ended[i] = t => i <= a.mark
    BY Accounted
  <1>2. /\ Active(goal) => goal.automatic < MaxAutomatic /\ goal.idle < MaxIdle
        /\ a.automatic \in Nat
    BY <1>1 DEF Inv, GoalInv, GoalType
  <1>3. CASE overtaken \/ ~Active(goal)
    <2>1. next = a  BY <1>3
    <2> QED  BY <1>1, <1>2, <1>3, <2>1 DEF Settles, Active
  <1>4. CASE ~overtaken /\ Active(goal)
    <2>1. next = Outcome(a, t, progress)  BY <1>4
    <2>2. CASE \E s \in Status \ {"active"}: /\ next = WithGoalStatus(a, s)
                                             /\ s = "complete" => step = "completing"
      <3>1. PICK s \in Status \ {"active"}: /\ next = WithGoalStatus(a, s)
                                            /\ s = "complete" => step = "completing"
        BY <2>2
      <3>2. /\ next \in GoalType /\ next.id = a.id /\ next.objective = a.objective
            /\ next.mark = a.mark /\ next.status = s /\ ~next.byUser /\ ~Active(next) /\ next # NoGoal
        <4>1. a \in GoalType /\ s \in Status \ {"active"} /\ next = WithGoalStatus(a, s)  BY <1>1, <3>1
        <4>2. /\ WithGoalStatus(a, s) \in GoalType /\ WithGoalStatus(a, s).id = a.id
              /\ WithGoalStatus(a, s).objective = a.objective /\ WithGoalStatus(a, s).mark = a.mark
              /\ WithGoalStatus(a, s).status = s /\ ~WithGoalStatus(a, s).byUser
              /\ ~Active(WithGoalStatus(a, s)) /\ WithGoalStatus(a, s) # NoGoal
          BY <4>1, WithStatus, Zenon
        <4> QED  BY <4>1, <4>2
      <3> QED  BY <1>1, <1>4, <3>1, <3>2 DEF Settles
    <2>3. CASE next = SafetyStop(NextGoalSafety(a, progress))
      <3>1. /\ next \in GoalType /\ next # NoGoal /\ next.id = a.id /\ next.objective = a.objective
            /\ next.mark = a.mark /\ next.status \in {a.status, "blocked"}
            /\ next.byUser => a.byUser
            /\ Active(next) => /\ next.automatic < MaxAutomatic /\ next.idle < MaxIdle
                               /\ next.automatic = a.automatic + 1
        <4>1. a \in GoalType /\ a.automatic < MaxAutomatic /\ a.idle < MaxIdle
              /\ next = SafetyStop(NextGoalSafety(a, progress))
          BY <1>1, <1>2, <1>4, <2>3
        <4> QED  BY <4>1, SafetyKept
      <3>2. next.status \in {"active", "blocked"}  BY <1>1, <1>4, <3>1 DEF Active
      <3> QED  BY <1>1, <1>4, <3>1, <3>2 DEF Settles
    <2>4. terminal[t] \in {"cancelled", "error", "completed"}  BY DEF Inv, RegistryInv, Terminal
    <2>5. {"paused", "blocked", "complete"} \subseteq Status \ {"active"}  BY DEF Status
    <2>6. CASE terminal[t] = "cancelled"
      <3>1. next = WithGoalStatus(a, "paused")  BY <2>1, <2>6 DEF Outcome
      <3> QED  BY <2>2, <2>5, <3>1
    <2>7. CASE terminal[t] = "error"
      <3>1. next = WithGoalStatus(a, "blocked")  BY <2>1, <2>7 DEF Outcome
      <3> QED  BY <2>2, <2>5, <3>1
    <2>8. CASE terminal[t] = "completed" /\ step = "completing"
      <3>1. next = WithGoalStatus(a, "complete")  BY <2>1, <2>8 DEF Outcome
      <3> QED  BY <2>2, <2>5, <2>8, <3>1
    <2>9. CASE terminal[t] = "completed" /\ step # "completing"
      <3>1. next = SafetyStop(NextGoalSafety(a, progress))  BY <2>1, <2>9 DEF Outcome
      <3> QED  BY <2>3, <3>1
    <2> QED  BY <2>4, <2>6, <2>7, <2>8, <2>9
  <1> QED  BY <1>3, <1>4

(* The settlement decides nothing: it is ignored, or its write fails. *)
LEMMA SettlesNothing ==
  ASSUME Inv, NEW t \in Turn, t = Head(ops).turn, Handles("settle", {"begin", "completing", "settling"}),
         Forget(t), EndOp, UNCHANGED <<goalVars, charged, looseVars, unattended>>,
         \/ uncounted' = uncounted + 1
         \/ uncounted' = uncounted /\ ~(Active(goal) /\ goal.id = bound[t].goal)
  PROVE  Inv'
  <1> USE DEF goalVars, looseVars
  <1>0. /\ ops # <<>> /\ step \in {"begin", "completing", "settling"} /\ step \notin Continuing
        /\ Head(ops).kind \in OfTurn /\ phase[t] = "settling"
    BY HeadSettles
  <1>1. HeadActs /\ step' = "begin"  BY <1>0, HeadEnds
  <1>2. /\ RegistryInv' /\ BindInv' /\ AskInv' /\ Kept({t})
        /\ phase' = [phase EXCEPT ![t] = "settled"] /\ terminal' = [terminal EXCEPT ![t] = "none"]
        /\ bound'[t] = Unbound /\ completing'[t] = 0
        /\ \A u \in Turn \ {t}: bound'[u] = bound[u] /\ completing'[u] = completing[u]
        /\ superseded' = superseded \ {t}
        /\ UNCHANGED <<registered, aborted, ended, startedUnder, goalTurns>>
        /\ t \notin registered
    <2>1. /\ ask' \in [Turn -> AskType] /\ \A u \in Turn: ask'[u].stage = ask[u].stage
          /\ lastGoal' \in Nat /\ lastGoal <= lastGoal'
      BY DEF Inv, ChainInv, AskInv, GoalInv
    <2> QED  BY <1>0, <2>1, ForgetMoves
  <1>3. GoalInv'  BY GoalFrame DEF Inv, goalPart
  <1>4. StepInv'  BY <1>1, StepActs
  <1>5. ChainInv'  BY <1>0, <1>1, <1>2, HeadOfChainActs DEF Inv
  <1>6. StopInv'
    <2>1. \A u \in registered \ aborted: u \in Turn \ {t} /\ bound'[u] = bound[u]
      BY <1>2 DEF Inv, RegistryInv, RegistryTypeOK
    <2> QED  BY <1>0, <1>1, <1>2, <2>1 DEF Inv, StopInv
  <1>7. UsageInv'
    <2>1. goal # NoGoal => goal.mark \in Nat  BY DEF Inv, GoalInv, GoalType
    <2> QED  BY <1>0, <1>2, <2>1, UsageSettles DEF Inv, RegistryInv
  <1>8. AutonomyInv'
    <2>1. CASE uncounted' = uncounted + 1
      <3>1. Active(goal) => goal.automatic \in Nat  BY DEF Inv, GoalInv, GoalType, Active
      <3> QED  BY <2>1, <3>1, GoalLimits DEF Inv, AutonomyInv
    <2>2. CASE uncounted' = uncounted /\ ~(Active(goal) /\ goal.id = bound[t].goal)
      <3>1. ASSUME Active(goal), Unsettling(goal)
            PROVE  Unsettling(goal)'
        <4>1. bound[t] # [goal |-> goal.id, objective |-> goal.objective]
          BY <2>2, <3>1
        <4> QED  BY <1>2, <3>1, <4>1, UnsettlingStays DEF Inv, BindInv
      <3> QED  BY <2>2, <3>1, AutonomyStays DEF Inv
    <2> QED  BY <2>1, <2>2
  <1>9. ReceiptInv'
    <2>1. \A u \in Turn: goal # NoGoal /\ completing'[u] = goal.id =>
            /\ bound'[u] = bound[u] /\ completing[u] = goal.id
            /\ u \in superseded => u \in superseded'
      BY <1>2 DEF Inv, GoalInv, GoalType
    <2>2. \A u \in Turn: Judged(u)' <=> Judged(u)  BY DEF Judged
    <2> QED  BY <2>1, <2>2, ReceiptStays DEF Inv
  <1> QED  BY <1>2, <1>3, <1>4, <1>5, <1>6, <1>7, <1>8, <1>9 DEF Inv

(* The turn is charged to the goal, and may decide what becomes of it.     *)
LEMMA SettlesGoal ==
  ASSUME Inv, NEW t \in Turn, t = Head(ops).turn, Handles("settle", {"begin", "completing", "settling"}), goal # NoGoal,
         Forget(t), NEW next, NEW overtaken \in BOOLEAN, Settles(next, t, overtaken),
         overtaken => t \in superseded \/ bound[t].objective # goal.objective,
         Publish(next, NoTurn), charged' = [charged EXCEPT ![t] = @ + 1],
         IF Active(next) THEN Continue ELSE EndOp,
         UNCHANGED <<uncounted, looseVars, unattended>>
  PROVE  Inv'
  <1> USE DEF looseVars
  <1>0. /\ ops # <<>> /\ step \in {"begin", "completing", "settling"} /\ step \notin Continuing
        /\ Head(ops).kind \in OfTurn /\ phase[t] = "settling"
    BY HeadSettles
  <1>1. HeadActs /\ step' \in {"begin", "continue"}  BY <1>0, HeadContinues, HeadEnds
  <1>g. /\ next \in GoalType /\ next # NoGoal /\ next.id = goal.id /\ next.objective = goal.objective
        /\ next.mark \in Nat /\ goal.mark <= next.mark /\ next.mark <= Len(ended)
        /\ \A i \in 1..Len(ended): ended[i] = t => i <= next.mark
        /\ Active(next) =>
             /\ Active(goal) /\ next.automatic < MaxAutomatic /\ next.idle < MaxIdle
             /\ next.automatic = goal.automatic + (IF overtaken THEN 0 ELSE 1)
        /\ next.status = "paused" /\ next.byUser => goal.status = "paused" /\ goal.byUser
        /\ goal \in GoalType /\ goal.id \in Nat \ {0} /\ goal.mark \in Nat /\ goal.automatic \in Nat
    BY DEF Settles, Inv, GoalInv, GoalType
  <1>3. GoalInv' /\ lastGoal' \in Nat /\ lastGoal <= lastGoal' /\ goal' = next
    <2>1. GoodGoal(next)  BY <1>g DEF GoodGoal, Inv, GoalInv
    <2>2. GoalInv' /\ lastGoal' \in Nat /\ lastGoal <= lastGoal'
      BY <2>1, GoalPublished DEF Inv
    <2> QED  BY <2>2 DEF Publish
  <1>2. /\ RegistryInv' /\ BindInv' /\ AskInv' /\ Kept({t})
        /\ phase' = [phase EXCEPT ![t] = "settled"] /\ terminal' = [terminal EXCEPT ![t] = "none"]
        /\ bound'[t] = Unbound /\ completing'[t] = 0
        /\ \A u \in Turn \ {t}: bound'[u] = bound[u] /\ completing'[u] = completing[u]
        /\ superseded' = superseded \ {t}
        /\ UNCHANGED <<registered, aborted, ended, startedUnder, goalTurns>>
        /\ t \notin registered
    <2>1. /\ ask' \in [Turn -> AskType] /\ \A u \in Turn: ask'[u].stage = ask[u].stage
      BY AsksPublished DEF Inv, ChainInv
    <2> QED  BY <1>0, <1>3, <2>1, ForgetMoves
  <1>4. StepInv'  BY <1>1, StepActs
  <1>5. ChainInv'  BY <1>0, <1>1, <1>2, HeadOfChainActs DEF Inv
  <1>6. StopInv'
    <2>1. \A u \in registered \ aborted: u \in Turn \ {t} /\ bound'[u] = bound[u]
      BY <1>2 DEF Inv, RegistryInv, RegistryTypeOK
    <2> QED  BY <1>0, <1>1, <1>2, <1>3, <1>g, <2>1 DEF Inv, StopInv
  <1>7. UsageInv'
    <2>1. phase \in [Turn -> Phase] /\ terminal \in [Turn -> Terminal]  BY DEF Inv, RegistryInv
    <2>2. /\ goal' # NoGoal /\ goal'.id = goal.id
          /\ goal'.mark \in Nat /\ goal.mark <= goal'.mark /\ goal'.mark <= Len(ended)
          /\ \A i \in 1..Len(ended): ended[i] = t => i <= goal'.mark
      BY <1>3, <1>g
    <2>3. goal.mark \in Nat  BY <1>g
    <2> QED  BY <1>0, <1>2, <2>1, <2>2, <2>3, UsageSettles DEF Inv
  <1>8. AutonomyInv'
    <2>1. CASE ~Active(next)  BY <1>3, <2>1, AutonomyStops DEF Inv
    <2>2. CASE Active(next) /\ ~overtaken
      <3>1. next.automatic = goal.automatic + 1 /\ Active(goal) /\ goal' = next /\ goal.automatic \in Nat
        BY <1>3, <1>g, <2>2
      <3> QED  BY <3>1 DEF Inv, AutonomyInv
    <2>3. CASE Active(next) /\ overtaken
      <3>1. next.automatic = goal.automatic /\ Active(goal) /\ goal' = next /\ goal.automatic \in Nat
        BY <1>3, <1>g, <2>3
      <3>2. ASSUME Unsettling(goal)
            PROVE  Unsettling(goal)'
        <4>1. PICK u \in goalTurns \ (superseded \cup unserialized):
                bound[u] = [goal |-> goal.id, objective |-> goal.objective]
          BY <3>2 DEF Unsettling
        <4>2. u # t
          <5>1. bound[u].objective = goal.objective  BY <4>1
          <5> QED  BY <2>3, <4>1, <5>1
        <4>3. u \in Turn \ {t} /\ bound'[u] = bound[u]
              /\ u \in goalTurns' \ (superseded' \cup unserialized')
          BY <1>2, <4>1, <4>2 DEF Inv, BindInv
        <4>4. bound'[u] = [goal |-> goal'.id, objective |-> goal'.objective]
          BY <1>3, <1>g, <4>1, <4>3
        <4> QED  BY <4>3, <4>4 DEF Unsettling
      <3> QED  BY <3>1, <3>2 DEF Inv, AutonomyInv
    <2> QED  BY <2>1, <2>2, <2>3
  <1>9. ReceiptInv'
    <2>1. ASSUME NEW u \in Turn, completing'[u] = next.id
          PROVE  /\ u # t /\ completing[u] = goal.id
                 /\ bound'[u].goal = next.id
      <3>1. u # t /\ completing[u] = goal.id /\ bound'[u] = bound[u]  BY <1>2, <1>g, <2>1
      <3> QED  BY <1>g, <3>1 DEF Inv, ReceiptInv
    <2>2. \A u \in Turn: next # NoGoal /\ completing'[u] = next.id =>
            /\ bound'[u].goal = next.id /\ completing[u] = next.id /\ goal # NoGoal /\ goal.id = next.id
      BY <1>g, <2>1
    <2>3. \A u \in Turn: /\ goal # NoGoal /\ next # NoGoal /\ goal.id = next.id /\ completing'[u] = next.id
                         /\ u \in superseded \/ (Active(next) /\ ~Active(goal))
                         => u \in superseded'
      BY <1>2, <1>g, <2>1
    <2> QED  BY <2>2, <2>3, ReceiptPublished DEF Inv, ChainInv
  <1> QED  BY <1>2, <1>3, <1>4, <1>5, <1>6, <1>7, <1>8, <1>9 DEF Inv

(* The settlement is ignored, or decides.                                  *)
LEMMA SettleGoalTurnStep ==
  ASSUME Inv, SettleGoalTurn
  PROVE  Inv'
  <1>h. Handles("settle", {"begin", "completing", "settling"}) /\ step = "begin" /\ ops # <<>>
    BY DEF SettleGoalTurn, Handles
  <1>t. PICK t \in Turn: t = Head(ops).turn  BY <1>h, HeadSettles
  <1>0. UNCHANGED <<goalVars, looseVars, charged, unattended>>  BY DEF SettleGoalTurn
  <1>1. CASE /\ Forget(t) /\ EndOp
             /\ uncounted' = IF Active(goal) /\ goal.id = bound[t].goal THEN uncounted + 1 ELSE uncounted
    <2>1. \/ uncounted' = uncounted + 1
          \/ uncounted' = uncounted /\ ~(Active(goal) /\ goal.id = bound[t].goal)
      BY <1>1
    <2> QED  BY <1>h, <1>t, <1>0, <1>1, <2>1, SettlesNothing
  <1>2. ASSUME NEW to \in {"completing", "settling"}, GoTo(to), UNCHANGED <<turnVars, mapVars, uncounted>>
        PROVE  Inv'
    <2>1. step' = to /\ ops' = ops  BY <1>2 DEF GoTo
    <2>2. HeadStays  BY <1>h, <2>1 DEF HeadStays, Continuing
    <2>3. StepInv'  BY <1>h, <2>1 DEF StepInv, StepName
    <2>4. GoalInv'  BY <1>0, GoalFrame DEF Inv, goalPart, goalVars, looseVars
    <2> QED  BY <1>h, <1>0, <1>2, <2>1, <2>2, <2>3, <2>4, StepOnly DEF looseVars
  <1> QED  BY <1>t, <1>1, <1>2 DEF SettleGoalTurn

LEMMA PublishSettlementStep ==
  ASSUME Inv, DecideInv, PublishSettlement
  PROVE  Inv'
  <1>h. Handles("settle", {"begin", "completing", "settling"}) /\ Decided
    BY DEF PublishSettlement, Handles, Decided
  <1>g. goal # NoGoal  BY <1>h DEF DecideInv
  <1>t. PICK t \in Turn: t = Head(ops).turn  BY <1>h, HeadSettles
  <1>0. Forget(t) /\ UNCHANGED <<looseVars, unattended>>  BY <1>t DEF PublishSettlement
  <1>1. CASE EndOp /\ uncounted' = uncounted + 1 /\ UNCHANGED <<goalVars, charged>>
    BY <1>h, <1>t, <1>0, <1>1, SettlesNothing
  <1>2. PICK a: a = [goal EXCEPT !.mark = Later(@, LastPosition(t))]  OBVIOUS
  <1>3. PICK overtaken \in BOOLEAN: overtaken <=> Overtaken(t, Head(ops).objective)  OBVIOUS
  <1>4. ASSUME NEW progress \in BOOLEAN, NEW next,
               next = IF overtaken \/ ~Active(goal) THEN a ELSE Outcome(a, t, progress),
               Publish(next, NoTurn), charged' = [charged EXCEPT ![t] = @ + 1],
               IF Active(next) THEN Continue ELSE EndOp, UNCHANGED uncounted
        PROVE  Inv'
    <2>1. terminal[t] # "none"
      <3>1. phase[t] = "settling"  BY <1>h, <1>t, HeadSettles
      <3> QED  BY <3>1 DEF Inv, RegistryInv
    <2>2. Settles(next, t, overtaken)
      <3>1. next = IF overtaken \/ ~Active(goal) THEN a ELSE Outcome(a, t, progress)  BY <1>4
      <3> QED  BY <1>g, <1>2, <2>1, <3>1, OutcomeSettles
    <2>3. overtaken => t \in superseded \/ bound[t].objective # goal.objective
      <3>1. Head(ops).objective = bound[t].objective  BY <1>h, <1>t, HeadSettles
      <3> QED  BY <1>3, <3>1 DEF Overtaken
    <2>4. UNCHANGED <<uncounted, looseVars, unattended>>  BY <1>0, <1>4
    <2> QED  BY <1>h, <1>g, <1>t, <1>0, <1>4, <2>2, <2>3, <2>4, SettlesGoal
  <1> QED  BY <1>t, <1>1, <1>2, <1>3, <1>4 DEF PublishSettlement

-----------------------------------------------------------------------------
(* Restart.                                                                *)

(* The log after the restart, and what is charged then. *)
LEMMA RestartCharges ==
  ASSUME Inv, NEW stale, stale = {t \in Turn: phase[t] \in Live /\ terminal[t] = "none"},
         NEW log, log = IF stale = {} THEN ended ELSE Append(ended, CHOOSE t \in stale: TRUE),
         NEW due, due = IF goal = NoGoal THEN {} ELSE Unsettled(log, goal.mark)
  PROVE  /\ log \in Seq(Turn) /\ Len(log) \in Nat /\ Len(ended) <= Len(log)
         /\ \A t \in Turn: t \in due => charged[t] = 0 /\ phase[t] # "unused"
  <1>1. ended \in Seq(Turn)  BY DEF Inv, UsageInv
  <1>2. PICK n \in Nat: n = Len(ended)  BY <1>1, LenProperties
  <1>3. /\ log \in Seq(Turn) /\ Len(log) \in Nat /\ n <= Len(log)
        /\ \A i \in 1..Len(log): \/ i \in 1..n /\ log[i] = ended[i]
                                 \/ log[i] \in stale
    <2>1. CASE stale = {}
      <3>1. log = ended  BY <2>1
      <3> QED  BY <1>1, <1>2, <3>1
    <2>2. CASE stale # {}
      <3>1. PICK s: s = CHOOSE t \in stale: TRUE  OBVIOUS
      <3>2. s \in stale /\ s \in Turn /\ log = Append(ended, s)  BY <2>2, <3>1
      <3>3. /\ Append(ended, s) \in Seq(Turn) /\ Len(Append(ended, s)) = n + 1
            /\ \A i \in 1..n: Append(ended, s)[i] = ended[i]
            /\ \A i \in 1..Len(Append(ended, s)): i \notin 1..n => Append(ended, s)[i] = s
        BY <1>1, <1>2, <3>2, EndedGrows
      <3> QED  BY <1>2, <3>2, <3>3
    <2> QED  BY <2>1, <2>2
  <1>4. ASSUME NEW t \in due
        PROVE  goal # NoGoal /\ startedUnder[t] = goal.id /\ t \in Turn
               /\ \E i \in 1..Len(log): i > goal.mark /\ log[i] = t
    <2>1. goal # NoGoal /\ t \in Unsettled(log, goal.mark)  OBVIOUS
    <2>2. DOMAIN log = 1..Len(log)  BY <1>3
    <2> QED  BY <2>1, <2>2 DEF Unsettled, Inv, BindInv
  <1>5. ASSUME NEW t \in due
        PROVE  charged[t] = 0
    <2>1. PICK i \in 1..Len(log): i > goal.mark /\ log[i] = t  BY <1>4
    <2> SUFFICES ASSUME charged[t] = 1 PROVE FALSE
      <3>1. charged[t] \in 0..1  BY <1>4 DEF Inv, UsageInv
      <3> QED  BY <3>1
    <2>2. phase[t] = "settled" /\ \A j \in 1..n: ended[j] = t => j <= goal.mark
      BY <1>2, <1>4 DEF Inv, UsageInv
    <2>3. t \notin stale  BY <2>2, PhaseFacts
    <2>4. i \in 1..n /\ ended[i] = t  BY <1>3, <2>1, <2>3
    <2>5. goal.mark \in Nat  BY <1>4 DEF Inv, GoalInv, GoalType
    <2> QED  BY <2>1, <2>2, <2>4, <2>5
  <1>6. ASSUME NEW t \in due
        PROVE  phase[t] # "unused"
    <2>1. goal # NoGoal /\ startedUnder[t] = goal.id /\ t \in Turn  BY <1>4
    <2>2. goal.id \in Nat \ {0}  BY <2>1 DEF Inv, GoalInv, GoalType
    <2> QED  BY <2>1, <2>2 DEF Inv, BindInv
  <1> QED  BY <1>2, <1>3, <1>5, <1>6

LEMMA RestartStep ==
  ASSUME Inv, Restart
  PROVE  Inv'
  <1>1. PICK stale: stale = {t \in Turn: phase[t] \in Live /\ terminal[t] = "none"}  OBVIOUS
  <1>2. PICK log: log = IF stale = {} THEN ended ELSE Append(ended, CHOOSE t \in stale: TRUE)  OBVIOUS
  <1>3. PICK due: due = IF goal = NoGoal THEN {} ELSE Unsettled(log, goal.mark)  OBVIOUS
  <1>4. PICK accounted: accounted = [goal EXCEPT !.mark = Later(@, Len(log))]  OBVIOUS
  <1>5. /\ ended' = log /\ terminal' = [t \in Turn |-> "none"]
        /\ charged' = [t \in Turn |-> IF t \in due THEN charged[t] + 1 ELSE charged[t]]
        /\ goal' = IF goal = NoGoal THEN goal
                   ELSE IF Active(goal) THEN WithGoalStatus(accounted, "paused") ELSE accounted
    BY <1>1, <1>2, <1>3, <1>4 DEF Restart
  <1>6. /\ registered' = {} /\ current' = NoTurn /\ aborted' = {} /\ accepting' = {} /\ closed' = {}
        /\ phase' = [t \in Turn |-> IF phase[t] = "unused" THEN "unused" ELSE "settled"]
        /\ ask' = [t \in Turn |-> NoAsk] /\ sound' = {}
        /\ bound' = [t \in Turn |-> Unbound] /\ completing' = [t \in Turn |-> 0]
        /\ retired' = {} /\ superseded' = {} /\ ops' = <<>> /\ step' = "begin"
        /\ loose' = "idle" /\ looseGoal' = NoGoal
        /\ UNCHANGED <<lastGoal, receipt, startedUnder, goalTurns, unserialized, orphaned,
                       unattended, uncounted>>
    BY DEF Restart
  <1>7. /\ log \in Seq(Turn) /\ Len(log) \in Nat /\ Len(ended) <= Len(log)
        /\ \A t \in Turn: t \in due => charged[t] = 0 /\ phase[t] # "unused"
    BY <1>1, <1>2, <1>3, RestartCharges
  <1>8. IF goal = NoGoal THEN goal' = NoGoal
        ELSE /\ goal' \in GoalType /\ goal' # NoGoal /\ goal'.id = goal.id
             /\ goal'.objective = goal.objective /\ goal'.mark = Len(log) /\ ~Active(goal')
    <2>1. CASE goal = NoGoal  BY <1>5, <2>1
    <2>2. CASE goal # NoGoal
      <3>1. goal \in GoalType /\ goal.mark \in Nat /\ goal.mark <= Len(ended) /\ Len(ended) \in Nat
        BY <2>2, LenProperties DEF Inv, GoalInv, UsageInv, GoalType
      <3>2. Later(goal.mark, Len(log)) = Len(log)  BY <1>7, <3>1 DEF Later
      <3>3. accounted = [goal EXCEPT !.mark = Len(log)]  BY <1>4, <3>2
      <3>4. /\ accounted \in GoalType /\ accounted.id = goal.id /\ accounted.objective = goal.objective
            /\ accounted.mark = Len(log) /\ accounted.status = goal.status
        BY <1>7, <3>1, <3>3 DEF GoalType
      <3>5. CASE Active(goal)
        <4>1. goal' = WithGoalStatus(accounted, "paused")  BY <1>5, <2>2, <3>5
        <4>2. "paused" \in Status \ {"active"}  BY DEF Status
        <4>3. PICK w: w = WithGoalStatus(accounted, "paused")  OBVIOUS
        <4>4. /\ w \in GoalType /\ w.id = accounted.id /\ w.objective = accounted.objective
              /\ w.mark = accounted.mark /\ ~Active(w) /\ w # NoGoal
          BY <3>4, <4>2, <4>3, WithStatus
        <4> QED  BY <2>2, <3>4, <4>1, <4>3, <4>4
      <3>6. CASE ~Active(goal)
        <4>1. goal' = accounted  BY <1>5, <2>2, <3>6
        <4> QED  BY <2>2, <3>4, <3>6, <4>1, NullAssumption DEF Active
      <3> QED  BY <3>5, <3>6
    <2> QED  BY <2>1, <2>2
  <1>9. RegistryInv'
    BY <1>5, <1>6, PhaseFacts DEF RegistryInv, RegistryTypeOK, Terminal, Phase
  <1>10. GoalInv'  BY <1>6, <1>8 DEF Inv, GoalInv, Active
  <1>11. StepInv'  BY <1>6 DEF StepInv, StepName
  <1>12. ChainInv'
    <2>1. AskInv'  BY <1>6, AskTypes DEF AskInv
    <2>2. Due' = <<>> /\ ops' \in Seq(Operation)  BY <1>6 DEF Due
    <2> QED  BY <2>1, <2>2 DEF ChainInv, DueInv
  <1>13. BindInv'
    <2>1. lastGoal \in Nat  BY DEF Inv, GoalInv
    <2>2. /\ bound' \in [Turn -> BoundType(lastGoal)] /\ completing' \in [Turn -> 0..lastGoal]
          /\ \A t \in Turn: bound'[t] = Unbound /\ completing'[t] = 0
      BY <1>6, <2>1, UnboundFacts
    <2>3. \A t \in Turn: phase'[t] = "unused" => phase[t] = "unused"  BY <1>6
    <2> QED  BY <1>6, <2>2, <2>3 DEF Inv, BindInv
  <1>14. StopInv'  BY <1>6 DEF StopInv
  <1>15. UsageInv'
    <2>1. charged \in [Turn -> 0..1] /\ \A t \in Turn: charged[t] = 1 => phase[t] = "settled"
      BY DEF Inv, UsageInv
    <2>2. charged' \in [Turn -> 0..1]
          /\ \A t \in Turn: charged'[t] = 1 => phase'[t] = "settled"
      <3>1. \A t \in Turn: charged'[t] \in 0..1  BY <1>5, <1>7, <2>1
      <3>2. charged' \in [Turn -> 0..1]  BY <1>5, <3>1
      <3>3. \A t \in Turn: charged'[t] = 1 => phase'[t] = "settled"  BY <1>5, <1>6, <1>7, <2>1
      <3> QED  BY <3>2, <3>3
    <2>3. goal' # NoGoal => goal'.mark = Len(log)  BY <1>8
    <2> QED  BY <1>5, <1>7, <2>2, <2>3 DEF UsageInv
  <1>16. AutonomyInv'
    <2>1. ~Active(goal')  BY <1>8 DEF Active
    <2> QED  BY <1>6, <2>1, AutonomyStops DEF Inv
  <1>17. ReceiptInv'
    <2>1. receipt \in ReceiptType \cup {NoReceipt}
          /\ (receipt # NoReceipt =>
                goal # NoGoal /\ receipt.goal = goal.id /\ receipt.objective = goal.objective)
      BY DEF Inv, ReceiptInv
    <2>2. ~Active(goal')  BY <1>8 DEF Active
    <2>3. goal' # NoGoal => \A t \in Turn: completing'[t] # goal'.id
      BY <1>6, <1>8 DEF GoalType
    <2>4. \A t \in Turn: ~Judged(t)'  BY <1>6, AskTypes DEF Judged
    <2> QED  BY <1>6, <1>8, <2>1, <2>2, <2>3, <2>4 DEF ReceiptInv
  <1> QED  BY <1>9, <1>10, <1>11, <1>12, <1>13, <1>14, <1>15, <1>16, <1>17 DEF Inv

-----------------------------------------------------------------------------
(* The turns no goal has a part in.                                        *)

(* A turn keeps its goal and its promise or loses them, unless it waits    *)
(* for its tool, and only another turn begins to wait.                     *)
LEMMA CommandRests ==
  ASSUME CommandInv, UNCHANGED commandTurns,
         \A t \in Turn:
           /\ bound'[t] \in {bound[t], Unbound} \/ phase[t] = "asking"
           /\ completing'[t] \in {completing[t], 0} \/ phase[t] = "asking"
           /\ phase'[t] \in {"unused", "asking"} => phase[t] = phase'[t] \/ t \notin commandTurns
  PROVE  CommandInv'
  BY DEF CommandInv

LEMMA CommandStarts ==
  ASSUME Inv, CommandInv, NEW kind \in {"regular", "command", "goal"}, NEW g, StartTurn(kind, g),
         UNCHANGED completing
  PROVE  CommandInv'
  <1>1. PICK t \in Turn: Starts(t, kind, g)  BY SomeTurnStarts
  <1>2. /\ phase[t] = "unused" /\ phase' = [phase EXCEPT ![t] = "running"]
        /\ commandTurns' = IF kind = "command" THEN commandTurns \cup {t} ELSE commandTurns
        /\ phase \in [Turn -> Phase]
    BY <1>1 DEF Starts, Inv, RegistryInv
  <1>3. t \notin commandTurns /\ completing[t] = 0 /\ bound[t] = Unbound
    BY <1>2 DEF CommandInv, Inv, BindInv
  <1>4. \A u \in Turn \ {t}: bound'[u] = bound[u]  BY <1>1 DEF Starts, Inv, BindInv
  <1>5. kind = "command" => bound' = bound  BY <1>1 DEF Starts
  <1>6. phase'[t] = "running" /\ \A u \in Turn \ {t}: phase'[u] = phase[u]  BY <1>2
  <1> QED  BY <1>2, <1>3, <1>4, <1>5, <1>6 DEF CommandInv

LEMMA CommandForgets ==
  ASSUME Inv, CommandInv, NEW t, Forget(t)
  PROVE  CommandInv'
  <1>1. /\ bound \in [Turn -> BoundType(lastGoal)] /\ completing \in [Turn -> 0..lastGoal]
        /\ phase \in [Turn -> Phase]
    BY DEF Inv, BindInv, RegistryInv
  <1>2. /\ phase' = [phase EXCEPT ![t] = "settled"] /\ bound' = [bound EXCEPT ![t] = Unbound]
        /\ completing' = [completing EXCEPT ![t] = 0] /\ commandTurns' = commandTurns
    BY DEF Forget
  <1>3. \A u \in Turn: bound'[u] \in {bound[u], Unbound}  BY <1>1, <1>2
  <1>4. \A u \in Turn: completing'[u] \in {completing[u], 0}  BY <1>1, <1>2
  <1>5. \A u \in Turn: phase'[u] \in {"unused", "asking"} => phase[u] = phase'[u]  BY <1>1, <1>2
  <1> QED  BY <1>2, <1>3, <1>4, <1>5, CommandRests

(* A turn moves on, or has its answer. *)
LEMMA CommandMoves ==
  ASSUME Inv, CommandInv, NEW t, NEW to, to \notin {"unused", "asking"},
         phase' = [phase EXCEPT ![t] = to], UNCHANGED <<bound, commandTurns>>,
         completing' = completing \/ completing' = [completing EXCEPT ![t] = 0]
  PROVE  CommandInv'
  <1>1. /\ bound \in [Turn -> BoundType(lastGoal)] /\ completing \in [Turn -> 0..lastGoal]
        /\ phase \in [Turn -> Phase]
    BY DEF Inv, BindInv, RegistryInv
  <1>2. \A u \in Turn: completing'[u] \in {completing[u], 0}  BY <1>1
  <1>3. \A u \in Turn: phase'[u] \in {"unused", "asking"} => phase[u] = phase'[u]  BY <1>1
  <1> QED  BY <1>2, <1>3, CommandRests

LEMMA CommandCalls ==
  ASSUME Inv, CommandInv, CreateGoal \/ PrepareVerification \/ CommitVerification \/ VerdictArrives
  PROVE  CommandInv'
  <1>1. /\ bound \in [Turn -> BoundType(lastGoal)] /\ completing \in [Turn -> 0..lastGoal]
        /\ phase \in [Turn -> Phase]
    BY DEF Inv, BindInv, RegistryInv
  <1>2. CASE CreateGoal
    <2>1. PICK t \in Turn: t = Head(ops).turn /\ phase[t] = "asking"  BY <1>2, HeadCalls DEF CreateGoal
    <2>2. /\ bound' = bound \/ \E b: bound' = [bound EXCEPT ![t] = b]
          /\ phase' = [phase EXCEPT ![t] = "running"] /\ UNCHANGED <<completing, commandTurns>>
      BY <1>2, <2>1 DEF CreateGoal, NoAnswer, Answered
    <2>3. \A u \in Turn: bound'[u] = bound[u] \/ phase[u] = "asking"  BY <1>1, <2>1, <2>2
    <2>4. \A u \in Turn: phase'[u] \in {"unused", "asking"} => phase[u] = phase'[u]  BY <1>1, <2>2
    <2> QED  BY <2>2, <2>3, <2>4, CommandRests
  <1>3. CASE PrepareVerification
    <2>1. /\ phase' = phase \/ phase' = [phase EXCEPT ![Head(ops).turn] = "running"]
          /\ UNCHANGED <<bound, completing, commandTurns>>
      BY <1>3 DEF PrepareVerification, NoAnswer, Answered, mapVars
    <2>2. \A u \in Turn: phase'[u] \in {"unused", "asking"} => phase[u] = phase'[u]  BY <1>1, <2>1
    <2> QED  BY <2>1, <2>2, CommandRests
  <1>4. CASE CommitVerification
    <2>1. PICK t \in Turn: t = Head(ops).turn /\ phase[t] = "asking"
      BY <1>4, HeadCalls DEF CommitVerification
    <2>2. /\ bound' = bound \/ \E b: bound' = [bound EXCEPT ![t] = b]
          /\ completing' = completing \/ \E id: completing' = [completing EXCEPT ![t] = id]
          /\ phase' = [phase EXCEPT ![t] = "running"] /\ UNCHANGED commandTurns
      BY <1>4, <2>1 DEF CommitVerification, NoAnswer, Answered
    <2>3. \A u \in Turn: bound'[u] = bound[u] \/ phase[u] = "asking"  BY <1>1, <2>1, <2>2
    <2>4. \A u \in Turn: completing'[u] = completing[u] \/ phase[u] = "asking"  BY <1>1, <2>1, <2>2
    <2>5. \A u \in Turn: phase'[u] \in {"unused", "asking"} => phase[u] = phase'[u]  BY <1>1, <2>2
    <2> QED  BY <2>2, <2>3, <2>4, <2>5, CommandRests
  <1>5. CASE VerdictArrives
    <2>1. \E t: /\ phase' = phase \/ phase' = [phase EXCEPT ![t] = "running"]
                /\ UNCHANGED <<bound, completing, commandTurns>>
      BY <1>5 DEF VerdictArrives, NoAnswer, Answered, mapVars
    <2>2. \A u \in Turn: phase'[u] \in {"unused", "asking"} => phase[u] = phase'[u]  BY <1>1, <2>1
    <2> QED  BY <2>1, <2>2, CommandRests
  <1> QED  BY <1>2, <1>3, <1>4, <1>5

LEMMA CommandTurnMoves ==
  ASSUME Inv, CommandInv,
         Close \/ Complete \/ Fail \/ Unwind \/ Finish \/ ObserveSettlement
  PROVE  CommandInv'
  <1>1. CASE Close
    <2>1. PICK t: /\ TurnMoves(t, "running") \/ TurnMoves(t, "closing")
                  /\ completing' = completing \/ completing' = [completing EXCEPT ![t] = 0]
      BY <1>1 DEF Close
    <2> QED  BY <2>1, CommandMoves DEF TurnMoves
  <1>2. CASE Complete \/ Fail \/ Unwind
    <2>1. PICK t: TurnMoves(t, "ended") /\ completing' = completing
      BY <1>2 DEF Complete, Fail, EndsWith, Unwind
    <2> QED  BY <2>1, CommandMoves DEF TurnMoves
  <1>3. CASE Finish
    <2>1. PICK t: (TurnMoves(t, "done") \/ TurnMoves(t, "settled")) /\ completing' = completing
      BY <1>3 DEF Finish
    <2> QED  BY <2>1, CommandMoves DEF TurnMoves
  <1>4. CASE ObserveSettlement
    <2>1. PICK t: phase' = [phase EXCEPT ![t] = "settling"] /\ UNCHANGED <<bound, commandTurns, completing>>
      BY <1>4 DEF ObserveSettlement, mapVars
    <2> QED  BY <2>1, CommandMoves
  <1> QED  BY <1>1, <1>2, <1>3, <1>4

LEMMA CommandWaits ==
  ASSUME Inv, CommandInv, CallCreateGoal \/ CallUpdateGoal
  PROVE  CommandInv'
  <1>1. PICK t: /\ t \notin commandTurns /\ phase' = [phase EXCEPT ![t] = "asking"]
                /\ UNCHANGED <<bound, completing, commandTurns>>
    BY DEF CallCreateGoal, CallUpdateGoal, Waits, mapVars
  <1>2. \A u \in Turn: phase'[u] \in {"unused", "asking"} => phase[u] = phase'[u] \/ u \notin commandTurns
    BY <1>1 DEF Inv, RegistryInv
  <1> QED  BY <1>1, <1>2, CommandRests

LEMMA CommandStays ==
  ASSUME Inv, CommandInv, [Next]_vars
  PROVE  CommandInv'
  <1> USE DEF turnVars, mapVars
  <1>c. UNCHANGED <<commandTurns, bound, completing, phase>> => CommandInv'
    BY DEF CommandInv
  <1>1. CASE CallSetGoal \/ CallClearGoal \/ CallResumeGoal \/ DispatchGoal
    BY <1>1, <1>c DEF CallSetGoal, CallClearGoal, CallResumeGoal, DispatchGoal, Submit
  <1>2. CASE SendMessage \/ DispatchMessage \/ StartCommand
    <2>1. UNCHANGED completing
      BY <1>2 DEF SendMessage, DispatchMessage, StartRegular, StartCommand
    <2>2. StartTurn("regular", NoGoal) \/ StartTurn("command", NoGoal)
      BY <1>2 DEF SendMessage, DispatchMessage, StartRegular, StartCommand
    <2> QED  BY <2>1, <2>2, CommandStarts
  <1>3. CASE Enqueue \/ ResumeQueue \/ BeginDeletion \/ DeletionFails
    BY <1>3, <1>c DEF Enqueue, ResumeQueue, BeginDeletion, DeletionFails
  <1>4. CASE CallCancelTurn \/ DeletionCancels
    BY <1>4, <1>c DEF CallCancelTurn, DeletionCancels, CancelTurn
  <1>5. CASE NewEvidence \/ AbortCancelled
    BY <1>5, <1>c DEF NewEvidence, AbortCancelled, AbortIf, Abort
  <1>6. CASE CallCreateGoal \/ CallUpdateGoal  BY <1>6, CommandWaits
  <1>7. CASE Close \/ Complete \/ Fail \/ Unwind \/ Finish \/ ObserveSettlement
    BY <1>7, CommandTurnMoves
  <1>8. CASE CreateGoal \/ PrepareVerification \/ CommitVerification \/ VerdictArrives
    BY <1>8, CommandCalls
  <1>9. CASE SetGoal \/ ResumeGoal
    <2>1. UNCHANGED <<bound, completing>>  BY <1>9 DEF SetGoal, ResumeGoal
    <2>2. UNCHANGED <<commandTurns, phase>>
      BY <1>9 DEF SetGoal, ResumeGoal, SetGoalUnlocked, PublishSetGoal, AbortIf, Abort
    <2> QED  BY <2>1, <2>2, <1>c
  <1>10. CASE SetGoalFollowsUp \/ ClearGoalRetires \/ ClearGoal \/ PauseForCancellation
    BY <1>10, <1>c DEF SetGoalFollowsUp, ClearGoalRetires, ClearGoal, PauseForCancellation, AbortIf, Abort
  <1>11. CASE PublishQueuedGoal \/ ContinueIfIdle \/ LooseContinue
    BY <1>11, <1>c DEF PublishQueuedGoal, ContinueIfIdle, LooseContinue
  <1>12. CASE StartContinuation \/ LooseStart
    <2>1. PICK g: CreateContinuation(g) /\ UNCHANGED completing
      BY <1>12 DEF StartContinuation, LooseStart
    <2>2. CASE StartTurn("goal", g)  BY <2>1, <2>2, CommandStarts
    <2>3. CASE UNCHANGED <<turnVars, bound>>  BY <2>1, <2>3, <1>c
    <2> QED  BY <2>1, <2>2, <2>3 DEF CreateContinuation
  <1>13. CASE SettleOther \/ PublishSettlement
    <2>1. \E t: Forget(t)  BY <1>13 DEF SettleOther, PublishSettlement
    <2> QED  BY <2>1, CommandForgets
  <1>14. CASE SettleGoalTurn
    <2>1. CASE \E t: Forget(t)  BY <2>1, CommandForgets
    <2>2. CASE UNCHANGED <<turnVars, mapVars>>  BY <2>2, <1>c
    <2> QED  BY <1>14, <2>1, <2>2 DEF SettleGoalTurn
  <1>15. CASE Restart
    <2>1. /\ phase' = [t \in Turn |-> IF phase[t] = "unused" THEN "unused" ELSE "settled"]
          /\ bound' = [t \in Turn |-> Unbound] /\ completing' = [t \in Turn |-> 0]
          /\ commandTurns' = commandTurns
      BY <1>15 DEF Restart
    <2> QED  BY <2>1, CommandRests
  <1>16. CASE UNCHANGED vars  BY <1>16, <1>c DEF vars
  <1> QED
    BY <1>1, <1>2, <1>3, <1>4, <1>5, <1>6, <1>7, <1>8, <1>9, <1>10, <1>11, <1>12, <1>13, <1>14,
       <1>15, <1>16 DEF Next, UserActs, ModelActs, ChainActs, TurnActs

-----------------------------------------------------------------------------
(* The settlement that has decided.                                        *)

LEMMA Undecided ==
  ASSUME step' \notin {"completing", "settling"}
  PROVE  DecideInv'
  BY DEF DecideInv, Decided

(* While the chain waits at its head only other turns move.                *)
LEMMA DecisionStands ==
  ASSUME Inv, DecideInv, UNCHANGED <<step, goal>>,
         ops' = ops \/ \E op: ops' = Append(ops, op),
         sound' = sound \/ EvidenceMoves,
         \A u \in Turn: phase[u] = "settling" =>
           bound'[u] = bound[u] /\ (terminal[u] = "completed" => terminal'[u] = "completed")
  PROVE  DecideInv'
  <1>1. CASE ~Decided  BY <1>1 DEF DecideInv, Decided
  <1>2. CASE Decided
    <2>1. ops # <<>> /\ ops \in Seq(Operation) /\ Head(ops).kind = "settle"
      BY <1>2 DEF Decided, DecideInv, Inv, StepInv, ChainInv
    <2>2. Head(ops') = Head(ops)
      <3>1. ASSUME NEW op, ops' = Append(ops, op) PROVE Head(ops') = Head(ops)
        BY <2>1, <3>1
      <3> QED  BY <3>1
    <2>3. PICK t \in Turn: t = Head(ops).turn /\ phase[t] = "settling"
      <3>1. Handles("settle", {"begin", "completing", "settling"})
        BY <1>2, <2>1 DEF Handles, Decided
      <3> QED  BY <3>1, HeadSettles
    <2>4. goal # NoGoal /\ goal.id = bound[t].goal  BY <1>2, <2>3 DEF DecideInv
    <2>5. step = "completing" => Active(goal) /\ t \in sound /\ terminal[t] = "completed"
      BY <2>3 DEF DecideInv
    <2>6. step = "completing" => t \in sound'
      BY <2>3, <2>5 DEF EvidenceMoves
    <2>7. bound'[t] = bound[t] /\ (terminal[t] = "completed" => terminal'[t] = "completed")
      BY <2>3
    <2> QED  BY <2>1, <2>2, <2>3, <2>4, <2>5, <2>6, <2>7 DEF DecideInv
  <1> QED  BY <1>1, <1>2

(* The settlement decides on what the verification of its turn still holds. *)
LEMMA Decides ==
  ASSUME Inv, SettleGoalTurn
  PROVE  DecideInv'
  <1>h. Handles("settle", {"begin", "completing", "settling"}) /\ Head(ops).kind = "settle"
    BY DEF SettleGoalTurn, Handles
  <1>t. PICK t \in Turn: t = Head(ops).turn  BY <1>h, HeadSettles
  <1>1. CASE EndOp  BY <1>1, Undecided DEF EndOp
  <1>2. CASE /\ ~Ignored(t) /\ UNCHANGED <<turnVars, mapVars>>
             /\ GoTo(IF Active(goal) /\ ~Overtaken(t, Head(ops).objective) /\ Confirms(t)
                     THEN "completing" ELSE "settling")
    <2>1. UNCHANGED <<ops, bound, terminal>>  BY <1>2 DEF GoTo, turnVars, mapVars
    <2>2. UNCHANGED <<goal, sound>>  BY DEF SettleGoalTurn, goalVars
    <2>3. goal # NoGoal /\ goal.id = bound[t].goal  BY <1>2 DEF Ignored
    <2>4. ASSUME step' = "completing"
          PROVE  Active(goal) /\ t \in sound /\ terminal[t] = "completed"
      <3>1. Active(goal) /\ ~Overtaken(t, Head(ops).objective) /\ Confirms(t)
        BY <1>2, <2>4 DEF GoTo
      <3>2. t \in sound \cup superseded
        BY <3>1 DEF Confirms, Completes, Inv, ReceiptInv
      <3> QED  BY <3>1, <3>2 DEF Overtaken, Confirms
    <2> QED  BY <1>h, <1>t, <2>1, <2>2, <2>3, <2>4 DEF DecideInv
  <1> QED  BY <1>t, <1>1, <1>2 DEF SettleGoalTurn

LEMMA ChainLeavesUndecided ==
  ASSUME ChainActs, ~SettleGoalTurn
  PROVE  step' \notin {"completing", "settling"}
  <1> USE DEF EndOp, Continue, GoTo, StopScheduling
  <1>1. CASE SetGoal  BY <1>1 DEF SetGoal, SetGoalUnlocked, PublishSetGoal
  <1>2. CASE ResumeGoal  BY <1>2 DEF ResumeGoal, SetGoalUnlocked, PublishSetGoal
  <1>3. CASE SetGoalFollowsUp \/ ClearGoalRetires \/ ClearGoal \/ PauseForCancellation
    BY <1>3 DEF SetGoalFollowsUp, ClearGoalRetires, ClearGoal, PauseForCancellation
  <1>4. CASE PublishQueuedGoal \/ ContinueIfIdle \/ StartContinuation
    BY <1>4 DEF PublishQueuedGoal, ContinueIfIdle, StartContinuation
  <1>5. CASE CreateGoal \/ PrepareVerification \/ CommitVerification
    BY <1>5 DEF CreateGoal, PrepareVerification, CommitVerification
  <1>6. CASE SettleOther \/ PublishSettlement  BY <1>6 DEF SettleOther, PublishSettlement
  <1> QED  BY <1>1, <1>2, <1>3, <1>4, <1>5, <1>6 DEF ChainActs

LEMMA DecideStep ==
  ASSUME Inv, DecideInv, [Next]_vars
  PROVE  DecideInv'
  <1> USE DEF goalVars, turnVars, mapVars, chainVars
  <1>f. phase \in [Turn -> Phase] /\ terminal \in [Turn -> Terminal]  BY DEF Inv, RegistryInv
  <1>1. CASE ChainActs  BY <1>1, Decides, ChainLeavesUndecided, Undecided
  <1>2. CASE Restart  BY <1>2, Undecided DEF Restart
  <1>3. CASE CallSetGoal \/ CallClearGoal \/ CallResumeGoal \/ DispatchGoal
    <2>1. (\E op: ops' = Append(ops, op)) /\ UNCHANGED <<step, goal, sound, bound, terminal>>
      BY <1>3 DEF CallSetGoal, CallClearGoal, CallResumeGoal, DispatchGoal, Submit
    <2> QED  BY <2>1, DecisionStands
  <1>4. CASE SendMessage \/ DispatchMessage \/ StartCommand
    <2>1. /\ UNCHANGED <<ops, step>>
          /\ \E kind: StartTurn(kind, NoGoal)
          /\ EvidenceMoves \/ UNCHANGED <<goal, sound>>
      BY <1>4 DEF SendMessage, DispatchMessage, StartRegular, StartCommand
    <2>2. PICK kind: StartTurn(kind, NoGoal)  BY <2>1
    <2>t. PICK t \in Turn: Starts(t, kind, NoGoal)  BY <2>2, SomeTurnStarts
    <2>3. UNCHANGED goal /\ (sound' = sound \/ EvidenceMoves)  BY <2>1 DEF EvidenceMoves
    <2>4. \A u \in Turn: phase[u] = "settling" => bound'[u] = bound[u] /\ terminal' = terminal
      BY <2>t DEF Starts, Inv, BindInv
    <2> QED  BY <2>1, <2>3, <2>4, DecisionStands
  <1>5. CASE Enqueue \/ ResumeQueue \/ BeginDeletion \/ DeletionFails \/ LooseContinue
    <2>1. UNCHANGED <<ops, step, goal, sound, bound, terminal>>
      BY <1>5 DEF Enqueue, ResumeQueue, BeginDeletion, DeletionFails, LooseContinue
    <2> QED  BY <2>1, DecisionStands
  <1>6. CASE CallCancelTurn \/ DeletionCancels
    <2>1. /\ ops' = ops \/ \E op: ops' = Append(ops, op)
          /\ UNCHANGED <<step, goal, sound, bound, terminal>>
      BY <1>6 DEF CallCancelTurn, DeletionCancels, CancelTurn
    <2> QED  BY <2>1, DecisionStands
  <1>7. CASE NewEvidence
    <2>1. UNCHANGED <<ops, step, bound, terminal, goal>> /\ EvidenceMoves
      BY <1>7 DEF NewEvidence, EvidenceMoves
    <2> QED  BY <2>1, DecisionStands
  <1>8. CASE AbortCancelled
    <2>1. UNCHANGED <<ops, step, bound>> /\ \E t: AbortIf(Cancellable(t), t)
      BY <1>8 DEF AbortCancelled
    <2>2. /\ UNCHANGED goal /\ (sound' = sound \/ EvidenceMoves)
          /\ terminal' = terminal \/
               \E t: terminal[t] = "none" /\ terminal' = [terminal EXCEPT ![t] = "cancelled"]
      BY <2>1 DEF AbortIf, Abort, EvidenceMoves
    <2>3. \A u \in Turn: terminal[u] = "completed" => terminal'[u] = "completed"
      BY <1>f, <2>2
    <2> QED  BY <2>1, <2>2, <2>3, DecisionStands
  <1>9. CASE CallCreateGoal \/ CallUpdateGoal \/ VerdictArrives
    <2>1. /\ ops' = ops \/ \E op: ops' = Append(ops, op)
          /\ UNCHANGED <<step, goal, sound, bound, terminal>>
      BY <1>9 DEF CallCreateGoal, CallUpdateGoal, Waits, VerdictArrives, NoAnswer
    <2> QED  BY <2>1, DecisionStands
  <1>10. CASE Close \/ Unwind \/ Finish
    <2>1. UNCHANGED <<ops, step, goal, sound, bound, terminal>>
      BY <1>10 DEF Close, Unwind, Finish, TurnMoves
    <2> QED  BY <2>1, DecisionStands
  <1>11. CASE Complete \/ Fail
    <2>1. PICK t \in registered:
            /\ \E event: terminal' = [terminal EXCEPT ![t] = event]
            /\ UNCHANGED <<ops, step, goal, sound, bound>>
      BY <1>11 DEF Complete, Fail, EndsWith, TurnMoves
    <2>2. t \in Turn /\ phase[t] # "settling"
      BY PhaseFacts DEF Inv, RegistryInv, RegistryTypeOK
    <2>3. \A u \in Turn: phase[u] = "settling" => terminal'[u] = terminal[u]
      BY <1>f, <2>1, <2>2
    <2> QED  BY <2>1, <2>3, DecisionStands
  <1>12. CASE ObserveSettlement
    <2>1. (\E op: ops' = Append(ops, op)) /\ UNCHANGED <<step, goal, sound, bound, terminal>>
      BY <1>12 DEF ObserveSettlement
    <2> QED  BY <2>1, DecisionStands
  <1>13. CASE LooseStart
    <2>1. UNCHANGED <<ops, step, goal, sound>> /\ CreateContinuation(looseGoal)
      BY <1>13 DEF LooseStart
    <2>2. \A u \in Turn: phase[u] = "settling" => bound'[u] = bound[u] /\ terminal' = terminal
      <3>1. CASE StartTurn("goal", looseGoal)
        <4>1. PICK t \in Turn: Starts(t, "goal", looseGoal)  BY <3>1, SomeTurnStarts
        <4> QED  BY <4>1 DEF Starts, Inv, BindInv
      <3>2. CASE UNCHANGED <<turnVars, bound>>  BY <3>2
      <3> QED  BY <2>1, <3>1, <3>2 DEF CreateContinuation
    <2> QED  BY <2>1, <2>2, DecisionStands
  <1>14. CASE UNCHANGED vars
    <2>1. UNCHANGED <<ops, step, goal, sound, bound, terminal>>  BY <1>14 DEF vars
    <2> QED  BY <2>1, DecisionStands
  <1> QED
    BY <1>1, <1>2, <1>3, <1>4, <1>5, <1>6, <1>7, <1>8, <1>9, <1>10, <1>11, <1>12, <1>13, <1>14
    DEF Next, UserActs, ModelActs, TurnActs

-----------------------------------------------------------------------------
(* The invariant.                                                          *)

LEMMA InitInv == Init => Inv
  <1> SUFFICES ASSUME Init PROVE Inv  OBVIOUS
  <1> USE DEF Init, RegistryInit
  <1>1. RegistryInv  BY PhaseFacts DEF RegistryInv, RegistryTypeOK, Terminal
  <1>2. GoalInv  BY DEF GoalInv, Active
  <1>3. StepInv  BY DEF StepInv, StepName
  <1>4. ChainInv
    <2>1. AskInv  BY AskTypes DEF AskInv
    <2>2. Due = <<>> /\ ops \in Seq(Operation)  BY DEF Due
    <2> QED  BY <2>1, <2>2 DEF ChainInv, DueInv
  <1>5. BindInv  BY UnboundFacts DEF BindInv
  <1>6. StopInv  BY DEF StopInv
  <1>7. UsageInv  BY DEF UsageInv
  <1>8. AutonomyInv  BY GoalLimits DEF AutonomyInv, Active
  <1>9. ReceiptInv  BY AskTypes DEF ReceiptInv, Judged
  <1> QED  BY <1>1, <1>2, <1>3, <1>4, <1>5, <1>6, <1>7, <1>8, <1>9 DEF Inv

LEMMA InitWhole == Init => Whole
  <1> SUFFICES ASSUME Init PROVE Whole  OBVIOUS
  <1>1. CommandInv /\ DecideInv  BY DEF Init, CommandInv, DecideInv, Decided
  <1> QED  BY <1>1, InitInv DEF Whole

LEMMA UserStep ==
  ASSUME Inv, UserActs
  PROVE  Inv'
  <1>1. CASE CallSetGoal \/ CallClearGoal \/ CallResumeGoal  BY <1>1, RequestStep
  <1>2. CASE SendMessage  BY <1>2, RegularStep DEF SendMessage
  <1>3. CASE Enqueue \/ ResumeQueue
    BY <1>3, QuietStep DEF Enqueue, ResumeQueue, chainVars
  <1>4. CASE CallCancelTurn  BY <1>4, CancelStep DEF CallCancelTurn
  <1>5. CASE BeginDeletion  BY <1>5, AdmissionStep
  <1>6. CASE StartCommand  BY <1>6, CommandStep
  <1> QED  BY <1>1, <1>2, <1>3, <1>4, <1>5, <1>6 DEF UserActs

LEMMA ChainStep ==
  ASSUME Inv, DecideInv, ChainActs
  PROVE  Inv'
  <1>1. CASE SetGoal \/ ResumeGoal \/ SetGoalFollowsUp
    BY <1>1, SetGoalStep, ResumeGoalStep, FollowsUpStep
  <1>2. CASE ClearGoalRetires \/ ClearGoal \/ PauseForCancellation
    BY <1>2, ClearRetiresStep, ClearStep, PauseStep
  <1>3. CASE PublishQueuedGoal \/ ContinueIfIdle \/ StartContinuation
    BY <1>3, QueuedGoalStep, ContinueStep, StartContinuationStep
  <1>4. CASE CreateGoal \/ PrepareVerification \/ CommitVerification
    BY <1>4, CreateGoalStep, PrepareStep, CommitStep
  <1>5. CASE SettleOther \/ SettleGoalTurn \/ PublishSettlement
    BY <1>5, SettleOtherStep, SettleGoalTurnStep, PublishSettlementStep
  <1> QED  BY <1>1, <1>2, <1>3, <1>4, <1>5 DEF ChainActs

LEMMA TurnStep ==
  ASSUME Inv, CommandInv, TurnActs
  PROVE  Inv'
  BY CloseStep, EndStep, UnwindStep, FinishStep, ObserveStep, VerdictStep DEF TurnActs

LEMMA InvStep ==
  ASSUME Inv, CommandInv, DecideInv, [Next]_vars
  PROVE  Inv'
  <1>1. CASE UserActs  BY <1>1, UserStep
  <1>2. CASE ModelActs  BY <1>2, EvidenceStep, CallStep DEF ModelActs
  <1>3. CASE ChainActs  BY <1>3, ChainStep
  <1>4. CASE TurnActs  BY <1>4, TurnStep
  <1>5. CASE DispatchMessage  BY <1>5, RegularStep DEF DispatchMessage
  <1>6. CASE DispatchGoal  BY <1>6, RequestStep
  <1>7. CASE AbortCancelled  BY <1>7, AbortCancelledStep
  <1>8. CASE LooseContinue \/ LooseStart  BY <1>8, LooseContinueStep, LooseStartStep
  <1>9. CASE DeletionCancels
    <2>1. ActiveTurn \in Turn /\ CancelTurn(ActiveTurn)
      BY <1>9 DEF DeletionCancels, Cancellable, Inv, RegistryInv, RegistryTypeOK
    <2> QED  BY <2>1, CancelStep
  <1>10. CASE DeletionFails  BY <1>10, AdmissionStep
  <1>11. CASE Restart  BY <1>11, RestartStep
  <1>12. CASE UNCHANGED vars  BY <1>12, QuietStep DEF vars, chainVars, countVars
  <1> QED
    BY <1>1, <1>2, <1>3, <1>4, <1>5, <1>6, <1>7, <1>8, <1>9, <1>10, <1>11, <1>12 DEF Next

LEMMA WholeStep == Whole /\ [Next]_vars => Whole'
  BY InvStep, CommandStays, DecideStep DEF Whole

THEOREM InvHolds == Spec => []Whole
  BY InitWhole, WholeStep, PTL DEF Spec

-----------------------------------------------------------------------------
(* What it says.                                                           *)

(* The goal, the log, the maps and the chain keep their types, nothing is  *)
(* remembered of a turn that has settled, a receipt belongs to the goal,   *)
(* and a turn waits for its tool exactly while a call of it is under way.  *)
THEOREM TypeCorrect == Spec => []TypeOK
  <1>1. Whole => TypeOK
    <2> SUFFICES ASSUME Inv PROVE TypeOK  BY DEF Whole
    <2>1. RegistryTypeOK /\ terminal \in [Turn -> Terminal] /\ phase \in [Turn -> Phase]
      BY DEF Inv, RegistryInv
    <2>2. goal \in GoalType \cup {NoGoal} /\ lastGoal \in Nat /\ ended \in Seq(Turn)
          /\ (goal # NoGoal => goal.id <= lastGoal /\ goal.mark <= Len(ended))
      BY DEF Inv, GoalInv, UsageInv
    <2>3. receipt # NoReceipt =>
            goal # NoGoal /\ receipt.goal = goal.id /\ receipt.objective = goal.objective
      BY DEF Inv, ReceiptInv
    <2>4. /\ bound \in [Turn -> [goal: 0..lastGoal, objective: Objective \cup {Keep}]]
          /\ completing \in [Turn -> 0..lastGoal] /\ retired \subseteq 1..lastGoal
      BY DEF Inv, BindInv, BoundType
    <2>5. \A t \in Turn:
            /\ phase[t] \in {"unused", "settled"} => bound[t] = Unbound /\ completing[t] = 0
            /\ (phase[t] = "asking") = (ask[t].stage # "none")
            /\ (t \in registered) = (phase[t] \in Live)
            /\ phase[t] \in {"ended", "done", "settling"} => terminal[t] # "none"
      BY DEF Inv, BindInv, ChainInv, AskInv, RegistryInv
    <2>6. step # "begin" => ops # <<>>  BY DEF Inv, StepInv
    <2> QED  BY <2>1, <2>2, <2>3, <2>4, <2>5, <2>6 DEF TypeOK
  <1> QED  BY <1>1, InvHolds, PTL

(* A goal that a user paused or cleared has no turn left, but for a turn   *)
(* of the loose continuation and one whose goal a late create_goal has     *)
(* replaced: between the moment the goal is stopped and the moment its     *)
(* turn is aborted the chain stands at the publication.                    *)
THEOREM StopsHold == Spec => []UserStopHolds
  <1>1. Whole => UserStopHolds
    <2> SUFFICES ASSUME Inv, NEW t \in registered \ aborted,
                        goal = NoGoal \/ (goal.status = "paused" /\ goal.byUser /\ step # "published"),
                        bound[t] # Unbound, t \notin unserialized \cup orphaned
                 PROVE  FALSE
      BY DEF Whole, UserStopHolds
    <2> QED  BY DEF Inv, StopInv
  <1> QED  BY <1>1, InvHolds, PTL

(* Neither the chain, nor the retirement of a goal, nor a restart charges  *)
(* a turn that was charged before: it has settled, and its terminal events *)
(* lie before the mark of the only goal it could be charged to.            *)
THEOREM UsageIsCountedOnce == Spec => []UsageCountedOnce
  <1>1. Whole => UsageCountedOnce
    <2> SUFFICES ASSUME Inv, NEW t \in Turn PROVE charged[t] <= 1
      BY DEF Whole, UsageCountedOnce
    <2> QED  BY DEF Inv, UsageInv
  <1> QED  BY <1>1, InvHolds, PTL

(* However turns end and users, deletions and restarts interleave, the     *)
(* chain starts no more turns by itself than the limit allows and were     *)
(* not counted.                                                            *)
THEOREM AutonomyHolds == Spec => []AutonomyIsBounded
  <1>1. Whole => AutonomyIsBounded  BY DEF Whole, Inv, AutonomyInv, AutonomyIsBounded
  <1> QED  BY <1>1, InvHolds, PTL

-----------------------------------------------------------------------------
(* What completes a goal.                                                  *)

LEMMA PatchLeavesOpen ==
  ASSUME goal \in GoalType, Active(goal), NEW o, NEW s \in {"active", "paused", Keep},
         NEW force, NEW id
  PROVE  NextGoalState(goal, o, s, force, id).status # "complete"
  <1> DEFINE new == NewWork(goal, s, force)
             work == IF o = Keep THEN goal.objective ELSE o
             next == IF s # Keep THEN s ELSE IF new THEN "active" ELSE goal.status
             g == NextGoalState(goal, o, s, force, id)
  <1>1. next # "complete"  BY DEF Active
  <1>2. CASE new
    <2>1. g = [id |-> id, objective |-> work, status |-> next, mark |-> 0,
               automatic |-> 0, idle |-> 0, byUser |-> s = "paused"]
      BY <1>2 DEF NextGoalState
    <2> HIDE DEF next, work, g
    <2>2. g.status = next  BY <2>1
    <2> QED  BY <1>1, <2>2 DEF g
  <1>3. CASE ~new
    <2> DEFINE restarts == \/ goal.objective # work
                           \/ goal.status # "active" /\ next = "active"
    <2>1. g = [goal EXCEPT !.objective = work, !.status = next,
                 !.byUser = next = "paused" /\ (s = "paused" \/ @),
                 !.automatic = IF restarts THEN 0 ELSE @, !.idle = IF restarts THEN 0 ELSE @]
      BY <1>3 DEF NextGoalState
    <2> HIDE DEF next, work, g, restarts
    <2>2. g.status = next  BY <2>1 DEF GoalType
    <2> QED  BY <1>1, <2>2 DEF g
  <1> QED  BY <1>2, <1>3

(* Where a publication makes an active goal complete. *)
LEMMA GoalWith ==
  ASSUME goal \in GoalType, NEW s \in Status \ {"active", "complete"}
  PROVE  WithGoalStatus(goal, s).status # "complete"
  BY WithStatus

LEMMA UsersDoNotComplete ==
  ASSUME Inv, Active(goal), SetGoal \/ ResumeGoal \/ PublishQueuedGoal \/ CreateGoal \/ PauseForCancellation
  PROVE  goal' = goal \/ goal'.status # "complete"
  <1>1. goal \in GoalType /\ goal # NoGoal  BY DEF Inv, GoalInv, Active
  <1>2. CASE SetGoal
    <2>1. ops # <<>> /\ step \notin Continuing  BY <1>2 DEF SetGoal, Handles, Continuing
    <2>2. Head(ops).status \in {"active", "paused", Keep}
      <3>1. Head(ops) \in Operation  BY <2>1, HeadFinds DEF Inv
      <3> QED  BY <3>1 DEF Operation
    <2>3. NextGoalState(goal, Head(ops).objective, Head(ops).status, FALSE, lastGoal + 1).status # "complete"
      BY <1>1, <2>2, PatchLeavesOpen
    <2>4. goal' = goal \/ goal' = NextGoalState(goal, Head(ops).objective, Head(ops).status, FALSE, lastGoal + 1)
      BY <1>2 DEF SetGoal, SetGoalUnlocked, PublishSetGoal, Publish, AbortIf, Abort, EvidenceMoves, goalVars
    <2> QED  BY <2>3, <2>4
  <1>3. CASE ResumeGoal
    BY <1>1, <1>3 DEF ResumeGoal, Active, goalVars
  <1>4. CASE PublishQueuedGoal
    <2>1. goal' = goal \/ goal' = NextGoalState(goal, queued, "active", TRUE, lastGoal + 1)
      BY <1>4 DEF PublishQueuedGoal, Publish, goalVars
    <2> QED  BY <1>1, <2>1, PatchLeavesOpen
  <1>5. CASE CreateGoal
    <2>1. goal' = goal \/ goal' = NextGoalState(goal, Head(ops).objective, "active", TRUE, lastGoal + 1)
      BY <1>5 DEF CreateGoal, Publish, NoAnswer
    <2> QED  BY <1>1, <2>1, PatchLeavesOpen
  <1>6. CASE PauseForCancellation
    <2>1. goal' = WithGoalStatus(goal, "paused")
      BY <1>6 DEF PauseForCancellation, Publish
    <2>2. "paused" \in Status \ {"active", "complete"}  BY DEF Status
    <2> QED  BY <1>1, <2>1, <2>2, GoalWith
  <1> QED  BY <1>2, <1>3, <1>4, <1>5, <1>6

LEMMA NobodyElseCompletes ==
  ASSUME Inv, Active(goal), [Next]_vars, ~PublishSettlement
  PROVE  goal' = goal \/ goal' = NoGoal \/ goal'.status # "complete"
  <1> USE DEF goalVars
  <1>1. goal \in GoalType /\ goal # NoGoal  BY DEF Inv, GoalInv, Active
  <1>2. CASE UserActs
    BY <1>2 DEF UserActs, CallSetGoal, CallClearGoal, CallResumeGoal, Submit, SendMessage, StartRegular,
                StartCommand, EvidenceMoves, Enqueue, ResumeQueue, CallCancelTurn, CancelTurn, BeginDeletion
  <1>3. CASE ModelActs
    BY <1>3 DEF ModelActs, NewEvidence, EvidenceMoves, CallCreateGoal, CallUpdateGoal, Waits
  <1>4. CASE SetGoal \/ ResumeGoal \/ PublishQueuedGoal \/ CreateGoal \/ PauseForCancellation
    BY <1>4, UsersDoNotComplete
  <1>5. CASE SetGoalFollowsUp \/ ClearGoalRetires \/ ClearGoal
    BY <1>5 DEF SetGoalFollowsUp, ClearGoalRetires, ClearGoal, AbortIf, Abort, EvidenceMoves, Publish
  <1>6. CASE ContinueIfIdle \/ StartContinuation \/ PrepareVerification \/ SettleOther \/ SettleGoalTurn
    BY <1>6 DEF ContinueIfIdle, StartContinuation, PrepareVerification, NoAnswer, SettleOther,
                SettleGoalTurn
  <1>7. CASE CommitVerification
    <2>1. goal' = goal \/ goal' = WithGoalStatus(goal, "blocked")
      BY <1>7 DEF CommitVerification, NoAnswer
    <2>2. "blocked" \in Status \ {"active", "complete"}  BY DEF Status
    <2> QED  BY <1>1, <2>1, <2>2, GoalWith
  <1>8. CASE TurnActs
    BY <1>8 DEF TurnActs, Close, Complete, Fail, EndsWith, Unwind, Finish, TurnMoves, ObserveSettlement,
                VerdictArrives, NoAnswer
  <1>9. CASE DispatchMessage \/ DispatchGoal \/ AbortCancelled
    BY <1>9 DEF DispatchMessage, StartRegular, EvidenceMoves, DispatchGoal, Submit, AbortCancelled,
                AbortIf, Abort
  <1>10. CASE LooseContinue \/ LooseStart \/ DeletionCancels \/ DeletionFails
    BY <1>10 DEF LooseContinue, LooseStart, DeletionCancels, CancelTurn, DeletionFails
  <1>11. CASE Restart
    <2>1. PICK a: goal' = WithGoalStatus([goal EXCEPT !.mark = a], "paused")
      BY <1>1, <1>11 DEF Restart
    <2>2. goal'.status = "paused"  BY <1>1, <2>1 DEF WithGoalStatus, GoalType
    <2> QED  BY <2>2
  <1>12. CASE UNCHANGED vars  BY <1>12 DEF vars
  <1>13. CASE ChainActs
    BY <1>4, <1>5, <1>6, <1>7, <1>13 DEF ChainActs
  <1> QED
    BY <1>2, <1>3, <1>8, <1>9, <1>10, <1>11, <1>12, <1>13 DEF Next

(* The turn that completes its goal ended successfully, and what the       *)
(* verifier saw of it is what the log held when the settlement decided.    *)
LEMMA SettlementCompletes ==
  ASSUME Inv, DecideInv, Active(goal), PublishSettlement, goal' # goal, goal' # NoGoal,
         goal'.status = "complete"
  PROVE  /\ ops # <<>> /\ Head(ops).kind = "settle"
         /\ Head(ops).turn \in sound
         /\ terminal[Head(ops).turn] = "completed"
  <1>h. Handles("settle", {"begin", "completing", "settling"})  BY DEF PublishSettlement, Handles
  <1>t. PICK t \in Turn: t = Head(ops).turn /\ phase[t] = "settling"  BY <1>h, HeadSettles
  <1>1. PICK a: a = [goal EXCEPT !.mark = Later(@, LastPosition(t))]  OBVIOUS
  <1>2. PICK overtaken \in BOOLEAN: overtaken <=> Overtaken(t, Head(ops).objective)  OBVIOUS
  <1>3. PICK progress \in BOOLEAN: goal' = IF overtaken \/ ~Active(goal) THEN a ELSE Outcome(a, t, progress)
    BY <1>t, <1>1, <1>2 DEF PublishSettlement, Publish, goalVars
  <1>4. Settles(goal', t, overtaken)
    <2>1. goal # NoGoal /\ terminal[t] # "none"  BY <1>t DEF Active, Inv, RegistryInv
    <2> QED  BY <1>1, <1>3, <2>1, OutcomeSettles
  <1>5. step = "completing"  BY <1>4 DEF Settles
  <1> QED  BY <1>h, <1>5 DEF DecideInv, Handles

(* Only the settlement of a turn completes an active goal: one that ended  *)
(* successfully and whose receipt nothing had overtaken when the           *)
(* settlement decided.                                                     *)
THEOREM OnlyVerifiedGoalsComplete == Spec => CompletionIsVerified
  <1>1. Whole /\ [Next]_vars =>
          [(goal' # NoGoal /\ goal'.status = "complete" /\ goal' # goal /\ Active(goal)) =>
             /\ ops # <<>> /\ Head(ops).kind = "settle"
             /\ Head(ops).turn \in sound
             /\ terminal[Head(ops).turn] = "completed"]_vars
    BY NobodyElseCompletes, SettlementCompletes DEF Whole
  <1> QED  BY <1>1, InvHolds, PTL DEF Spec, CompletionIsVerified
=============================================================================
