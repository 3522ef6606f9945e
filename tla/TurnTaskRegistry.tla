-------------------------- MODULE TurnTaskRegistry --------------------------
(***************************************************************************)
(* RuntimeTurnTaskRegistry (loop/lifecycle/turn-task-registry.ts) of one   *)
(* thread, with the admission flags AgentLoop keeps beside it.             *)
(*                                                                         *)
(* The registry answers two different questions.  tasksByKey holds a task  *)
(* until its done promise settles; activeForThread hides a task as soon as *)
(* its controller is aborted.  tasksByThread, the map activeForThread      *)
(* reads, has one slot per thread: a turn that starts after a cancellation *)
(* takes the slot of the cancelled turn although that one still unwinds.   *)
(*                                                                         *)
(* Each operator below is the effect of one method on the registry's own   *)
(* variables; the modules that extend this one conjoin them with the rest  *)
(* of the handler.                                                         *)
(***************************************************************************)
EXTENDS Naturals, FiniteSets

CONSTANTS
  Turn,      \* turn ids; a bound on how many turns one behaviour starts
  NoTurn     \* null

ASSUME NoTurnAssumption == NoTurn \notin Turn

VARIABLES
  registered,  \* tasksByKey: the turns whose done promise has not settled
  current,     \* tasksByThread: the last task started, or NoTurn
  aborted,     \* the turns whose AbortController was aborted
  accepting,   \* the turns whose task has acceptingSteers = TRUE
  closed       \* why new work is refused: deletingThreads (with the
               \* registry's blockedThreads) and dataMigrationPreparing

registryVars == <<registered, current, aborted, accepting, closed>>

Reason == {"deleting", "migrating"}

RegistryTypeOK ==
  /\ registered \subseteq Turn
  /\ current \in Turn \cup {NoTurn}
  /\ aborted \subseteq Turn
  /\ accepting \subseteq Turn
  /\ closed \subseteq Reason

RegistryInit ==
  /\ registered = {}
  /\ current = NoTurn
  /\ aborted = {}
  /\ accepting = {}
  /\ closed = {}

(* activeForThread: the slot's task, unless it was aborted. *)
ActiveTurn == IF current \in aborted THEN NoTurn ELSE current

(* taskFor: by key, so a turn that lost the slot is still found. *)
Cancellable(t) == t \in registered \ aborted

(* assertThreadAcceptingWork, run before every admitted mutation. *)
AcceptingWork == closed = {}

(* The two checks of start(): the thread is not blocked, no active task. *)
CanStart_IgnoresActive == "deleting" \notin closed
CanStart ==
  /\ "deleting" \notin closed
  /\ ActiveTurn = NoTurn

StartTask(t, steerable) ==
  /\ registered' = registered \cup {t}
  /\ current' = t
  /\ accepting' = IF steerable THEN accepting \cup {t} ELSE accepting
  /\ UNCHANGED <<aborted, closed>>

(* finish(): by identity, so the turn that took the slot keeps it. *)
FinishTask_KeepsSlot(t) ==
  /\ registered' = registered \ {t}
  /\ UNCHANGED <<current, aborted, accepting, closed>>
FinishTask(t) ==
  /\ registered' = registered \ {t}
  /\ current' = IF current = t THEN NoTurn ELSE current
  /\ UNCHANGED <<aborted, accepting, closed>>

AbortTask(t) ==
  /\ aborted' = aborted \cup {t}
  /\ UNCHANGED <<registered, current, accepting, closed>>

(* stopAcceptingSteers: only while t is the active turn. *)
StopAcceptingSteers(t) ==
  /\ accepting' = IF ActiveTurn = t THEN accepting \ {t} ELSE accepting
  /\ UNCHANGED <<registered, current, aborted, closed>>

Refuse(reason) ==
  /\ closed' = closed \cup {reason}
  /\ UNCHANGED <<registered, current, aborted, accepting>>

Readmit(reason) ==
  /\ closed' = closed \ {reason}
  /\ UNCHANGED <<registered, current, aborted, accepting>>

=============================================================================
