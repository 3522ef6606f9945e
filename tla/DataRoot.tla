------------------------------ MODULE DataRoot ------------------------------
(***************************************************************************)
(* The data root of the desktop application: the coordinator, the retained *)
(* backups, the runtime that writes the data, and what happens to the      *)
(* disks meanwhile.                                                        *)
(***************************************************************************)
EXTENDS RetainedBackups

CONSTANTS
  MaxDetach,  \* bound: times a volume goes away
  MaxReplace  \* bound: times somebody replaces a retained root

ASSUME DisturbanceAssumption == MaxDetach \in Nat /\ MaxReplace \in Nat

VARIABLES
  detached,  \* times a volume went away (bound)
  replaced   \* times a retained root was replaced (bound)

vars == <<migrationVars, backupVars, detached, replaced>>

TypeOK ==
  /\ MigrationTypeOK
  /\ BackupTypeOK
  /\ detached \in Nat /\ replaced \in Nat

Init ==
  /\ MigrationInit
  /\ BackupInit
  /\ detached = 0 /\ replaced = 0

(* A volume other than the default's goes away while the application is    *)
(* not working on it.  A runtime that outlived its parent may find it      *)
(* again when it comes back (RuntimeResumes).                              *)
Detach(r) ==
  /\ r \in attached \ {Default}
  /\ mode \in {"down", "migrating"}
  /\ detached < MaxDetach
  /\ detached' = detached + 1
  /\ attached' = attached \ {r}
  /\ UNCHANGED <<dir, staging, owned, pointer, pending, registry, grave, adrift,
                 mode, booted, op, runtime, abandoned, budgetVars, backupVars,
                 replaced>>

Attach(r) ==
  /\ r \notin attached
  /\ attached' = attached \cup {r}
  /\ UNCHANGED <<dir, staging, owned, pointer, pending, registry, grave, adrift,
                 mode, booted, op, runtime, abandoned, budgetVars, backupVars,
                 detached, replaced>>

(* Somebody puts another directory, with or without the old marker, in the *)
(* place of a root that was left behind.  Its database goes with it.       *)
Replace(r) ==
  /\ Exists(At(r))
  /\ Registered(r)
  /\ dir[r].ver # Foreign
  /\ mode \in {"down", "normal"}
  /\ r # Home /\ ~(pending.src # NoRoot /\ r \in {pending.src, pending.tgt})
  /\ replaced < MaxReplace
  /\ replaced' = replaced + 1
  /\ trees < MaxTree
  /\ trees' = trees + 1
  /\ \E id \in {0, dir[r].id}:
       dir' = [dir EXCEPT ![r] = [ino |-> trees', id |-> id, ver |-> Foreign]]
  /\ runtime' = [runtime EXCEPT ![r] = NoRuntime]
  /\ UNCHANGED <<attached, staging, owned, pointer, pending, registry, grave, adrift,
                 mode, booted, op, abandoned, begun, crashes, faults, backupVars,
                 detached>>

Process ==
  \/ Boot \/ Crash \/ Quit \/ StartRuntime
  \/ \E r \in Root: RuntimeStalls(r) \/ RuntimeResumes(r) \/ RuntimeWrites(r)

(* A deletion ends with the process that runs it.                          *)
ProcessStep ==
  /\ Process \/ BeginSteps \/ MigrationSteps
  /\ IF mode' = "down" THEN del' = NoDeletion /\ tried' = {} ELSE UNCHANGED backupVars

Next ==
  \/ ProcessStep /\ UNCHANGED <<detached, replaced>>
  \/ (DeletionSteps \/ StartupSteps) /\ UNCHANGED <<detached, replaced>>
  \/ \E r \in Root: Detach(r) \/ Attach(r) \/ Replace(r)

Spec == Init /\ [][Next]_vars

-----------------------------------------------------------------------------
(* However a move, its failures, its crashes and its cancellation fall     *)
(* together, the application opens the data it had (DataHome).             *)
DataHomeImage == INSTANCE DataHome WITH
  home <- Home, contents <- dir[Home].ver, recovering <- mode = "recovery"
HomeSpec == DataHomeImage!Spec

(* A runtime that outlived its parent never keeps the lease of a root that *)
(* is no longer the home, unless a user left that root in recovery and has *)
(* not gone back to it since; and none holds the lease of the source or    *)
(* the target of an announced migration.                                   *)
NobodyWritesElsewhere ==
  \A r \in Root: runtime[r].lease # "none" =>
    /\ r = Home \/ r \in abandoned
    /\ BootIsMigrating /\ pending.tgtId # 0 => r \notin {pending.src, pending.tgt}

(* A tree that somebody else put in the place of a retained root is never  *)
(* removed, not in part either, unless it has been registered itself since *)
(* (its user went back to it and then moved away from it).                 *)
Intact == {tree.ino: tree \in {t \in {dir[r]: r \in Root} \cup {grave[r]: r \in Root}
                                     \cup adrift: t.ver = Foreign}}
ForeignTreesSurvive ==
  [][\A r \in Root: \A tree \in {dir[r], grave[r]}:
       tree.ver = Foreign /\ registry[r].ino # tree.ino => tree.ino \in Intact']_vars

(* A backup a user has dismissed prompts again only after its root was     *)
(* used and left once more.                                                *)
DismissedStaysQuiet ==
  [][\A r \in Root:
       Registered(r) /\ ~registry[r].prompt /\ registry'[r].prompt => Home = r]_vars

=============================================================================
