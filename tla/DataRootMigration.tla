------------------------- MODULE DataRootMigration -------------------------
(***************************************************************************)
(* DesktopDataRootCoordinator: moving the data root, and what the main     *)
(* process does about it when it starts.  One process runs at a time; it   *)
(* may end at any step, and the next one boots from the disk.              *)
(*                                                                         *)
(* An asynchronous method is a sequence of steps named by op.pc, one step  *)
(* for each effect it awaits.  A write fails without a trace, or after its *)
(* effect when only the sync of the directory fails; the method then takes *)
(* its error path.                                                         *)
(***************************************************************************)
EXTENDS DataRootDisk

CONSTANTS
  MaxVersion,  \* bound: versions of the user's data
  MaxTree,     \* bound: directory trees ever made
  MaxBegin,    \* bound: migrations begun
  MaxCrash,    \* bound: times the main process ends unexpectedly
  MaxFault     \* bound: writes and shutdowns that fail

ASSUME BoundAssumption ==
  /\ MaxVersion \in Nat
  /\ MaxTree \in Nat
  /\ MaxBegin \in Nat
  /\ MaxCrash \in Nat
  /\ MaxFault \in Nat

VARIABLES
  mode,     \* "down", or how the running process booted
  booted,   \* its bootMode: active root, pointer and pending as it knows them
  op,       \* the coordinator method that is running
  runtime,  \* root -> the runtime whose lease is in the database there
  abandoned, \* history: roots left in recovery, not opened again since
  trees,    \* trees made so far: the next identity (bound)
  begun,    \* migrations begun so far (bound)
  crashes,  \* unexpected ends so far (bound)
  faults    \* failed effects so far (bound)

budgetVars == <<trees, begun, crashes, faults>>
migrationVars == <<diskVars, mode, booted, op, runtime, abandoned, budgetVars>>

Mode == {"down", "normal", "migrating", "recovery"}
Step == {"idle", "recover", "previous", "default", "forget", "finish",
         "inspect", "schedule", "relaunch", "undo", "unfence", "relaunch again",
         "start", "adopt", "clean", "scan", "stage", "own", "copy", "verify",
         "mark", "announce", "register", "vacate", "commit", "point",
         "clean up", "point back", "choose", "settle", "restart"}

(* lease: "live" while the process renews it, "stalled" once it expired    *)
(* although its row is still in the database.  hosted: it is a child of    *)
(* the running main process, not one that outlived its parent.             *)
Runtime == [lease: {"none", "live", "stalled"}, fenced: BOOLEAN, hosted: BOOLEAN]
NoRuntime == [lease |-> "none", fenced |-> FALSE, hosted |-> FALSE]

Idle == [pc |-> "idle", tgt |-> NoRoot, asked |-> FALSE]
NotBooted == [active |-> NoRoot, pointer |-> NoPointer, pending |-> NoPending]

MigrationTypeOK ==
  /\ DiskTypeOK
  /\ mode \in Mode
  /\ booted \in [active: Root \cup {NoRoot}, pointer: Pointer, pending: Pending]
  /\ op \in [pc: Step, tgt: Root \cup {NoRoot}, asked: BOOLEAN]
  /\ runtime \in [Root -> Runtime]
  /\ abandoned \subseteq Root
  /\ trees \in Nat /\ begun \in Nat /\ crashes \in Nat /\ faults \in Nat

MigrationInit ==
  /\ DiskInit
  /\ mode = "down"
  /\ booted = NotBooted
  /\ op = Idle
  /\ runtime = [r \in Root |-> NoRuntime]
  /\ abandoned = {}
  /\ trees = 2 /\ begun = 0 /\ crashes = 0 /\ faults = 0

Running(pc) == op.pc = pc
Goto(pc) == op' = [op EXCEPT !.pc = pc]
Return == op' = Idle

Throws == faults < MaxFault /\ faults' = faults + 1

(* The method goes on to next, or its write fails and it returns.          *)
GoesOn(next) ==
  \/ faults' = faults /\ Goto(next)
  \/ Throws /\ Return

Fails == Throws /\ Return

-----------------------------------------------------------------------------
(* The process and the runtime it hosts.                                   *)

(* All that a process had in memory goes with it, a running method too.    *)
ProcessEnds ==
  /\ mode' = "down"
  /\ booted' = NotBooted
  /\ Return

(* probeDataRootWritable of a root that is there: it is read-only, or the  *)
(* file system refuses.  A root without a pointer is not probed.           *)
ProbeFails == pointer.root # NoRoot /\ Throws

(* resolveDesktopDataRootBootMode; a normal start goes on to               *)
(* finalizeStartup before there is a window.                               *)
BootsAs(as, active) ==
  /\ mode' = as
  /\ booted' = [active |-> active, pointer |-> pointer, pending |-> pending]
  /\ op' = IF as = "normal" THEN [Idle EXCEPT !.pc = "recover"] ELSE Idle

Boot ==
  /\ mode = "down"
  /\ \/ BootIsMigrating /\ BootsAs("migrating", Home) /\ UNCHANGED faults
     \/ BootIsNormal /\ BootsAs("normal", Home) /\ UNCHANGED faults
     \/ BootIsNormal /\ BootsAs("recovery", NoRoot) /\ ProbeFails
     \/ /\ ~BootIsMigrating /\ ~BootIsNormal
        /\ BootsAs("recovery", NoRoot) /\ UNCHANGED faults
  /\ UNCHANGED <<diskVars, runtime, abandoned, trees, begun, crashes>>

(* Power loss, a kill or a crash of main: the runtime may outlive it.      *)
Crash ==
  /\ mode # "down"
  /\ crashes < MaxCrash
  /\ crashes' = crashes + 1
  /\ ProcessEnds
  /\ runtime' = [r \in Root |-> [runtime[r] EXCEPT !.hosted = FALSE]]
  /\ UNCHANGED <<diskVars, abandoned, trees, begun, faults>>

(* before-quit stops the services; the runtime releases its lease.         *)
Quit ==
  /\ mode # "down"
  /\ Running("idle")
  /\ ProcessEnds
  /\ runtime' = [r \in Root |-> IF runtime[r].hosted THEN NoRuntime ELSE runtime[r]]
  /\ UNCHANGED <<diskVars, abandoned, budgetVars>>

(* acquireOwnership: an unexpired lease refuses the newcomer, an expired   *)
(* one is taken over, and its holder can write no more.                    *)
StartRuntime ==
  /\ mode = "normal"
  /\ Running("idle")
  /\ runtime[booted.active].lease # "live"
  /\ runtime' = [runtime EXCEPT ![booted.active] =
                    [lease |-> "live", fenced |-> FALSE, hosted |-> TRUE]]
  /\ abandoned' = abandoned \ {booted.active}
  /\ UNCHANGED <<diskVars, mode, booted, op, budgetVars>>

(* The runtime is suspended, or it is dead and its row is left behind.     *)
RuntimeStalls(r) ==
  /\ runtime[r].lease = "live"
  /\ runtime' = [runtime EXCEPT ![r].lease = "stalled"]
  /\ UNCHANGED <<diskVars, mode, booted, op, abandoned, budgetVars>>

(* The next write of a suspended runtime finds its row and renews it.      *)
RuntimeResumes(r) ==
  /\ r \in attached
  /\ runtime[r].lease = "stalled"
  /\ runtime' = [runtime EXCEPT ![r].lease = "live"]
  /\ UNCHANGED <<diskVars, mode, booted, op, abandoned, budgetVars>>

RuntimeWrites(r) ==
  /\ r \in attached
  /\ runtime[r].lease = "live"
  /\ ~runtime[r].fenced
  /\ dir[r].ver \in 0 .. MaxVersion - 1
  /\ dir' = [dir EXCEPT ![r].ver = @ + 1]
  /\ UNCHANGED <<attached, staging, owned, pointer, pending, registry, grave,
                 adrift, mode, booted, op, runtime, abandoned, budgetVars>>

-----------------------------------------------------------------------------
(* beginMigration: fence the runtime, note the migration, relaunch.        *)

(* prepareDataMigration closes admission of the runtime.                   *)
BeginMigration(tgt) ==
  /\ mode = "normal"
  /\ Running("idle")
  /\ runtime[booted.active].hosted /\ runtime[booted.active].lease = "live"
  /\ tgt # booted.active
  /\ begun < MaxBegin
  /\ begun' = begun + 1
  /\ runtime' = [runtime EXCEPT ![booted.active].fenced = TRUE]
  /\ op' = [pc |-> "inspect", tgt |-> tgt, asked |-> FALSE]
  /\ UNCHANGED <<diskVars, mode, booted, abandoned, trees, crashes, faults>>

(* inspectDataMigrationTarget: nothing there or an empty directory, on the *)
(* volume that was chosen.                                                 *)
TargetIsFree(tgt) == tgt \in attached /\ dir[tgt].ver = EmptyDir

Unfence == runtime' = [runtime EXCEPT ![booted.active].fenced = FALSE]

BeginInspects ==
  /\ Running("inspect")
  /\ IF TargetIsFree(op.tgt)
       THEN Goto("schedule") /\ UNCHANGED runtime
       ELSE Return /\ Unfence
  /\ UNCHANGED <<diskVars, mode, booted, abandoned, budgetVars>>

(* A staging name carries the id of its migration: what an older one left  *)
(* beside the same target is not this one's.                               *)
BeginSchedules ==
  /\ Running("schedule")
  /\ \/ /\ pending' = [src |-> booted.active, srcId |-> At(booted.active).id,
                       tgt |-> op.tgt, tgtId |-> 0]
        /\ adrift' = adrift \cup {tree \in {staging}: Exists(tree)}
        /\ staging' = NoTree
        /\ owned' = FALSE
        /\ \/ faults' = faults /\ op' = [op EXCEPT !.pc = "relaunch", !.asked = TRUE]
           \/ Throws /\ Goto("undo")
     \/ /\ Throws /\ Goto("undo")
        /\ UNCHANGED <<pending, adrift, staging, owned>>
  /\ UNCHANGED <<dir, attached, pointer, registry, grave, mode, booted,
                 runtime, abandoned, trees, begun, crashes>>

(* requestDesktopRelaunch with a runtime: it must exit cleanly, which      *)
(* releases its lease; otherwise the relaunch is refused, and the runtime  *)
(* may have been killed by then.                                           *)
RelaunchIsDone ==
  /\ faults' = faults
  /\ ProcessEnds
  /\ runtime' = [runtime EXCEPT ![booted.active] = NoRuntime]

RelaunchIsRefused ==
  /\ Throws
  /\ runtime' \in {runtime, [runtime EXCEPT ![booted.active].lease = "stalled"]}
  /\ UNCHANGED <<mode, booted>>

BeginRelaunches ==
  /\ Running("relaunch")
  /\ RelaunchIsDone \/ (RelaunchIsRefused /\ Goto("undo"))
  /\ UNCHANGED <<diskVars, abandoned, trees, begun, crashes>>

(* The error path: the pending file goes first, then the fence, then a     *)
(* relaunch if one had been asked for.  It ignores what fails in it.       *)
BeginUndoes ==
  /\ Running("undo")
  /\ \/ pending' = NoPending /\ faults' = faults
     \/ Throws /\ UNCHANGED pending
  /\ Goto("unfence")
  /\ UNCHANGED <<dir, attached, staging, owned, pointer, registry, grave, adrift,
                 mode, booted, runtime, abandoned, trees, begun, crashes>>

BeginUnfences ==
  /\ Running("unfence")
  /\ \/ Unfence /\ faults' = faults
     \/ Throws /\ UNCHANGED runtime
  /\ op' = IF op.asked THEN [op EXCEPT !.pc = "relaunch again"] ELSE Idle
  /\ UNCHANGED <<diskVars, mode, booted, abandoned, trees, begun, crashes>>

BeginRelaunchesAgain ==
  /\ Running("relaunch again")
  /\ RelaunchIsDone \/ (RelaunchIsRefused /\ Return)
  /\ UNCHANGED <<diskVars, abandoned, trees, begun, crashes>>

-----------------------------------------------------------------------------
(* runMigration, in a process that booted to migrate.                      *)

Source == booted.pending.src
Target == booted.pending.tgt

RunMigration ==
  /\ mode = "migrating"
  /\ Running("idle")
  /\ Goto("start")
  /\ UNCHANGED <<diskVars, mode, booted, runtime, abandoned, budgetVars>>

(* finishInterruptedCommit: the target already is the tree this migration  *)
(* announced.                                                              *)
CommitWasInterrupted_AnyTree ==
  booted.pending.tgtId # 0 /\ Exists(At(Target))
CommitWasInterrupted ==
  booted.pending.tgtId # 0 /\ At(Target).id = booted.pending.tgtId

MigrationStarts ==
  /\ Running("start")
  /\ Goto(IF CommitWasInterrupted THEN "adopt" ELSE "clean")
  /\ UNCHANGED <<diskVars, mode, booted, runtime, abandoned, budgetVars>>

(* cleanupOwnedStaging removes a tree with the owner file of this          *)
(* migration, or one that has nothing in it yet.  The removal takes the    *)
(* entries in any order and may end half way.                              *)
StagingIsMine == owned \/ staging.ver = EmptyDir

CleanStaging(next) ==
  \/ /\ ~(Target \in attached /\ Exists(staging))
     /\ Goto(next)
     /\ UNCHANGED <<staging, owned, faults>>
  \/ /\ Target \in attached /\ Exists(staging)
     /\ StagingIsMine
     /\ staging' = NoTree /\ owned' = FALSE
     /\ Goto(next)
     /\ UNCHANGED faults
  \/ /\ Target \in attached /\ Exists(staging)
     /\ StagingIsMine
     /\ staging.ver # EmptyDir
     /\ staging' = [staging EXCEPT !.ver = Torn]
     /\ owned' \in {owned, FALSE}
     /\ \/ UNCHANGED <<op, faults>>
        \/ Fails
  \/ /\ Target \in attached /\ Exists(staging)
     /\ ~StagingIsMine
     /\ Return
     /\ UNCHANGED <<staging, owned, faults>>

MigrationCleans ==
  /\ Running("clean")
  /\ CleanStaging("scan")
  /\ UNCHANGED <<dir, attached, pointer, pending, registry, grave, adrift,
                 mode, booted, runtime, abandoned, trees, begun, crashes>>

(* waitForRuntimeOwnershipRelease, where there is a database: it waits for *)
(* the lease to expire and takes the row away, so that its holder can      *)
(* write no more; then the source is scanned and the target inspected.     *)
LeaseIsHeld == Source \in attached /\ runtime[Source].lease = "live"

ScanGoesOn ==
  IF Exists(At(Source)) /\ TargetIsFree(Target) THEN Goto("stage") ELSE Return

MigrationScans_KeepsRow ==
  /\ Running("scan")
  /\ IF LeaseIsHeld THEN Return ELSE ScanGoesOn
  /\ UNCHANGED <<diskVars, mode, booted, runtime, abandoned, budgetVars>>
MigrationScans ==
  /\ Running("scan")
  /\ IF LeaseIsHeld THEN Return /\ UNCHANGED runtime
     ELSE /\ runtime' = IF Source \in attached
                          THEN [runtime EXCEPT ![Source] = NoRuntime] ELSE runtime
          /\ ScanGoesOn
  /\ UNCHANGED <<diskVars, mode, booted, abandoned, budgetVars>>

MigrationStages ==
  /\ Running("stage") /\ Target \in attached
  /\ \/ /\ trees < MaxTree
        /\ trees' = trees + 1
        /\ staging' = [ino |-> trees', id |-> 0, ver |-> EmptyDir]
        /\ owned' = FALSE
        /\ Goto("own")
        /\ UNCHANGED faults
     \/ /\ Fails \/ (trees = MaxTree /\ Return /\ UNCHANGED faults)
        /\ UNCHANGED <<trees, staging, owned>>
  /\ UNCHANGED <<dir, attached, pointer, pending, registry, grave, adrift,
                 mode, booted, runtime, abandoned, begun, crashes>>

MigrationOwns ==
  /\ Running("own") /\ Target \in attached
  /\ \/ owned' = TRUE /\ GoesOn("copy")
     \/ owned' = owned /\ Fails
  /\ UNCHANGED <<dir, attached, staging, pointer, pending, registry, grave, adrift,
                 mode, booted, runtime, abandoned, trees, begun, crashes>>

MigrationCopies ==
  /\ Running("copy") /\ Target \in attached
  /\ staging' = [staging EXCEPT !.ver = Torn]
  /\ GoesOn("verify")
  /\ UNCHANGED <<dir, attached, owned, pointer, pending, registry, grave, adrift,
                 mode, booted, runtime, abandoned, trees, begun, crashes>>

(* The volume of the target goes away while the staging tree is made.      *)
MigrationLosesTarget ==
  /\ op.pc \in {"stage", "own", "copy", "mark"}
  /\ Target \notin attached
  /\ Return
  /\ UNCHANGED <<diskVars, mode, booted, runtime, abandoned, budgetVars>>

(* Every file has been copied and compared with its source, and the paths  *)
(* in it rewritten.                                                        *)
MigrationVerifies ==
  /\ Running("verify")
  /\ IF Source \in attached /\ Target \in attached
       THEN \/ /\ staging' = [staging EXCEPT !.ver = dir[Source].ver]
               /\ Goto("mark")
               /\ UNCHANGED faults
            \/ Fails /\ UNCHANGED staging
       ELSE Return /\ UNCHANGED <<staging, faults>>
  /\ UNCHANGED <<dir, attached, owned, pointer, pending, registry, grave, adrift,
                 mode, booted, runtime, abandoned, trees, begun, crashes>>

(* The marker of the new root; then its id is announced in the pending     *)
(* file, before anything happens to the target.                            *)
MigrationMarks ==
  /\ Running("mark") /\ Target \in attached
  /\ \/ staging' = [staging EXCEPT !.id = staging.ino] /\ GoesOn("announce")
     \/ UNCHANGED staging /\ Fails
  /\ UNCHANGED <<dir, attached, owned, pointer, pending, registry, grave, adrift,
                 mode, booted, runtime, abandoned, trees, begun, crashes>>

MigrationAnnounces ==
  /\ Running("announce")
  /\ LET committing == [booted.pending EXCEPT !.tgtId = staging.id] IN
     \/ /\ pending' = committing
        /\ booted' = [booted EXCEPT !.pending = committing]
        /\ Goto("register")
        /\ UNCHANGED faults
     \/ pending' \in {pending, committing} /\ UNCHANGED booted /\ Fails
  /\ UNCHANGED <<dir, attached, staging, owned, pointer, registry, grave, adrift,
                 mode, runtime, abandoned, trees, begun, crashes>>

(* registerRetainedDataRootBackup of the source, with its present identity. *)
(* A record it replaces forgets where its deletion had got to.             *)
SourceIsCaptured ==
  /\ Exists(At(Source))
  /\ booted.pending.srcId # 0 => At(Source).id = booted.pending.srcId

Captured(r) == [ino |-> dir[r].ino, id |-> dir[r].id, del |-> FALSE, prompt |-> TRUE]

RegisterSource(next) ==
  IF SourceIsCaptured
    THEN \/ /\ registry' = [registry EXCEPT ![Source] = Captured(Source)]
            /\ grave' = [grave EXCEPT ![Source] = NoTree]
            /\ adrift' = adrift \cup {tree \in {grave[Source]}: Exists(tree)}
            /\ GoesOn(next)
         \/ UNCHANGED <<registry, grave, adrift>> /\ Fails
    ELSE Return /\ UNCHANGED <<registry, grave, adrift, faults>>

MigrationRegisters ==
  /\ \/ Running("register") /\ RegisterSource("vacate")
     \/ Running("adopt") /\ RegisterSource("point")
  /\ UNCHANGED <<dir, attached, staging, owned, pointer, pending,
                 mode, booted, runtime, abandoned, trees, begun, crashes>>

(* commitStaging: an empty directory in the way is removed; then the       *)
(* staging tree takes the name of the target.                              *)
MigrationVacates ==
  /\ Running("vacate")
  /\ \/ /\ TargetIsFree(Target)
        /\ dir' = [dir EXCEPT ![Target] = NoTree]
        /\ GoesOn("commit")
     \/ ~TargetIsFree(Target) /\ Return /\ UNCHANGED <<dir, faults>>
  /\ UNCHANGED <<attached, staging, owned, pointer, pending, registry, grave, adrift,
                 mode, booted, runtime, abandoned, trees, begun, crashes>>

MigrationCommits ==
  /\ Running("commit")
  /\ \/ /\ Target \in attached
        /\ dir' = [dir EXCEPT ![Target] = staging]
        /\ staging' = NoTree
        /\ owned' = FALSE
        /\ GoesOn("point")
     \/ UNCHANGED <<dir, staging, owned>> /\ Fails
     \/ Target \notin attached /\ Return /\ UNCHANGED <<dir, staging, owned, faults>>
  /\ UNCHANGED <<attached, pointer, pending, registry, grave, adrift,
                 mode, booted, runtime, abandoned, trees, begun, crashes>>

(* writeDataRootPointer, by whichever method is at it.                     *)
WritePointer(new, next) ==
  /\ \/ pointer' = new /\ GoesOn(next)
     \/ pointer' = pointer /\ Fails
  /\ UNCHANGED <<dir, attached, staging, owned, pending, registry, grave, adrift,
                 mode, booted, runtime, trees, begun, crashes>>

MigrationPoints ==
  /\ Running("point")
  /\ WritePointer([root   |-> Target, id     |-> booted.pending.tgtId,
                   prev   |-> Source, prevId |-> booted.pending.srcId], "settle")
  /\ UNCHANGED abandoned

(* removePendingDataMigration, then requestRelaunch: there is no runtime   *)
(* to wait for in a maintenance process.                                   *)
Settle ==
  /\ Running("settle")
  /\ \/ pending' = NoPending /\ GoesOn("restart")
     \/ pending' = pending /\ Fails
  /\ UNCHANGED <<dir, attached, staging, owned, pointer, registry, grave, adrift,
                 mode, booted, runtime, abandoned, trees, begun, crashes>>

Restart ==
  /\ Running("restart")
  /\ ProcessEnds
  /\ UNCHANGED <<diskVars, runtime, abandoned, budgetVars>>

-----------------------------------------------------------------------------
(* cancelMigration, retryStartup and restorePreviousRoot.                  *)

CancelMigration ==
  /\ mode = "migrating"
  /\ Running("idle")
  /\ Goto("clean up")
  /\ UNCHANGED <<diskVars, mode, booted, runtime, abandoned, budgetVars>>

CancelCleans ==
  /\ Running("clean up")
  /\ CleanStaging("point back")
  /\ UNCHANGED <<dir, attached, pointer, pending, registry, grave, adrift,
                 mode, booted, runtime, abandoned, trees, begun, crashes>>

CancelPoints ==
  /\ Running("point back")
  /\ WritePointer([root   |-> Source, id     |-> booted.pending.srcId,
                   prev   |-> booted.pointer.prev,
                   prevId |-> booted.pointer.prevId], "settle")
  /\ UNCHANGED abandoned

(* Both probe the root they go on with, and do nothing when that fails;    *)
(* neither asks whether a lease is held on a root.  A recovery that met a  *)
(* committed pending migration removes it at the end.                      *)
AfterRecovery == IF booted.pending.src # NoRoot THEN "settle" ELSE "restart"

RetryStartup ==
  /\ mode = "recovery"
  /\ Running("idle")
  /\ IsExpectedRoot(booted.pointer.root, booted.pointer.id)
  /\ Goto(AfterRecovery)
  /\ UNCHANGED <<diskVars, mode, booted, runtime, abandoned, budgetVars>>

PreviousRoot == IF booted.pointer.prev = NoRoot THEN Default ELSE booted.pointer.prev

RestorePreviousRoot ==
  /\ mode = "recovery"
  /\ Running("idle")
  /\ IsExpectedRoot(PreviousRoot, booted.pointer.prevId)
  /\ Goto("choose")
  /\ UNCHANGED <<diskVars, mode, booted, runtime, abandoned, budgetVars>>

RestoreChooses ==
  /\ Running("choose")
  /\ WritePointer([root   |-> PreviousRoot,
                   id     |-> IF PreviousRoot = Default THEN 0 ELSE booted.pointer.prevId,
                   prev   |-> booted.pointer.root,
                   prevId |-> booted.pointer.id], AfterRecovery)
  /\ abandoned' = IF pointer' = pointer THEN abandoned
                  ELSE abandoned \cup {booted.pointer.root}

-----------------------------------------------------------------------------
MigrationSteps ==
  \/ RunMigration \/ MigrationStarts \/ MigrationCleans \/ MigrationScans
  \/ MigrationStages \/ MigrationOwns \/ MigrationCopies \/ MigrationVerifies
  \/ MigrationLosesTarget \/ MigrationMarks \/ MigrationAnnounces \/ MigrationRegisters
  \/ MigrationVacates \/ MigrationCommits \/ MigrationPoints
  \/ Settle \/ Restart
  \/ CancelMigration \/ CancelCleans \/ CancelPoints
  \/ RetryStartup \/ RestorePreviousRoot \/ RestoreChooses

BeginSteps ==
  \/ \E tgt \in Root: BeginMigration(tgt)
  \/ BeginInspects \/ BeginSchedules \/ BeginRelaunches
  \/ BeginUndoes \/ BeginUnfences \/ BeginRelaunchesAgain

=============================================================================
