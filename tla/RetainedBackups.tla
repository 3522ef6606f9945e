--------------------------- MODULE RetainedBackups ---------------------------
(***************************************************************************)
(* The registry of roots that were left behind, and their deletion: a      *)
(* deletion is noted in the registry, the root is renamed to a hidden name *)
(* beside it, and only there it is removed.  A normal start continues the  *)
(* deletions it finds noted, before there is a window (finalizeStartup);   *)
(* later a user deletes or dismisses a backup while other methods of the   *)
(* coordinator run.                                                        *)
(***************************************************************************)
EXTENDS DataRootMigration

VARIABLES
  del,    \* the deletion that is running: its root, its step, who asked
  tried   \* the records this start has already tried to continue

backupVars == <<del, tried>>

Registered(r) == registry[r].ino # 0

NoDeletion == [root |-> NoRoot, pc |-> "idle", asked |-> FALSE]

BackupTypeOK ==
  /\ del \in [root: Root \cup {NoRoot}, asked: BOOLEAN,
              pc: {"idle", "note", "move", "rename", "remove", "removing", "drop", "forget"}]
  /\ tried \subseteq Root
  /\ del.pc # "idle" => mode = "normal"
  /\ del.pc \notin {"idle", "forget"} => Registered(del.root)
  /\ \A r \in Root: Exists(grave[r]) => registry[r].del

BackupInit == del = NoDeletion /\ tried = {}

Deleting(pc) == del.pc = pc
DelGoto(pc) == del' = [del EXCEPT !.pc = pc]
DelReturn == del' = NoDeletion

DelGoesOn(next) ==
  \/ faults' = faults /\ DelGoto(next)
  \/ Throws /\ DelReturn

(* assertBackupIdentity of the tree at a place; a record without a marker  *)
(* asks for none.                                                          *)
HasIdentity(tree, backup) ==
  /\ Exists(tree)
  /\ tree.ino = backup.ino
  /\ backup.id # 0 => tree.id = backup.id

-----------------------------------------------------------------------------
(* deleteRetainedBackup, dismissRetainedBackups.                           *)

(* The checks before anything is written: not the active root, the root    *)
(* itself is there, and a deletion not yet noted has the right tree.       *)
MayBeDeleted(r) ==
  /\ r # booted.active
  /\ Exists(At(r))
  /\ registry[r].del \/ HasIdentity(At(r), registry[r])

DeleteBackup(r) ==
  /\ mode = "normal"
  /\ op.pc \in {"idle", "inspect", "schedule", "relaunch", "undo", "unfence",
                "relaunch again"}
  /\ Deleting("idle")
  /\ Registered(r) /\ MayBeDeleted(r)
  /\ del' = [root |-> r, asked |-> TRUE, pc |-> IF registry[r].del THEN "move" ELSE "note"]
  /\ UNCHANGED <<migrationVars, tried>>

(* The name to delete under is fresh.                                      *)
DeletionNotes_Skipped ==
  /\ Deleting("note")
  /\ DelGoto("move")
  /\ UNCHANGED <<migrationVars, tried>>
DeletionNotes ==
  /\ Deleting("note")
  /\ \/ registry' = [registry EXCEPT ![del.root].del = TRUE] /\ DelGoesOn("move")
     \/ registry' = registry /\ Throws /\ DelReturn
  /\ UNCHANGED <<dir, attached, staging, owned, pointer, pending, grave, adrift,
                 mode, booted, op, runtime, abandoned, trees, begun, crashes, tried>>

(* finishRequestedDeletion looks at both places before it acts.            *)
DeletionMoves ==
  /\ Deleting("move")
  /\ LET here == At(del.root)
         there == IF del.root \in attached THEN grave[del.root] ELSE NoTree
     IN IF Exists(here) /\ Exists(there) THEN DelReturn
        ELSE IF Exists(here)
          THEN IF del.root # booted.active /\ HasIdentity(here, registry[del.root])
                 THEN DelGoto("rename") ELSE DelReturn
        ELSE IF Exists(there) THEN DelGoto("remove")
        ELSE DelGoto("drop")
  /\ UNCHANGED <<migrationVars, tried>>

(* A database goes with its tree: no lease is left at the root.            *)
DeletionRenames ==
  /\ Deleting("rename")
  /\ \/ /\ Exists(At(del.root))
        /\ grave' = [grave EXCEPT ![del.root] = dir[del.root]]
        /\ dir' = [dir EXCEPT ![del.root] = NoTree]
        /\ runtime' = [runtime EXCEPT ![del.root] = NoRuntime]
        /\ DelGoto("remove")
        /\ UNCHANGED faults
     \/ UNCHANGED <<dir, grave, runtime>> /\ Throws /\ DelReturn
  /\ UNCHANGED <<attached, staging, owned, pointer, pending, registry, adrift,
                 mode, booted, op, abandoned, trees, begun, crashes, tried>>

(* The identity is checked again under the hidden name.                    *)
DeletionChecks_Trusts ==
  /\ Deleting("remove")
  /\ DelGoto("removing")
  /\ UNCHANGED <<migrationVars, tried>>
DeletionChecks ==
  /\ Deleting("remove")
  /\ IF HasIdentity(grave[del.root], registry[del.root])
       THEN DelGoto("removing") ELSE DelReturn
  /\ UNCHANGED <<migrationVars, tried>>

(* rm takes the entries in any order, the marker among them, and may end   *)
(* half way.                                                               *)
DeletionRemoves ==
  /\ Deleting("removing")
  /\ \/ /\ grave' = [grave EXCEPT ![del.root] = NoTree]
        /\ DelGoto("drop")
        /\ UNCHANGED faults
     \/ /\ \E id \in {0, grave[del.root].id}:
             grave' = [grave EXCEPT ![del.root].ver = Torn, ![del.root].id = id]
        /\ DelGoesOn("removing")
  /\ UNCHANGED <<dir, attached, staging, owned, pointer, pending, registry, adrift,
                 mode, booted, op, runtime, abandoned, trees, begun, crashes, tried>>

(* A tree whose volume is away counts as removed: its record goes, and it  *)
(* stays at its hidden name.                                               *)
DeletionDrops ==
  /\ Deleting("drop")
  /\ \/ /\ registry' = [registry EXCEPT ![del.root] = NoBackup]
        /\ grave' = [grave EXCEPT ![del.root] = NoTree]
        /\ adrift' = adrift \cup {tree \in {grave[del.root]}: Exists(tree)}
        /\ \/ faults' = faults /\ IF del.asked THEN DelGoto("forget") ELSE DelReturn
           \/ Throws /\ DelReturn
     \/ UNCHANGED <<registry, grave, adrift>> /\ Throws /\ DelReturn
  /\ UNCHANGED <<dir, attached, staging, owned, pointer, pending,
                 mode, booted, op, runtime, abandoned, trees, begun, crashes, tried>>

(* clearPreviousRootIfDeleted: the pointer forgets a previous root that is *)
(* no more.                                                                *)
WithoutPrevious == [booted.pointer EXCEPT !.prev = NoRoot, !.prevId = 0]

ClearPrevious(next, handler) ==
  \/ /\ pointer' = WithoutPrevious
     /\ booted' = [booted EXCEPT !.pointer = WithoutPrevious]
     /\ next /\ faults' = faults
  \/ pointer' \in {pointer, WithoutPrevious} /\ UNCHANGED booted /\ Throws /\ handler

DeletionForgets ==
  /\ Deleting("forget")
  /\ DelReturn
  /\ \/ /\ booted.pointer.prev = del.root
        /\ ClearPrevious(TRUE, TRUE)
     \/ /\ booted.pointer.prev # del.root
        /\ UNCHANGED <<pointer, booted, faults>>
  /\ UNCHANGED <<dir, attached, staging, owned, pending, registry, grave, adrift,
                 mode, op, runtime, abandoned, trees, begun, crashes, tried>>

DismissBackup(r) ==
  /\ mode = "normal"
  /\ op.pc \in {"idle", "inspect", "schedule", "relaunch", "undo", "unfence",
                "relaunch again"}
  /\ Deleting("idle")
  /\ Registered(r)
  /\ registry' = [registry EXCEPT ![r].prompt = FALSE]
  /\ UNCHANGED <<dir, attached, staging, owned, pointer, pending, grave, adrift,
                 mode, booted, op, runtime, abandoned, budgetVars, backupVars>>

-----------------------------------------------------------------------------
(* finalizeStartup of a normal start.                                      *)

Noted == {r \in Root: registry[r].del}

(* recoverRetainedDataRootDeletions: each noted deletion once; one that    *)
(* fails is left noted.                                                    *)
StartupRecovers ==
  /\ Running("recover")
  /\ Deleting("idle")
  /\ \/ \E r \in Noted \ tried:
          /\ tried' = tried \cup {r}
          /\ del' = IF r = booted.active THEN NoDeletion
                    ELSE [root |-> r, asked |-> FALSE, pc |-> "move"]
          /\ UNCHANGED op
     \/ /\ Noted \subseteq tried
        /\ Goto("previous")
        /\ UNCHANGED backupVars
  /\ UNCHANGED <<diskVars, mode, booted, runtime, abandoned, budgetVars>>

(* registerDiscoveredBackup: a root without a record gets one, a record    *)
(* that exists stays as it is; what fails here is ignored.                 *)
Discover_Refreshes(r, id) ==
  \/ /\ Exists(At(r)) /\ (id # 0 => At(r).id = id)
     /\ registry' = [registry EXCEPT ![r] = Captured(r)]
     /\ faults' = faults
  \/ ~(Exists(At(r)) /\ (id # 0 => At(r).id = id)) /\ UNCHANGED <<registry, faults>>
  \/ Throws /\ UNCHANGED registry
Discover(r, id) ==
  \/ /\ Exists(At(r)) /\ (id # 0 => At(r).id = id)
     /\ registry' = IF Registered(r) THEN registry
                    ELSE [registry EXCEPT ![r] = Captured(r)]
     /\ faults' = faults
  \/ ~(Exists(At(r)) /\ (id # 0 => At(r).id = id)) /\ UNCHANGED <<registry, faults>>
  \/ Throws /\ UNCHANGED registry

StartupDiscoversPrevious ==
  /\ Running("previous")
  /\ Goto("default")
  /\ IF booted.pointer.prev \notin {NoRoot, booted.active}
       THEN Discover(booted.pointer.prev, booted.pointer.prevId)
       ELSE UNCHANGED <<registry, faults>>
  /\ UNCHANGED <<dir, attached, staging, owned, pointer, pending, grave, adrift,
                 mode, booted, runtime, abandoned, trees, begun, crashes, backupVars>>

LooksLikeDataRoot(r) == Exists(At(r)) /\ At(r).ver # EmptyDir

StartupDiscoversDefault ==
  /\ Running("default")
  /\ Goto("forget")
  /\ IF Default # booted.active /\ LooksLikeDataRoot(Default)
       THEN Discover(Default, 0) ELSE UNCHANGED <<registry, faults>>
  /\ UNCHANGED <<dir, attached, staging, owned, pointer, pending, grave, adrift,
                 mode, booted, runtime, abandoned, trees, begun, crashes, backupVars>>

PreviousIsGone ==
  LET prev == booted.pointer.prev IN
  prev # NoRoot /\ ~Registered(prev) /\ ~Exists(At(prev))

StartupForgets ==
  /\ Running("forget")
  /\ Goto("finish")
  /\ IF PreviousIsGone THEN ClearPrevious(TRUE, TRUE)
     ELSE UNCHANGED <<pointer, booted, faults>>
  /\ UNCHANGED <<dir, attached, staging, owned, pending, registry, grave, adrift,
                 mode, runtime, abandoned, trees, begun, crashes, backupVars>>

(* A pending migration the pointer has committed is removed last; when     *)
(* that fails there is no window and the application quits.                *)
StartupFinishes ==
  /\ Running("finish")
  /\ tried' = {}
  /\ IF booted.pending.src = NoRoot
       THEN Return /\ UNCHANGED <<pending, mode, booted, faults>>
       ELSE \/ /\ pending' = NoPending
               /\ booted' = [booted EXCEPT !.pending = NoPending]
               /\ Return
               /\ UNCHANGED <<mode, faults>>
            \/ /\ pending' \in {pending, NoPending}
               /\ Throws
               /\ ProcessEnds
  /\ UNCHANGED <<dir, attached, staging, owned, pointer, registry, grave, adrift,
                 runtime, abandoned, trees, begun, crashes, del>>

DeletionSteps ==
  \/ \E r \in Root: DeleteBackup(r) \/ DismissBackup(r)
  \/ DeletionNotes \/ DeletionMoves \/ DeletionRenames \/ DeletionChecks
  \/ DeletionRemoves \/ DeletionDrops \/ DeletionForgets

StartupSteps ==
  \/ StartupRecovers \/ StartupDiscoversPrevious \/ StartupDiscoversDefault
  \/ StartupForgets \/ StartupFinishes

=============================================================================
