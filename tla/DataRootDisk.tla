---------------------------- MODULE DataRootDisk ----------------------------
(***************************************************************************)
(* What the desktop main process keeps on disk about its data root, and    *)
(* how a starting process reads it: the root directories, the location     *)
(* pointer, the pending migration, the registry of retained backups, and   *)
(* resolveDesktopDataRootBootMode.                                         *)
(*                                                                         *)
(* A directory tree is its device/inode identity, its ownership marker and *)
(* what it holds: a version of the user's data, or one of the constants    *)
(* below.  The names a root can be reached by are abstracted: members of   *)
(* Root are distinct, none contains another.  The control files are        *)
(* written by rename, so a reader sees the old or the new one.             *)
(***************************************************************************)
EXTENDS Integers, FiniteSets

CONSTANTS
  Root,     \* the locations a user may choose
  Default,  \* the location Electron gives the application
  NoRoot    \* not a location

ASSUME RootAssumption == Default \in Root /\ NoRoot \notin Root

EmptyDir == -1  \* a directory without entries
Torn     == -2  \* a copy that has not finished, or a tree half removed
Foreign  == -3  \* what somebody else put there

Tree == [ino: Nat, id: Nat, ver: Int]
NoTree == [ino |-> 0, id |-> 0, ver |-> EmptyDir]
Exists(tree) == tree.ino # 0

VARIABLES
  dir,       \* root -> the tree at that path
  attached,  \* the roots whose volume is present
  staging,   \* the staging tree beside the target of the pending migration
  owned,     \* the staging tree has the owner file of its migration
  pointer,   \* the location pointer file; root = NoRoot when there is none
  pending,   \* the pending migration file; src = NoRoot when there is none
  registry,  \* root -> its retained backup record; ino = 0 when there is none
  grave,     \* root -> the tree renamed to the deletion root of its record
  adrift     \* trees at hidden names that no control file mentions any more

diskVars == <<dir, attached, staging, owned, pointer, pending, registry,
              grave, adrift>>

Pointer == [root: Root \cup {NoRoot}, id: Nat,
            prev: Root \cup {NoRoot}, prevId: Nat]
Pending == [src: Root \cup {NoRoot}, srcId: Nat,
            tgt: Root \cup {NoRoot}, tgtId: Nat]
Backup == [ino: Nat, id: Nat, del: BOOLEAN, prompt: BOOLEAN]

NoPointer == [root |-> NoRoot, id |-> 0, prev |-> NoRoot, prevId |-> 0]
NoPending == [src |-> NoRoot, srcId |-> 0, tgt |-> NoRoot, tgtId |-> 0]
NoBackup == [ino |-> 0, id |-> 0, del |-> FALSE, prompt |-> FALSE]

DiskTypeOK ==
  /\ dir \in [Root -> Tree]
  /\ attached \subseteq Root
  /\ staging \in Tree
  /\ owned \in BOOLEAN
  /\ pointer \in Pointer
  /\ pending \in Pending
  /\ registry \in [Root -> Backup]
  /\ grave \in [Root -> Tree]
  /\ adrift \subseteq Tree

(* A root that holds data, no pointer yet: the application as it was       *)
(* installed and used.  The other locations are free or empty directories. *)
DiskInit ==
  /\ \E free \in SUBSET (Root \ {Default}):
       dir = [r \in Root |->
                IF r = Default THEN [ino |-> 1, id |-> 0, ver |-> 0]
                ELSE IF r \in free THEN NoTree
                ELSE [ino |-> 2, id |-> 0, ver |-> EmptyDir]]
  /\ attached = Root
  /\ staging = NoTree
  /\ owned = FALSE
  /\ pointer = NoPointer
  /\ pending = NoPending
  /\ registry = [r \in Root |-> NoBackup]
  /\ grave = [r \in Root |-> NoTree]
  /\ adrift = {}

(* What lstat and readDataRootMarkerSync find at a path.                   *)
At(r) == IF r \in attached THEN dir[r] ELSE NoTree

(* hasExpectedDataRootMarker together with the directory check.            *)
IsExpectedRoot(r, id) == Exists(At(r)) /\ (r = Default \/ At(r).id = id)

(* The pointer already names the tree this pending migration committed.    *)
PointerCommitted ==
  pending.tgtId # 0 /\ pointer.root = pending.tgt /\ pointer.id = pending.tgtId

ConfiguredRoot == IF pointer.root = NoRoot THEN Default ELSE pointer.root

BootIsMigrating == pending.src # NoRoot /\ ~PointerCommitted

(* The root whose data the next start uses or migrates.                    *)
Home == IF BootIsMigrating THEN pending.src ELSE ConfiguredRoot

(* resolveConfiguredRoot: a root without a pointer is taken as it is; one  *)
(* a pointer names is probed too (ProbeFails in DataRootMigration).        *)
BootIsNormal ==
  /\ ~BootIsMigrating
  /\ pointer.root # NoRoot => IsExpectedRoot(pointer.root, pointer.id)

=============================================================================
