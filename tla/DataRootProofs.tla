--------------------------- MODULE DataRootProofs ---------------------------
(***************************************************************************)
(* Moving the data root keeps the data: DataRoot implements DataHome.  The *)
(* invariant says of each phase of the journal (the pending file, the      *)
(* pointer, the announced id) which tree holds the data of which other,    *)
(* and who may still write.                                                *)
(***************************************************************************)
EXTENDS DataRoot, TLAPS

-----------------------------------------------------------------------------
(* Which steps change what.                                                *)

LEMMA Changes ==
  ASSUME [Next]_vars
  PROVE  /\ \/ dir' = dir
            \/ MigrationVacates \/ MigrationCommits \/ DeletionRenames
            \/ \E r \in Root : RuntimeWrites(r) \/ Replace(r)
         /\ \/ grave' = grave
            \/ MigrationRegisters \/ DeletionRenames \/ DeletionRemoves \/ DeletionDrops
         /\ \/ registry' = registry
            \/ MigrationRegisters \/ DeletionNotes \/ DeletionDrops
            \/ StartupDiscoversPrevious \/ StartupDiscoversDefault
            \/ \E r \in Root : DismissBackup(r)
         /\ \/ adrift' = adrift
            \/ BeginSchedules \/ MigrationRegisters \/ DeletionDrops
         /\ \/ pointer' = pointer
            \/ MigrationPoints \/ CancelPoints \/ RestoreChooses
            \/ DeletionForgets \/ StartupForgets
         /\ \/ pending' = pending
            \/ BeginSchedules \/ BeginUndoes \/ MigrationAnnounces \/ Settle \/ StartupFinishes
         /\ \/ attached' = attached
            \/ \E r \in Root : Detach(r) \/ Attach(r)
         /\ \/ <<staging, owned>>' = <<staging, owned>>
            \/ BeginSchedules \/ MigrationCleans \/ CancelCleans \/ MigrationStages
            \/ MigrationOwns \/ MigrationCopies \/ MigrationVerifies \/ MigrationMarks
            \/ MigrationCommits
         /\ \/ <<mode, booted>>' = <<mode, booted>>
            \/ Boot
            \/ ProcessEnds
            \/ MigrationAnnounces \/ DeletionForgets \/ StartupForgets \/ StartupFinishes
         /\ \/ runtime' = runtime
            \/ Crash \/ Quit \/ StartRuntime \/ MigrationScans \/ DeletionRenames
            \/ BeginInspects \/ BeginRelaunches \/ BeginUnfences \/ BeginRelaunchesAgain
            \/ \E r \in Root : \/ RuntimeStalls(r) \/ RuntimeResumes(r)
                              \/ BeginMigration(r) \/ Replace(r)
         /\ \/ abandoned' = abandoned
            \/ StartRuntime \/ RestoreChooses
<1>1. CASE Process \/ BeginSteps
  BY <1>1 DEF Process, BeginSteps, diskVars, budgetVars, Boot, BootsAs, ProbeFails, Crash, Quit, StartRuntime,
     RuntimeStalls, RuntimeResumes, RuntimeWrites, BeginMigration, BeginInspects,
     BeginSchedules, BeginRelaunches, RelaunchIsDone, RelaunchIsRefused, BeginUndoes,
     BeginUnfences, BeginRelaunchesAgain, Unfence
<1>2. CASE MigrationSteps
  BY <1>2 DEF MigrationSteps, ScanGoesOn, diskVars, budgetVars, RunMigration, MigrationStarts,
     MigrationCleans, MigrationScans, MigrationStages, MigrationOwns, MigrationCopies,
     MigrationVerifies, MigrationLosesTarget, MigrationMarks, MigrationAnnounces,
     MigrationRegisters, MigrationVacates, MigrationCommits, MigrationPoints, WritePointer,
     Settle, Restart, CancelMigration, CancelCleans, CancelPoints, RetryStartup,
     RestorePreviousRoot, RestoreChooses
<1>3. CASE DeletionSteps \/ StartupSteps
  BY <1>3 DEF DeletionSteps, StartupSteps, migrationVars, backupVars, diskVars, budgetVars,
     DeleteBackup, DismissBackup, DeletionNotes, DeletionMoves, DeletionRenames,
     DeletionChecks, DeletionRemoves, DeletionDrops, DeletionForgets, StartupRecovers,
     StartupDiscoversPrevious, StartupDiscoversDefault, StartupForgets, StartupFinishes
<1>4. CASE \E r \in Root : Detach(r) \/ Attach(r) \/ Replace(r)
  BY <1>4 DEF Detach, Attach, Replace, budgetVars
<1>5. CASE UNCHANGED vars
  BY <1>5 DEF vars, migrationVars, diskVars
<1> QED BY <1>1, <1>2, <1>3, <1>4, <1>5 DEF Next, ProcessStep

-----------------------------------------------------------------------------
(* Types.                                                                  *)

OpType == [pc : Step, tgt : Root \cup {NoRoot}, asked : BOOLEAN]
DelType == [root : Root \cup {NoRoot}, asked : BOOLEAN,
            pc : {"idle", "note", "move", "rename", "remove", "removing", "drop", "forget"}]
BootedType == [active : Root \cup {NoRoot}, pointer : Pointer, pending : Pending]

LEMMA StepNames ==
  \A s \in {"idle", "recover", "previous", "default", "forget", "finish", "inspect",
             "schedule", "relaunch", "undo", "unfence", "relaunch again", "start", "adopt",
             "clean", "scan", "stage", "own", "copy", "verify", "mark", "announce",
             "register", "vacate", "commit", "point", "clean up", "point back", "choose",
             "settle", "restart"} : s \in Step
BY DEF Step

(* The values op takes. *)
LEMMA OpValues ==
  ASSUME op \in OpType
  PROVE  /\ Idle \in OpType /\ [Idle EXCEPT !.pc = "recover"] \in OpType
         /\ \A s \in Step : [op EXCEPT !.pc = s] \in OpType
         /\ [op EXCEPT !.pc = "relaunch", !.asked = TRUE] \in OpType
         /\ \A tgt \in Root : [pc |-> "inspect", tgt |-> tgt, asked |-> FALSE] \in OpType
<1>1. "idle" \in Step /\ "recover" \in Step /\ "relaunch" \in Step /\ "inspect" \in Step
  BY StepNames
<1> QED BY <1>1 DEF OpType, Idle

LEMMA OpMoves ==
  ASSUME op \in OpType
  PROVE  /\ \A s \in Step : Goto(s) => op' \in OpType
         /\ \A s \in Step : GoesOn(s) => op' \in OpType
         /\ Return => op' \in OpType
         /\ Fails => op' \in OpType
BY OpValues DEF Goto, Return, GoesOn, Fails

LEMMA OpTyped ==
  ASSUME op \in OpType, [Next]_vars
  PROVE  op' \in OpType
<1> USE OpMoves, StepNames
<1>1. CASE Process
  BY <1>1, OpValues DEF Process, ProcessEnds, Boot, BootsAs, ProbeFails, Crash, Quit, StartRuntime,
     RuntimeStalls, RuntimeResumes, RuntimeWrites
<1>2. CASE BeginSteps
  <2>1. BeginRelaunches \/ BeginUndoes \/ BeginRelaunchesAgain => op' \in OpType
    BY DEF BeginRelaunches, BeginUndoes, BeginRelaunchesAgain, RelaunchIsDone, ProcessEnds
  <2>2. BeginInspects \/ BeginSchedules => op' \in OpType
    BY OpValues DEF BeginInspects, BeginSchedules
  <2>3. BeginUnfences => op' \in OpType
    BY OpValues DEF BeginUnfences
  <2>4. (\E tgt \in Root : BeginMigration(tgt)) => op' \in OpType
    BY OpValues DEF BeginMigration
  <2> QED BY <1>2, <2>1, <2>2, <2>3, <2>4 DEF BeginSteps
<1>3. CASE MigrationSteps
  <2>1. RunMigration \/ MigrationStarts \/ MigrationScans => op' \in OpType
    BY DEF RunMigration, MigrationStarts, MigrationScans, ScanGoesOn
  <2>2. MigrationCleans \/ CancelCleans => op' \in OpType
    BY DEF MigrationCleans, CancelCleans, CleanStaging
  <2>3. MigrationStages \/ MigrationOwns \/ MigrationCopies => op' \in OpType
    BY DEF MigrationStages, MigrationOwns, MigrationCopies
  <2>4. MigrationVerifies \/ MigrationLosesTarget \/ MigrationMarks => op' \in OpType
    BY DEF MigrationVerifies, MigrationLosesTarget, MigrationMarks
  <2>5. MigrationAnnounces \/ MigrationRegisters => op' \in OpType
    BY DEF MigrationAnnounces, MigrationRegisters, RegisterSource
  <2>6. MigrationVacates \/ MigrationCommits => op' \in OpType
    BY DEF MigrationVacates, MigrationCommits
  <2>7. MigrationPoints \/ CancelPoints \/ Settle => op' \in OpType
    BY DEF MigrationPoints, CancelPoints, WritePointer, Settle
  <2>8. Restart \/ CancelMigration \/ RetryStartup \/ RestorePreviousRoot => op' \in OpType
    BY DEF Restart, ProcessEnds, CancelMigration, RetryStartup, RestorePreviousRoot, AfterRecovery
  <2>9. RestoreChooses => op' \in OpType
    BY DEF RestoreChooses, WritePointer, AfterRecovery
  <2> QED BY <1>3, <2>1, <2>2, <2>3, <2>4, <2>5, <2>6, <2>7, <2>8, <2>9 DEF MigrationSteps
<1>4. CASE DeletionSteps
  BY <1>4 DEF DeletionSteps, migrationVars, DeleteBackup, DismissBackup, DeletionNotes,
     DeletionMoves, DeletionRenames, DeletionChecks, DeletionRemoves, DeletionDrops, DeletionForgets
<1>5. CASE StartupSteps
  BY <1>5 DEF StartupSteps, StartupRecovers, StartupDiscoversPrevious, StartupDiscoversDefault,
     StartupForgets, StartupFinishes, ProcessEnds
<1>6. CASE \E r \in Root : Detach(r) \/ Attach(r) \/ Replace(r)
  BY <1>6 DEF Detach, Attach, Replace
<1>7. CASE UNCHANGED vars
  BY <1>7 DEF vars, migrationVars
<1> QED BY <1>1, <1>2, <1>3, <1>4, <1>5, <1>6, <1>7 DEF Next, ProcessStep

(* The counters grow by one, or not. *)
LEMMA CountsTyped ==
  ASSUME trees \in Nat, begun \in Nat, crashes \in Nat, faults \in Nat,
         detached \in Nat, replaced \in Nat, [Next]_vars
  PROVE  /\ trees' \in Nat /\ begun' \in Nat /\ crashes' \in Nat /\ faults' \in Nat
         /\ detached' \in Nat /\ replaced' \in Nat
<1>1. Throws => faults' \in Nat
  BY DEF Throws
<1>2. trees + 1 \in Nat /\ begun + 1 \in Nat /\ crashes + 1 \in Nat /\ detached + 1 \in Nat
      /\ replaced + 1 \in Nat
  OBVIOUS
<1>3. CASE ProcessStep /\ UNCHANGED <<detached, replaced>>
  <2>1. CASE Process \/ BeginSteps
    BY <1>1, <1>2, <1>3, <2>1 DEF Process, BeginSteps, Boot, BootsAs, ProbeFails, Crash, Quit, StartRuntime,
       RuntimeStalls, RuntimeResumes, RuntimeWrites, BeginMigration, BeginInspects,
       BeginSchedules, BeginRelaunches, RelaunchIsDone, RelaunchIsRefused, BeginUndoes,
       BeginUnfences, BeginRelaunchesAgain, budgetVars
  <2>2. CASE MigrationSteps
    BY <1>1, <1>2, <1>3, <2>2 DEF MigrationSteps, RunMigration, MigrationStarts, CleanStaging,
       RegisterSource, MigrationCleans, MigrationScans, MigrationStages, MigrationOwns,
       MigrationCopies, MigrationVerifies, MigrationLosesTarget, MigrationMarks,
       MigrationAnnounces, MigrationRegisters, MigrationVacates, MigrationCommits,
       MigrationPoints, WritePointer, Settle, Restart, CancelMigration, CancelCleans,
       CancelPoints, RetryStartup, RestorePreviousRoot, RestoreChooses, GoesOn, Fails,
       budgetVars
  <2> QED BY <1>3, <2>1, <2>2 DEF ProcessStep
<1>4. CASE (DeletionSteps \/ StartupSteps) /\ UNCHANGED <<detached, replaced>>
  BY <1>1, <1>4 DEF DeletionSteps, StartupSteps, migrationVars, DelGoesOn, ClearPrevious,
     Discover, DeleteBackup, DismissBackup, DeletionNotes, DeletionMoves, DeletionRenames,
     DeletionChecks, DeletionRemoves, DeletionDrops, DeletionForgets, StartupRecovers,
     StartupDiscoversPrevious, StartupDiscoversDefault, StartupForgets, StartupFinishes,
     budgetVars
<1>5. CASE \E r \in Root : Detach(r) \/ Attach(r) \/ Replace(r)
  BY <1>2, <1>5 DEF Detach, Attach, Replace, budgetVars
<1>6. CASE UNCHANGED vars
  BY <1>6 DEF vars, migrationVars, budgetVars
<1> QED BY <1>3, <1>4, <1>5, <1>6 DEF Next

(* The values del takes. *)
LEMMA DelValues ==
  ASSUME del \in DelType
  PROVE  /\ NoDeletion \in DelType
         /\ \A s \in {"idle", "note", "move", "rename", "remove", "removing", "drop", "forget"} :
              [del EXCEPT !.pc = s] \in DelType
         /\ \A r \in Root, b \in BOOLEAN, s \in {"note", "move"} :
              [root |-> r, asked |-> b, pc |-> s] \in DelType
BY DEF DelType, NoDeletion

LEMMA DelTyped ==
  ASSUME del \in DelType, tried \subseteq Root, [Next]_vars
  PROVE  del' \in DelType /\ tried' \subseteq Root
<1> USE DelValues DEF DelGoto, DelReturn, DelGoesOn, backupVars
<1>1. CASE ProcessStep
  BY <1>1 DEF ProcessStep
<1>2. CASE DeletionSteps
  BY <1>2 DEF DeletionSteps, DeleteBackup, DismissBackup, DeletionNotes, DeletionMoves,
     DeletionRenames, DeletionChecks, DeletionRemoves, DeletionDrops, DeletionForgets
<1>3. CASE StartupSteps
  BY <1>3 DEF StartupSteps, StartupRecovers, StartupDiscoversPrevious,
     StartupDiscoversDefault, StartupForgets, StartupFinishes, Noted
<1>4. CASE \E r \in Root : Detach(r) \/ Attach(r) \/ Replace(r)
  BY <1>4 DEF Detach, Attach, Replace
<1>5. CASE UNCHANGED vars
  BY <1>5 DEF vars
<1> QED BY <1>1, <1>2, <1>3, <1>4, <1>5 DEF Next

Typed ==
  /\ MigrationTypeOK
  /\ del \in DelType /\ tried \subseteq Root
  /\ detached \in Nat /\ replaced \in Nat

LEMMA NoTreeTyped == NoTree \in Tree
BY DEF NoTree, Tree, EmptyDir

LEMMA AtTyped ==
  ASSUME DiskTypeOK, NEW r
  PROVE  At(r) \in Tree
BY NoTreeTyped DEF At, DiskTypeOK

LEMMA TreesTyped ==
  ASSUME Typed, del.pc # "idle" => del.root \in Root, [Next]_vars
  PROVE  dir' \in [Root -> Tree] /\ grave' \in [Root -> Tree] /\ adrift' \subseteq Tree
<1> USE NoTreeTyped DEF Typed, MigrationTypeOK, DiskTypeOK
<1>1. dir' \in [Root -> Tree]
  <2>1. CASE \E r \in Root : RuntimeWrites(r)
    <3>1. PICK r \in Root : RuntimeWrites(r)
      BY <2>1
    <3>2. [dir[r] EXCEPT !.ver = @ + 1] \in Tree
      BY DEF Tree
    <3> QED BY <3>1, <3>2 DEF RuntimeWrites
  <2>2. CASE MigrationVacates
    BY <2>2 DEF MigrationVacates
  <2>3. CASE MigrationCommits
    BY <2>3 DEF MigrationCommits
  <2>4. CASE DeletionRenames
    BY <2>4 DEF DeletionRenames
  <2>5. CASE \E r \in Root : Replace(r)
    <3>1. PICK r \in Root : Replace(r)
      BY <2>5
    <3>2. trees' \in Nat /\ dir[r].id \in Nat
      BY <3>1, CountsTyped DEF Tree
    <3>3. \A id \in {0, dir[r].id} : [ino |-> trees', id |-> id, ver |-> Foreign] \in Tree
      BY <3>2 DEF Tree, Foreign
    <3> QED BY <3>1, <3>3 DEF Replace
  <2> QED BY <2>1, <2>2, <2>3, <2>4, <2>5, Changes
<1>2. grave' \in [Root -> Tree]
  <2>1. CASE MigrationRegisters
    BY <2>1 DEF MigrationRegisters, RegisterSource
  <2>2. CASE DeletionRenames
    <3>1. del.root \in Root
      BY <2>2 DEF DeletionRenames, Deleting
    <3> QED BY <2>2, <3>1 DEF DeletionRenames
  <2>3. CASE DeletionRemoves
    <3>1. ASSUME NEW id \in {0, grave[del.root].id}, del.root \in Root,
                 grave' = [grave EXCEPT ![del.root].ver = Torn, ![del.root].id = id]
          PROVE  grave' \in [Root -> Tree]
      BY <3>1 DEF Tree, Torn
    <3>2. ASSUME NEW id, del.root \notin Root,
                 grave' = [grave EXCEPT ![del.root].ver = Torn, ![del.root].id = id]
          PROVE  grave' \in [Root -> Tree]
      BY <3>2
    <3> QED BY <2>3, <3>1, <3>2 DEF DeletionRemoves
  <2>4. CASE DeletionDrops
    BY <2>4 DEF DeletionDrops
  <2> QED BY <2>1, <2>2, <2>3, <2>4, Changes
<1>3. adrift' \subseteq Tree
  <2>1. CASE BeginSchedules
    BY <2>1 DEF BeginSchedules
  <2>2. CASE MigrationRegisters
    <3>1. Exists(At(Source)) => Source \in Root
      BY DEF Exists, At, NoTree
    <3> QED BY <2>2, <3>1 DEF MigrationRegisters, RegisterSource, SourceIsCaptured
  <2>3. CASE DeletionDrops
    BY <2>3 DEF DeletionDrops, Deleting
  <2> QED BY <2>1, <2>2, <2>3, Changes
<1> QED BY <1>1, <1>2, <1>3

LEMMA FilesTyped ==
  ASSUME Typed, [Next]_vars
  PROVE  registry' \in [Root -> Backup] /\ pointer' \in Pointer /\ pending' \in Pending
<1> USE DEF Typed, MigrationTypeOK, DiskTypeOK
<1>1. registry' \in [Root -> Backup]
  <2>1. ASSUME NEW r, Exists(At(r))  PROVE r \in Root /\ Captured(r) \in Backup
    <3>1. r \in Root /\ dir[r] \in Tree
      BY <2>1 DEF Exists, At, NoTree
    <3> QED BY <3>1 DEF Captured, Backup, Tree
  <2>2. CASE MigrationRegisters
    BY <2>1, <2>2 DEF MigrationRegisters, RegisterSource, SourceIsCaptured
  <2>3. CASE DeletionNotes
    <3>1. \A r \in Root : [registry[r] EXCEPT !.del = TRUE] \in Backup
      BY DEF Backup
    <3>2. [registry EXCEPT ![del.root].del = TRUE] \in [Root -> Backup]
      BY <3>1
    <3> QED BY <2>3, <3>2 DEF DeletionNotes
  <2>4. CASE DeletionDrops
    <3>1. NoBackup \in Backup
      BY DEF NoBackup, Backup
    <3>2. [registry EXCEPT ![del.root] = NoBackup] \in [Root -> Backup]
      BY <3>1
    <3> QED BY <2>4, <3>2 DEF DeletionDrops
  <2>5. CASE StartupDiscoversPrevious
    BY <2>1, <2>5 DEF StartupDiscoversPrevious, Discover
  <2>6. CASE StartupDiscoversDefault
    BY <2>1, <2>6 DEF StartupDiscoversDefault, Discover
  <2>7. CASE \E r \in Root : DismissBackup(r)
    <3>1. \A r \in Root : [registry[r] EXCEPT !.prompt = FALSE] \in Backup
      BY DEF Backup
    <3>2. PICK r \in Root : DismissBackup(r)
      BY <2>7
    <3>3. [registry EXCEPT ![r].prompt = FALSE] \in [Root -> Backup]
      BY <3>1
    <3> QED BY <3>2, <3>3 DEF DismissBackup
  <2> QED BY <2>2, <2>3, <2>4, <2>5, <2>6, <2>7, Changes
<1>2. pointer' \in Pointer
  <2>1. booted.pointer \in Pointer /\ booted.pending \in Pending
    OBVIOUS
  <2>2. CASE MigrationPoints
    BY <2>1, <2>2 DEF MigrationPoints, WritePointer, Source, Target, Pointer, Pending
  <2>3. CASE CancelPoints
    <3>1. [root |-> Source, id |-> booted.pending.srcId, prev |-> booted.pointer.prev,
           prevId |-> booted.pointer.prevId] \in Pointer
      BY <2>1 DEF Source, Pointer, Pending
    <3> QED BY <2>3, <3>1 DEF CancelPoints, WritePointer
  <2>4. CASE RestoreChooses
    BY <2>1, <2>4, RootAssumption DEF RestoreChooses, WritePointer, PreviousRoot, Pointer
  <2>5. WithoutPrevious \in Pointer
    BY <2>1 DEF WithoutPrevious, Pointer
  <2>6. CASE DeletionForgets
    BY <2>5, <2>6 DEF DeletionForgets, ClearPrevious
  <2>7. CASE StartupForgets
    BY <2>5, <2>7 DEF StartupForgets, ClearPrevious
  <2> QED BY <2>2, <2>3, <2>4, <2>6, <2>7, Changes
<1>3. pending' \in Pending
  <2>1. NoPending \in Pending
    BY DEF NoPending, Pending
  <2>2. CASE BeginSchedules
    <3>1. At(booted.active) \in Tree
      BY AtTyped
    <3>2. [src |-> booted.active, srcId |-> At(booted.active).id,
           tgt |-> op.tgt, tgtId |-> 0] \in Pending
      BY <3>1 DEF Pending, Tree
    <3> QED BY <2>2, <3>2 DEF BeginSchedules
  <2>3. CASE BeginUndoes
    BY <2>1, <2>3 DEF BeginUndoes
  <2>4. CASE MigrationAnnounces
    <3>1. [booted.pending EXCEPT !.tgtId = staging.id] \in Pending
      BY DEF Pending, Tree
    <3> QED BY <2>4, <3>1 DEF MigrationAnnounces
  <2>5. CASE Settle
    BY <2>1, <2>5 DEF Settle
  <2>6. CASE StartupFinishes
    BY <2>1, <2>6 DEF StartupFinishes
  <2> QED BY <2>2, <2>3, <2>4, <2>5, <2>6, Changes
<1> QED BY <1>1, <1>2, <1>3

LEMMA RestTyped ==
  ASSUME Typed, [Next]_vars
  PROVE  /\ attached' \subseteq Root /\ staging' \in Tree /\ owned' \in BOOLEAN
         /\ mode' \in Mode /\ booted' \in BootedType
         /\ runtime' \in [Root -> Runtime]
<1> USE DEF Typed, MigrationTypeOK, DiskTypeOK
<1>1. attached' \subseteq Root
  BY Changes DEF Detach, Attach
<1>2. staging' \in Tree
  <2>1. CASE BeginSchedules \/ MigrationCommits
    BY <2>1, NoTreeTyped DEF BeginSchedules, MigrationCommits
  <2>2. CASE MigrationCleans \/ CancelCleans
    <3>1. [staging EXCEPT !.ver = Torn] \in Tree
      BY DEF Tree, Torn
    <3> QED BY <2>2, <3>1, NoTreeTyped DEF MigrationCleans, CancelCleans, CleanStaging
  <2>3. CASE MigrationStages
    <3>1. trees' \in Nat
      BY CountsTyped
    <3>2. [ino |-> trees', id |-> 0, ver |-> EmptyDir] \in Tree
      BY <3>1 DEF Tree, EmptyDir
    <3> QED BY <2>3, <3>2 DEF MigrationStages
  <2>4. CASE MigrationCopies
    BY <2>4 DEF MigrationCopies, Tree, Torn
  <2>5. CASE MigrationVerifies
    <3>1. Source \in attached => [staging EXCEPT !.ver = dir[Source].ver] \in Tree
      BY DEF Tree
    <3> QED BY <2>5, <3>1 DEF MigrationVerifies
  <2>6. CASE MigrationMarks
    <3>1. [staging EXCEPT !.id = staging.ino] \in Tree
      BY DEF Tree
    <3> QED BY <2>6, <3>1 DEF MigrationMarks
  <2>7. CASE MigrationOwns
    BY <2>7 DEF MigrationOwns
  <2> QED BY <2>1, <2>2, <2>3, <2>4, <2>5, <2>6, <2>7, Changes
<1>3. owned' \in BOOLEAN
  BY Changes DEF BeginSchedules, MigrationCleans, CancelCleans, CleanStaging, MigrationStages,
     MigrationOwns, MigrationCopies, MigrationVerifies, MigrationMarks, MigrationCommits
<1>4. mode' \in Mode /\ booted' \in BootedType
  <2> USE DEF Mode, BootedType
  <2>1. NotBooted \in BootedType
    BY DEF NotBooted, NoPointer, NoPending, Pointer, Pending
  <2>2. CASE Boot
    <3>1. Home \in Root \cup {NoRoot}
      BY RootAssumption DEF Home, ConfiguredRoot, Pending, Pointer
    <3>2. mode' \in Mode
      BY <2>2 DEF Boot, BootsAs
    <3>3. booted' \in BootedType
      BY <2>2, <3>1 DEF Boot, BootsAs
    <3> QED BY <3>2, <3>3
  <2>3. CASE ProcessEnds
    BY <2>1, <2>3 DEF ProcessEnds
  <2>4. CASE MigrationAnnounces
    <3>1. [booted EXCEPT !.pending = [booted.pending EXCEPT !.tgtId = staging.id]] \in BootedType
      BY DEF Pending, Tree
    <3> QED BY <2>4, <3>1 DEF MigrationAnnounces
  <2>5. [booted EXCEPT !.pointer = WithoutPrevious] \in BootedType
    BY DEF WithoutPrevious, Pointer
  <2>6. CASE DeletionForgets
    BY <2>5, <2>6 DEF DeletionForgets, ClearPrevious
  <2>7. CASE StartupForgets
    BY <2>5, <2>7 DEF StartupForgets, ClearPrevious
  <2>8. CASE StartupFinishes
    <3>1. [booted EXCEPT !.pending = NoPending] \in BootedType
      BY DEF NoPending, Pending
    <3> QED BY <2>1, <2>8, <3>1 DEF StartupFinishes, ProcessEnds
  <2> QED BY <2>2, <2>3, <2>4, <2>6, <2>7, <2>8, Changes
<1>5. runtime' \in [Root -> Runtime]
  <2>1. /\ NoRuntime \in Runtime
        /\ [lease |-> "live", fenced |-> FALSE, hosted |-> TRUE] \in Runtime
        /\ \A r \in Root, b \in BOOLEAN : [runtime[r] EXCEPT !.fenced = b] \in Runtime
        /\ \A r \in Root : [runtime[r] EXCEPT !.hosted = FALSE] \in Runtime
        /\ \A r \in Root, l \in {"live", "stalled"} : [runtime[r] EXCEPT !.lease = l] \in Runtime
    BY DEF Runtime, NoRuntime
  <2>2. CASE Crash \/ Quit
    BY <2>1, <2>2 DEF Crash, Quit
  <2>3. ASSUME NEW x, NEW b \in BOOLEAN
        PROVE  [runtime EXCEPT ![x].fenced = b] \in [Root -> Runtime]
    BY <2>1
  <2>4. ASSUME NEW x, NEW l \in {"live", "stalled"}
        PROVE  [runtime EXCEPT ![x].lease = l] \in [Root -> Runtime]
    BY <2>1
  <2>5. ASSUME NEW x
        PROVE  [runtime EXCEPT ![x] = NoRuntime] \in [Root -> Runtime]
    BY <2>1
  <2>6. CASE StartRuntime
    BY <2>1, <2>6 DEF StartRuntime
  <2>7. CASE MigrationScans \/ DeletionRenames
    BY <2>5, <2>7 DEF MigrationScans, DeletionRenames
  <2>8. CASE BeginInspects \/ BeginUnfences
    <3>f. FALSE \in BOOLEAN
      OBVIOUS
    <3>g. [runtime EXCEPT ![booted.active].fenced = FALSE] \in [Root -> Runtime]
      BY <2>3, <3>f
    <3>1. Unfence => runtime' \in [Root -> Runtime]
      BY <3>g DEF Unfence
    <3>2. Unfence \/ runtime' = runtime
      BY <2>8 DEF BeginInspects, BeginUnfences
    <3> QED BY <3>1, <3>2
  <2>9. CASE BeginRelaunches \/ BeginRelaunchesAgain
    <3>1. RelaunchIsDone => runtime' \in [Root -> Runtime]
      BY <2>5 DEF RelaunchIsDone
    <3>2. "stalled" \in {"live", "stalled"}
      OBVIOUS
    <3>3. [runtime EXCEPT ![booted.active].lease = "stalled"] \in [Root -> Runtime]
      BY <2>4, <3>2
    <3>4. RelaunchIsRefused => runtime' \in [Root -> Runtime]
      BY <3>3 DEF RelaunchIsRefused
    <3> QED BY <2>9, <3>1, <3>4 DEF BeginRelaunches, BeginRelaunchesAgain
  <2>10. ASSUME NEW r \in Root,
                RuntimeStalls(r) \/ RuntimeResumes(r) \/ BeginMigration(r) \/ Replace(r)
         PROVE  runtime' \in [Root -> Runtime]
    <3>l. "stalled" \in {"live", "stalled"} /\ "live" \in {"live", "stalled"}
      OBVIOUS
    <3>s. [runtime EXCEPT ![r].lease = "stalled"] \in [Root -> Runtime]
      BY <2>4, <3>l
    <3>v. [runtime EXCEPT ![r].lease = "live"] \in [Root -> Runtime]
      BY <2>4, <3>l
    <3>1. RuntimeStalls(r) \/ RuntimeResumes(r) => runtime' \in [Root -> Runtime]
      BY <3>s, <3>v DEF RuntimeStalls, RuntimeResumes
    <3>f. TRUE \in BOOLEAN
      OBVIOUS
    <3>g. [runtime EXCEPT ![booted.active].fenced = TRUE] \in [Root -> Runtime]
      BY <2>3, <3>f
    <3>2. BeginMigration(r) => runtime' \in [Root -> Runtime]
      BY <3>g DEF BeginMigration
    <3>3. Replace(r) => runtime' \in [Root -> Runtime]
      BY <2>5 DEF Replace
    <3> QED BY <2>10, <3>1, <3>2, <3>3
  <2> QED BY <2>2, <2>6, <2>7, <2>8, <2>9, <2>10, Changes
<1> QED BY <1>1, <1>2, <1>3, <1>4, <1>5

LEMMA TypedStep ==
  ASSUME Typed, del.pc # "idle" => del.root \in Root,
         op.pc = "choose" => booted.pointer.root # NoRoot, [Next]_vars
  PROVE  Typed'
<1>1. op \in OpType
  BY DEF Typed, MigrationTypeOK, OpType
<1>2. op' \in OpType /\ del' \in DelType /\ tried' \subseteq Root
  BY <1>1, OpTyped, DelTyped DEF Typed
<1>3. /\ trees' \in Nat /\ begun' \in Nat /\ crashes' \in Nat /\ faults' \in Nat
      /\ detached' \in Nat /\ replaced' \in Nat
  BY CountsTyped DEF Typed, MigrationTypeOK
<1>4. abandoned' \subseteq Root
  <2>1. CASE RestoreChooses
    <3>1. booted.pointer.root \in Root
      BY <2>1 DEF RestoreChooses, Running, Typed, MigrationTypeOK, Pointer
    <3> QED BY <2>1, <3>1 DEF RestoreChooses, Typed, MigrationTypeOK
  <2>2. CASE StartRuntime
    BY <2>2 DEF StartRuntime, Typed, MigrationTypeOK
  <2> QED BY <2>1, <2>2, Changes DEF Typed, MigrationTypeOK
<1> QED
  BY <1>2, <1>3, <1>4, TreesTyped, FilesTyped, RestTyped
  DEF Typed, MigrationTypeOK, DiskTypeOK, OpType, BootedType

-----------------------------------------------------------------------------
(* The phases of the coordinator's methods.                                *)

StartupPhases == {"recover", "previous", "default", "forget", "finish"}
BeginPhases == {"inspect", "schedule", "relaunch", "undo", "unfence", "relaunch again"}
FreshPhases == {"stage", "own", "copy", "verify", "mark", "announce", "register", "vacate"}
MovePhases ==
  FreshPhases \cup {"idle", "start", "adopt", "clean", "scan", "commit", "point",
                    "clean up", "point back", "settle", "restart"}
RecoveryPhases == {"idle", "choose", "settle", "restart"}

-----------------------------------------------------------------------------
(* An absent tree is empty, an empty one has no marker, the default        *)
(* location is there, and when it exists it holds data.                    *)
TreesOK ==
  /\ Default \in attached
  /\ \A r \in Root :
       /\ dir[r].ino = 0 => dir[r].ver = EmptyDir
       /\ grave[r].ino = 0 => grave[r].ver = EmptyDir
       /\ dir[r].id # 0 => dir[r].ver # EmptyDir
       /\ r = Default /\ Exists(dir[r]) => dir[r].ver # EmptyDir
       /\ ~Registered(r) => ~registry[r].del

(* Only the default location may be named without the id of its tree.      *)
Identified(p) ==
  /\ p.root \notin {NoRoot, Default} => p.id # 0
  /\ p.prev \notin {NoRoot, Default} => p.prevId # 0

SameData(p) == dir[p.tgt].ver = dir[p.src].ver

(* What a move p, noted on disk or known to the process, may count on.     *)
MoveOK(p) ==
  p.src # NoRoot =>
    /\ p.tgt \in Root \ {p.src}
    /\ p.src # Default => p.srcId # 0
    /\ dir[p.src].ver # EmptyDir
    /\ ConfiguredRoot \in {p.src, p.tgt}
    /\ p.tgtId # 0 /\ dir[p.tgt].id = p.tgtId => SameData(p)
    /\ ConfiguredRoot = p.tgt =>
         /\ p.tgtId # 0
         /\ SameData(p)
         /\ pointer.prev = p.src
         /\ Registered(p.src) /\ ~registry[p.src].del /\ registry[p.src].prompt

Leased(r) == runtime[r].lease # "none"

(* The lease of a root is held only where there is data, on the configured *)
(* root or on one that was left in recovery, and at neither end of a move  *)
(* that has been announced.                                                *)
RuntimeOK ==
  \A r \in Root : Leased(r) =>
    /\ dir[r].ver # EmptyDir
    /\ r = ConfiguredRoot \/ r \in abandoned
    /\ pending.src # NoRoot /\ pending.tgtId # 0 => r \notin {pending.src, pending.tgt}

(* A normal process knows the pointer and the move that are on disk.  A    *)
(* move it found was committed, and goes before there is a window; one     *)
(* that it notes itself starts from its own root.                          *)
NormalOK ==
  mode = "normal" =>
    /\ op.pc \in StartupPhases \cup BeginPhases \cup {"idle"}
    /\ booted.active = ConfiguredRoot
    /\ pointer.root = booted.pointer.root /\ pointer.id = booted.pointer.id
    /\ pointer.root # NoRoot => IsExpectedRoot(pointer.root, pointer.id)
    /\ op.pc \in StartupPhases => pending = booted.pending
    /\ op.pc \in StartupPhases /\ pending.src # NoRoot =>
         ConfiguredRoot = pending.tgt /\ booted.pointer.prev = pending.src
    /\ op.pc \notin StartupPhases => booted.pending.src = NoRoot
    /\ op.pc \notin StartupPhases /\ pending.src # NoRoot =>
         /\ pending.tgtId = 0 /\ pending.src = booted.active
         /\ IsExpectedRoot(pending.src, pending.srcId)
    /\ op.pc \in BeginPhases => op.tgt \in Root \ {booted.active}

(* A deletion runs beside a window or while finalizeStartup looks for one, *)
(* on a noted record of a root that is not in use; what it removes is the  *)
(* tree of the record.                                                     *)
DeletionOK ==
  /\ del.pc # "idle" => mode = "normal"
  /\ del.pc \notin {"idle", "forget"} => Registered(del.root)
  /\ \A r \in Root : Exists(grave[r]) => registry[r].del
  /\ del.pc # "idle" => op.pc \in BeginPhases \cup {"idle", "recover"}
  /\ del.pc # "idle" => del.root \in Root \ {booted.active}
  /\ del.pc \notin {"idle", "note", "forget"} => registry[del.root].del
  /\ del.pc # "idle" /\ op.pc = "recover" => del.pc \notin {"note", "forget"} /\ ~del.asked
  /\ del.pc = "rename" => ~Exists(grave[del.root])
  /\ del.pc = "removing" => Exists(grave[del.root]) /\ grave[del.root].ino = registry[del.root].ino

(* A migrating process knows the move on disk, or has removed it.  Until   *)
(* the commit the target is empty; the staging tree is a copy of the       *)
(* source before its id is announced; nobody writes from there on, and the *)
(* source is registered before the target is touched.                      *)
MigratingOK ==
  mode = "migrating" =>
    /\ op.pc \in MovePhases
    /\ Source # NoRoot
    /\ pending.src # NoRoot =>
        /\ pending.src = Source /\ pending.tgt = Target /\ pending.srcId = booted.pending.srcId
        /\ booted.pending.tgtId # 0 => pending.tgtId # 0
    /\ booted.pending.tgtId # 0 => ~Leased(Source) /\ ~Leased(Target)
    /\ op.pc \in FreshPhases => ~Leased(Source) /\ dir[Target].ver = EmptyDir
    /\ op.pc \in {"own", "copy", "verify", "mark", "announce", "register", "vacate", "commit"} =>
         Exists(staging)
    /\ op.pc \in {"mark", "announce", "register", "vacate", "commit"} =>
         staging.ver = dir[Source].ver
    /\ op.pc = "announce" => staging.id # 0
    /\ op.pc \in {"register", "vacate", "commit"} =>
         /\ booted.pending.tgtId = staging.id
         /\ pending = booted.pending
         /\ pending.tgtId # 0
    /\ op.pc = "commit" => dir[Target].ver = EmptyDir
    /\ op.pc \in {"adopt", "point"} =>
         booted.pending.tgtId # 0 /\ dir[Target].id = booted.pending.tgtId
    /\ op.pc \in {"vacate", "commit", "point"} =>
         Registered(Source) /\ ~registry[Source].del /\ registry[Source].prompt

(* A process in recovery knows which root it could not open, and offers a  *)
(* previous root that holds data.                                          *)
RecoveryOK ==
  mode = "recovery" =>
    /\ op.pc \in RecoveryPhases
    /\ booted.pointer.root # NoRoot
    /\ ConfiguredRoot \in {booted.pointer.root, PreviousRoot}
    /\ pending.src # NoRoot => booted.pointer.prev = pending.src
    /\ op.pc = "choose" => dir[PreviousRoot].ver # EmptyDir

(* The inductive invariant.                                                *)
HomeInv ==
  /\ Typed
  /\ TreesOK
  /\ dir[ConfiguredRoot].ver # EmptyDir
  /\ Identified(pointer) /\ Identified(booted.pointer)
  /\ MoveOK(pending) /\ (mode = "migrating" => MoveOK(booted.pending))
  /\ (mode = "down" => op = Idle)
  /\ RuntimeOK
  /\ NormalOK
  /\ DeletionOK
  /\ MigratingOK
  /\ RecoveryOK


-----------------------------------------------------------------------------
(* What the control operators do to op and del.                            *)

LEMMA Moves ==
  ASSUME op \in OpType
  PROVE  /\ \A s : Goto(s) => op'.pc = s /\ op'.tgt = op.tgt
         /\ Return => op'.pc = "idle"
         /\ \A s : GoesOn(s) => op'.pc \in {s, "idle"}
         /\ Fails => op'.pc = "idle"
BY DEF OpType, Goto, Return, GoesOn, Fails, Idle

LEMMA DelMoves ==
  ASSUME del \in DelType
  PROVE  /\ \A s : DelGoto(s) => del'.pc = s /\ del'.root = del.root /\ del'.asked = del.asked
         /\ DelReturn => del'.pc = "idle"
         /\ \A s : DelGoesOn(s) =>
              \/ del'.pc = "idle"
              \/ del'.pc = s /\ del'.root = del.root /\ del'.asked = del.asked
BY DEF DelType, DelGoto, DelReturn, DelGoesOn, NoDeletion

LEMMA TypedOp ==
  ASSUME Typed
  PROVE  op \in OpType /\ del \in DelType
BY DEF Typed, MigrationTypeOK, OpType

-----------------------------------------------------------------------------
(* The trees.                                                              *)

(* The modes of the steps that touch the trees. *)
LEMMA InMove ==
  ASSUME HomeInv,
         op.pc \in MovePhases \ {"idle", "settle", "restart"}
  PROVE  /\ mode = "migrating" /\ MoveOK(booted.pending)
         /\ Source \in Root /\ Target \in Root \ {Source}
<1>1. mode \in {"down", "normal", "migrating", "recovery"}
  BY DEF HomeInv, Typed, MigrationTypeOK, Mode
<1>2. mode # "down"
  <2>1. op.pc # "idle"
    OBVIOUS
  <2> QED BY <2>1 DEF HomeInv, Idle
<1>3. mode # "normal"
  BY DEF HomeInv, NormalOK, MovePhases, FreshPhases, StartupPhases, BeginPhases
<1>4. mode # "recovery"
  BY DEF HomeInv, RecoveryOK, MovePhases, FreshPhases, RecoveryPhases
<1>5. mode = "migrating"
  BY <1>1, <1>2, <1>3, <1>4
<1>6. Source \in Root
  BY <1>5 DEF HomeInv, MigratingOK, Typed, MigrationTypeOK, Pending, Source
<1> QED BY <1>5, <1>6 DEF HomeInv, MigratingOK, MoveOK, Source, Target

LEMMA InNormal ==
  ASSUME HomeInv, op.pc \in StartupPhases \cup BeginPhases
  PROVE  mode = "normal"
<1>1. mode \in {"down", "normal", "migrating", "recovery"}
  BY DEF HomeInv, Typed, MigrationTypeOK, Mode
<1>2. op.pc # "idle"
  BY DEF StartupPhases, BeginPhases
<1>3. mode # "down"
  BY <1>2 DEF HomeInv, Idle
<1>4. mode # "migrating"
  BY DEF HomeInv, MigratingOK, MovePhases, FreshPhases, StartupPhases, BeginPhases
<1>5. mode # "recovery"
  BY DEF HomeInv, RecoveryOK, StartupPhases, BeginPhases, RecoveryPhases
<1> QED BY <1>1, <1>3, <1>4, <1>5

LEMMA InDeletion ==
  ASSUME HomeInv, del.pc # "idle"
  PROVE  /\ mode = "normal" /\ del.root \in Root \ {ConfiguredRoot}
         /\ booted.active = ConfiguredRoot
         /\ pending.src # NoRoot /\ del.pc = "note" => ConfiguredRoot = pending.src
         /\ pending.src # NoRoot /\ registry[del.root].del => del.root # pending.src
<1>1. mode = "normal" /\ del.root \in Root \ {booted.active} /\ booted.active = ConfiguredRoot
  BY DEF HomeInv, DeletionOK, NormalOK
<1>2. CASE op.pc = "recover"
  <2>1. op.pc \in StartupPhases
    BY <1>2 DEF StartupPhases
  <2>2. pending.src # NoRoot => ConfiguredRoot = pending.tgt /\ ~registry[pending.src].del
    BY <1>1, <2>1 DEF HomeInv, NormalOK, MoveOK
  <2>3. del.pc # "note"
    BY <1>2 DEF HomeInv, DeletionOK
  <2> QED BY <1>1, <2>2, <2>3
<1>3. CASE op.pc # "recover"
  <2>1. op.pc \notin StartupPhases
    BY <1>3 DEF HomeInv, DeletionOK, StartupPhases, BeginPhases
  <2> QED BY <1>1, <2>1 DEF HomeInv, NormalOK
<1> QED BY <1>2, <1>3

(* The contents of the configured root change only when a runtime writes. *)
LEMMA RootsKept ==
  ASSUME HomeInv, [Next]_vars
  PROVE  \/ dir' = dir
         \/ \E r \in Root : RuntimeWrites(r)
         \/ /\ MigrationVacates /\ Running("vacate")
            /\ Target # ConfiguredRoot /\ dir' = [dir EXCEPT ![Target] = NoTree]
         \/ /\ MigrationCommits /\ Running("commit")
            /\ Target # ConfiguredRoot /\ dir' = [dir EXCEPT ![Target] = staging]
         \/ /\ DeletionRenames
            /\ del.root \in Root \ {ConfiguredRoot} /\ dir' = [dir EXCEPT ![del.root] = NoTree]
         \/ \E r \in Root \ {ConfiguredRoot} :
              /\ Replace(r)
              /\ \E id \in {0, dir[r].id} :
                   dir' = [dir EXCEPT ![r] = [ino |-> trees', id |-> id, ver |-> Foreign]]
<1>1. CASE \E r \in Root : RuntimeWrites(r)
  BY <1>1
<1>2. CASE MigrationVacates
  <2>1. CASE Running("vacate") /\ dir' = [dir EXCEPT ![Target] = NoTree]
    <3>1. mode = "migrating" /\ dir[Target].ver = EmptyDir /\ dir[ConfiguredRoot].ver # EmptyDir
      BY <2>1, InMove DEF Running, MovePhases, FreshPhases, HomeInv, MigratingOK
    <3> QED BY <1>2, <2>1, <3>1
  <2> QED BY <1>2, <2>1 DEF MigrationVacates
<1>3. CASE MigrationCommits
  <2>1. CASE Running("commit") /\ dir' = [dir EXCEPT ![Target] = staging]
    <3>1. mode = "migrating" /\ dir[Target].ver = EmptyDir /\ dir[ConfiguredRoot].ver # EmptyDir
      BY <2>1, InMove DEF Running, MovePhases, FreshPhases, HomeInv, MigratingOK
    <3> QED BY <1>3, <2>1, <3>1
  <2> QED BY <1>3, <2>1 DEF MigrationCommits
<1>4. CASE DeletionRenames
  BY <1>4, InDeletion DEF DeletionRenames, Deleting
<1>5. CASE \E r \in Root : Replace(r)
  <2>1. PICK r \in Root : Replace(r)
    BY <1>5
  <2>2. r # ConfiguredRoot
    <3>1. CASE pending.src = NoRoot
      BY <2>1, <3>1 DEF Replace, Home, BootIsMigrating
    <3>2. CASE pending.src # NoRoot
      BY <2>1, <3>2 DEF Replace, HomeInv, MoveOK
    <3> QED BY <3>1, <3>2
  <2> QED BY <2>1, <2>2 DEF Replace
<1> QED BY <1>1, <1>2, <1>3, <1>4, <1>5, Changes

(* A write of a runtime leaves the tree where it is, and no other changes. *)
LEMMA Written ==
  ASSUME HomeInv, NEW w \in Root, RuntimeWrites(w), NEW r \in Root
  PROVE  /\ dir'[r].ino = dir[r].ino /\ dir'[r].id = dir[r].id
         /\ r # w => dir'[r] = dir[r]
         /\ r = w => dir'[r].ver = dir[r].ver + 1 /\ dir[r].ver \in 0 .. MaxVersion - 1
         /\ dir[r].ver # EmptyDir => dir'[r].ver # EmptyDir
         /\ Leased(w)
<1>1. dir \in [Root -> Tree]
  BY DEF HomeInv, Typed, MigrationTypeOK, DiskTypeOK
<1>2. dir' = [dir EXCEPT ![w] = [dir[w] EXCEPT !.ver = @ + 1]]
      /\ dir[w].ver \in 0 .. MaxVersion - 1
  BY DEF RuntimeWrites
<1>3. dir'[w] = [dir[w] EXCEPT !.ver = @ + 1] /\ dir[w] \in Tree
  BY <1>1, <1>2
<1>4. dir'[w].ver = dir[w].ver + 1 /\ dir'[w].ino = dir[w].ino /\ dir'[w].id = dir[w].id
  BY <1>3 DEF Tree
<1>5. r # w => dir'[r] = dir[r]
  BY <1>1, <1>2
<1>6. dir'[w].ver # EmptyDir
  BY <1>2, <1>4, BoundAssumption DEF EmptyDir
<1>7. Leased(w)
  BY DEF RuntimeWrites, Leased
<1> QED BY <1>2, <1>4, <1>5, <1>6, <1>7

LEMMA DataStep ==
  ASSUME HomeInv, [Next]_vars
  PROVE  dir'[ConfiguredRoot].ver # EmptyDir
<1>1. ConfiguredRoot \in Root
  BY RootAssumption DEF ConfiguredRoot, HomeInv, Typed, MigrationTypeOK, DiskTypeOK, Pointer
<1>2. dir \in [Root -> Tree] /\ dir[ConfiguredRoot].ver # EmptyDir
  BY DEF HomeInv, Typed, MigrationTypeOK, DiskTypeOK
<1>3. CASE \E r \in Root : RuntimeWrites(r)
  BY <1>1, <1>2, <1>3, Written
<1> QED BY <1>1, <1>2, <1>3, RootsKept

LEMMA TreesStep ==
  ASSUME HomeInv, [Next]_vars
  PROVE  TreesOK'
<1> SUFFICES ASSUME NEW r \in Root
             PROVE  /\ Default \in attached'
                    /\ dir'[r].ino = 0 => dir'[r].ver = EmptyDir
                    /\ grave'[r].ino = 0 => grave'[r].ver = EmptyDir
                    /\ dir'[r].id # 0 => dir'[r].ver # EmptyDir
                    /\ r = Default /\ Exists(dir'[r]) => dir'[r].ver # EmptyDir
                    /\ registry'[r].ino = 0 => ~registry'[r].del
  BY RootAssumption DEF TreesOK, Registered, Exists
<1> USE DEF HomeInv
<1>a. Default \in attached'
  BY Changes, RootAssumption DEF Detach, Attach, TreesOK
<1>t. /\ dir \in [Root -> Tree] /\ grave \in [Root -> Tree] /\ registry \in [Root -> Backup]
  BY DEF Typed, MigrationTypeOK, DiskTypeOK
<1>0. /\ dir[r].ino = 0 => dir[r].ver = EmptyDir
      /\ grave[r].ino = 0 => grave[r].ver = EmptyDir
      /\ dir[r].id # 0 => dir[r].ver # EmptyDir
      /\ r = Default /\ Exists(dir[r]) => dir[r].ver # EmptyDir
      /\ registry[r].ino = 0 => ~registry[r].del
  BY DEF TreesOK, Registered
<1>1. /\ dir'[r].ino = 0 => dir'[r].ver = EmptyDir
      /\ dir'[r].id # 0 => dir'[r].ver # EmptyDir
      /\ r = Default /\ Exists(dir'[r]) => dir'[r].ver # EmptyDir
  <2>1. ASSUME NEW w \in Root, RuntimeWrites(w)
        PROVE  /\ dir'[r].ino = 0 => dir'[r].ver = EmptyDir
               /\ dir'[r].id # 0 => dir'[r].ver # EmptyDir
               /\ r = Default /\ Exists(dir'[r]) => dir'[r].ver # EmptyDir
    <3>1. /\ dir'[r].ino = dir[r].ino /\ dir'[r].id = dir[r].id
          /\ r # w => dir'[r] = dir[r]
          /\ r = w => dir'[r].ver = dir[r].ver + 1 /\ dir[r].ver \in 0 .. MaxVersion - 1
          /\ dir[r].ver # EmptyDir => dir'[r].ver # EmptyDir
      BY <2>1, Written
    <3>2. r = w => dir[r].ver # EmptyDir
      BY <3>1, BoundAssumption DEF EmptyDir
    <3> QED BY <1>0, <3>1, <3>2 DEF Exists
  <2>2. CASE Running("vacate") /\ dir' = [dir EXCEPT ![Target] = NoTree]
    BY <1>t, <1>0, <2>2 DEF NoTree, Exists
  <2>3. CASE Running("commit") /\ dir' = [dir EXCEPT ![Target] = staging]
    <3>1. Exists(staging) /\ staging.ver = dir[Source].ver /\ dir[Source].ver # EmptyDir
      BY <2>3, InMove DEF Running, MovePhases, FreshPhases, MigratingOK, MoveOK, Source
    <3> QED BY <1>t, <1>0, <2>3, <3>1 DEF Exists
  <2>4. CASE dir' = [dir EXCEPT ![del.root] = NoTree]
    BY <1>t, <1>0, <2>4 DEF NoTree, Exists
  <2>5. ASSUME NEW x \in Root, Replace(x)
        PROVE  /\ dir'[r].ino = 0 => dir'[r].ver = EmptyDir
               /\ dir'[r].id # 0 => dir'[r].ver # EmptyDir
               /\ r = Default /\ Exists(dir'[r]) => dir'[r].ver # EmptyDir
    <3>1. PICK id \in {0, dir[x].id} :
                dir' = [dir EXCEPT ![x] = [ino |-> trees', id |-> id, ver |-> Foreign]]
      BY <2>5 DEF Replace
    <3>2. trees' # 0
      BY <2>5 DEF Replace, Typed, MigrationTypeOK
    <3> QED BY <1>t, <1>0, <3>1, <3>2 DEF Foreign, EmptyDir
  <2> QED BY <1>0, <2>1, <2>2, <2>3, <2>4, <2>5, RootsKept
<1>2. grave'[r].ino = 0 => grave'[r].ver = EmptyDir
  <2>1. CASE MigrationRegisters
    BY <1>t, <1>0, <2>1 DEF MigrationRegisters, RegisterSource, NoTree
  <2>2. CASE DeletionRenames
    <3>1. del.root \in Root
      BY <2>2, InDeletion DEF DeletionRenames, Deleting
    <3>2. dir[del.root].ino = 0 => dir[del.root].ver = EmptyDir
      BY <3>1 DEF TreesOK
    <3> QED BY <1>t, <1>0, <2>2, <3>1, <3>2 DEF DeletionRenames
  <2>3. CASE DeletionRemoves
    <3>1. del.root \in Root /\ grave[del.root].ino # 0
      BY <2>3, InDeletion DEF DeletionRemoves, Deleting, DeletionOK, Exists
    <3>2. CASE grave' = [grave EXCEPT ![del.root] = NoTree]
      BY <1>t, <1>0, <3>2 DEF NoTree
    <3>3. ASSUME NEW id \in {0, grave[del.root].id},
                 grave' = [grave EXCEPT ![del.root].ver = Torn, ![del.root].id = id]
          PROVE  grave'[r].ino = 0 => grave'[r].ver = EmptyDir
      <4>1. CASE r = del.root
        <5>1. grave'[r].ino = grave[r].ino
          BY <1>t, <3>1, <3>3, <4>1 DEF Tree
        <5> QED BY <3>1, <4>1, <5>1
      <4>2. CASE r # del.root
        BY <1>t, <1>0, <3>1, <3>3, <4>2
      <4> QED BY <4>1, <4>2
    <3> QED BY <2>3, <3>2, <3>3 DEF DeletionRemoves
  <2>4. CASE DeletionDrops
    BY <1>t, <1>0, <2>4 DEF DeletionDrops, NoTree
  <2> QED BY <1>0, <2>1, <2>2, <2>3, <2>4, Changes
<1>3. registry'[r].ino = 0 => ~registry'[r].del
  <2>1. \A x \in Root : Captured(x).del = FALSE
    BY DEF Captured
  <2>2. CASE MigrationRegisters
    BY <1>t, <1>0, <2>2 DEF MigrationRegisters, RegisterSource, Captured
  <2>3. CASE DeletionNotes
    <3>1. del.root \in Root /\ registry[del.root].ino # 0
      BY <2>3, InDeletion DEF DeletionNotes, Deleting, DeletionOK, Registered
    <3>2. CASE registry' = [registry EXCEPT ![del.root].del = TRUE]
      BY <1>t, <1>0, <3>1, <3>2 DEF Backup
    <3> QED BY <1>0, <2>3, <3>2 DEF DeletionNotes
  <2>4. CASE DeletionDrops
    BY <1>t, <1>0, <2>4 DEF DeletionDrops, NoBackup
  <2>5. CASE StartupDiscoversPrevious
    BY <1>t, <1>0, <2>5 DEF StartupDiscoversPrevious, Discover, Captured
  <2>6. CASE StartupDiscoversDefault
    BY <1>t, <1>0, <2>6 DEF StartupDiscoversDefault, Discover, Captured
  <2>7. ASSUME NEW x \in Root, DismissBackup(x)
        PROVE  registry'[r].ino = 0 => ~registry'[r].del
    BY <1>t, <1>0, <2>7 DEF DismissBackup, Backup
  <2> QED BY <1>0, <2>2, <2>3, <2>4, <2>5, <2>6, <2>7, Changes
<1> QED BY <1>a, <1>1, <1>2, <1>3

-----------------------------------------------------------------------------
(* The pointer, and what it is followed by.                                *)

LEMMA ConfiguredTyped ==
  ASSUME Typed
  PROVE  ConfiguredRoot \in Root
BY RootAssumption DEF ConfiguredRoot, Typed, MigrationTypeOK, DiskTypeOK, Pointer

(* Only a move, its cancellation and a repair turn the pointer to another  *)
(* root, and the first two to one that holds the same data.                *)
LEMMA PointerStep ==
  ASSUME HomeInv, [Next]_vars
  PROVE  \/ pointer' = pointer
         \/ /\ mode = "normal" /\ dir' = dir /\ registry' = registry
            /\ pointer' = [pointer EXCEPT !.prev = NoRoot, !.prevId = 0]
            /\ DeletionForgets \/ StartupForgets
         \/ /\ mode = "migrating" /\ Running("point") /\ dir' = dir /\ registry' = registry
            /\ pointer' = [root |-> Target, id     |-> booted.pending.tgtId,
                           prev |-> Source, prevId |-> booted.pending.srcId]
         \/ /\ mode = "migrating" /\ Running("point back") /\ dir' = dir /\ registry' = registry
            /\ pointer' = [root |-> Source, id     |-> booted.pending.srcId,
                           prev |-> booted.pointer.prev, prevId |-> booted.pointer.prevId]
         \/ /\ mode = "recovery" /\ Running("choose") /\ dir' = dir /\ registry' = registry
            /\ pointer' = [root   |-> PreviousRoot,
                           id     |-> IF PreviousRoot = Default THEN 0 ELSE booted.pointer.prevId,
                           prev   |-> booted.pointer.root,
                           prevId |-> booted.pointer.id]
<1>1. CASE MigrationPoints
  <2>1. Running("point")
    BY <1>1 DEF MigrationPoints
  <2>2. mode = "migrating"
    BY <2>1, InMove DEF Running, MovePhases
  <2> QED BY <1>1, <2>1, <2>2 DEF MigrationPoints, WritePointer
<1>2. CASE CancelPoints
  <2>1. Running("point back")
    BY <1>2 DEF CancelPoints
  <2>2. mode = "migrating"
    BY <2>1, InMove DEF Running, MovePhases
  <2> QED BY <1>2, <2>1, <2>2 DEF CancelPoints, WritePointer
<1>3. CASE RestoreChooses
  <2>1. Running("choose")
    BY <1>3 DEF RestoreChooses
  <2>2. mode = "recovery"
    BY <2>1 DEF Running, HomeInv, NormalOK, MigratingOK, MovePhases, FreshPhases, StartupPhases,
       BeginPhases, Idle, Typed, MigrationTypeOK, Mode
  <2> QED BY <1>3, <2>1, <2>2 DEF RestoreChooses, WritePointer
<1>4. ASSUME mode = "normal"
      PROVE  WithoutPrevious = [pointer EXCEPT !.prev = NoRoot, !.prevId = 0]
  BY <1>4 DEF WithoutPrevious, HomeInv, NormalOK, Typed, MigrationTypeOK, DiskTypeOK, Pointer
<1>5. CASE DeletionForgets
  <2>1. mode = "normal"
    BY <1>5, InDeletion DEF DeletionForgets, Deleting
  <2> QED BY <1>4, <1>5, <2>1 DEF DeletionForgets, ClearPrevious
<1>6. CASE StartupForgets
  <2>1. mode = "normal"
    BY <1>6, InNormal DEF StartupForgets, Running, StartupPhases
  <2> QED BY <1>4, <1>6, <2>1 DEF StartupForgets, ClearPrevious
<1> QED BY <1>1, <1>2, <1>3, <1>5, <1>6, Changes

LEMMA SourceOfMove ==
  ASSUME HomeInv, mode = "migrating"
  PROVE  /\ Source \in Root /\ Target \in Root \ {Source} /\ ConfiguredRoot \in {Source, Target}
         /\ Source # Default => booted.pending.srcId # 0
         /\ dir[Source].ver # EmptyDir
         /\ booted.pending.tgtId # 0 /\ dir[Target].id = booted.pending.tgtId =>
              dir[Target].ver = dir[Source].ver
         /\ ConfiguredRoot = Target => booted.pending.tgtId # 0 /\ dir[Target].ver = dir[Source].ver
<1>1. Source # NoRoot /\ MoveOK(booted.pending)
  BY DEF HomeInv, MigratingOK
<1>2. Source \in Root
  BY <1>1 DEF HomeInv, Typed, MigrationTypeOK, Pending, Source
<1> QED BY <1>1, <1>2 DEF MoveOK, SameData, Source, Target

(* The root that is configured next holds what the present one holds, but  *)
(* for a repair. *)
LEMMA ConfiguredStep ==
  ASSUME HomeInv, [Next]_vars
  PROVE  /\ (dir[ConfiguredRoot].ver # EmptyDir)'
         /\ mode = "recovery" \/ dir'[ConfiguredRoot'].ver = dir'[ConfiguredRoot].ver
<1>1. ConfiguredRoot \in Root
  BY ConfiguredTyped DEF HomeInv
<1>2. dir'[ConfiguredRoot].ver # EmptyDir
  BY DataStep
<1>3. CASE pointer'.root = pointer.root
  BY <1>2, <1>3 DEF ConfiguredRoot
<1>4. CASE pointer' = [pointer EXCEPT !.prev = NoRoot, !.prevId = 0]
  <2>1. pointer'.root = pointer.root
    BY <1>4 DEF HomeInv, Typed, MigrationTypeOK, DiskTypeOK, Pointer
  <2> QED BY <2>1, <1>3
<1>5. CASE mode = "migrating" /\ dir' = dir /\ pointer'.root = Source
  <2>1. ConfiguredRoot' = Source
    BY <1>5, SourceOfMove, RootAssumption DEF ConfiguredRoot
  <2> QED BY <1>2, <1>5, <2>1, SourceOfMove
<1>6. CASE mode = "migrating" /\ dir' = dir /\ Running("point") /\ pointer'.root = Target
  <2>1. ConfiguredRoot' = Target
    BY <1>6, SourceOfMove, RootAssumption DEF ConfiguredRoot
  <2>2. dir[Target].ver = dir[Source].ver
    BY <1>6, SourceOfMove DEF Running, HomeInv, MigratingOK
  <2> QED BY <1>2, <1>6, <2>1, <2>2, SourceOfMove
<1>7. CASE mode = "recovery" /\ dir' = dir /\ Running("choose") /\ pointer'.root = PreviousRoot
  <2>1. PreviousRoot # NoRoot
    BY RootAssumption DEF PreviousRoot
  <2>2. ConfiguredRoot' = PreviousRoot
    BY <1>7, <2>1 DEF ConfiguredRoot
  <2>3. dir[PreviousRoot].ver # EmptyDir
    BY <1>7 DEF Running, HomeInv, RecoveryOK
  <2> QED BY <1>7, <2>2, <2>3
<1>8. \A a, b, c, d : pointer' = [root |-> a, id |-> b, prev |-> c, prevId |-> d] =>
        pointer'.root = a
  OBVIOUS
<1> QED BY <1>3, <1>4, <1>5, <1>6, <1>7, <1>8, PointerStep

LEMMA IdentifiedStep ==
  ASSUME HomeInv, [Next]_vars
  PROVE  Identified(pointer)' /\ Identified(booted.pointer)'
<1>t. pointer \in Pointer /\ booted \in BootedType
  BY DEF HomeInv, Typed, MigrationTypeOK, DiskTypeOK, BootedType
<1>0. Identified(pointer) /\ Identified(booted.pointer)
  BY DEF HomeInv
<1>1. Identified(WithoutPrevious)
  BY <1>t, <1>0 DEF Identified, WithoutPrevious, BootedType, Pointer
<1>2. Identified(pointer)'
  <2>1. CASE pointer' = [pointer EXCEPT !.prev = NoRoot, !.prevId = 0]
    BY <1>t, <1>0, <2>1 DEF Identified, Pointer
  <2>2. CASE /\ mode = "migrating" /\ Running("point")
             /\ pointer' = [root |-> Target, id     |-> booted.pending.tgtId,
                            prev |-> Source, prevId |-> booted.pending.srcId]
    <3>1. booted.pending.tgtId # 0 /\ (Source # Default => booted.pending.srcId # 0)
      BY <2>2, SourceOfMove DEF Running, HomeInv, MigratingOK
    <3> QED BY <2>2, <3>1 DEF Identified
  <2>3. CASE /\ mode = "migrating"
             /\ pointer' = [root |-> Source, id     |-> booted.pending.srcId,
                            prev |-> booted.pointer.prev, prevId |-> booted.pointer.prevId]
    BY <1>0, <2>3, SourceOfMove DEF Identified
  <2>4. CASE pointer' = [root   |-> PreviousRoot,
                         id     |-> IF PreviousRoot = Default THEN 0 ELSE booted.pointer.prevId,
                         prev   |-> booted.pointer.root,
                         prevId |-> booted.pointer.id]
    BY <1>0, <2>4 DEF Identified, PreviousRoot
  <2>5. CASE pointer' = pointer
    BY <1>0, <2>5 DEF Identified
  <2> QED BY <2>1, <2>2, <2>3, <2>4, <2>5, PointerStep
<1>3. Identified(booted.pointer)'
  <2>1. CASE Boot
    <3>1. booted'.pointer = pointer
      BY <2>1 DEF Boot, BootsAs
    <3> QED BY <1>0, <3>1 DEF Identified
  <2>2. CASE booted' = NotBooted
    BY <2>2 DEF NotBooted, NoPointer, Identified
  <2>3. CASE booted'.pointer = WithoutPrevious
    BY <1>1, <2>3 DEF Identified
  <2>4. CASE booted'.pointer = booted.pointer
    BY <1>0, <2>4 DEF Identified
  <2>5. ASSUME NEW x, booted' = [booted EXCEPT !.pending = x]
        PROVE  booted'.pointer = booted.pointer
    BY <1>t, <2>5 DEF BootedType
  <2>6. CASE booted' = [booted EXCEPT !.pointer = WithoutPrevious]
    <3>1. booted'.pointer = WithoutPrevious
      BY <1>t, <2>6 DEF BootedType
    <3> QED BY <2>3, <3>1
  <2> QED BY <2>1, <2>2, <2>4, <2>5, <2>6, Changes
      DEF ProcessEnds, MigrationAnnounces, DeletionForgets, StartupForgets, StartupFinishes,
          ClearPrevious
<1> QED BY <1>2, <1>3

-----------------------------------------------------------------------------
(* A move under way.                                                       *)

(* A move the invariant speaks of, while it stays the same. *)
Noticed(p) == p = pending \/ (mode = "migrating" /\ p = booted.pending)

LEMMA NoticedMoves ==
  ASSUME HomeInv, NEW p, Noticed(p), p.src # NoRoot
  PROVE  /\ MoveOK(p) /\ p.src \in Root /\ p.tgt \in Root
         /\ mode = "migrating" => p.src = Source /\ p.tgt = Target
         /\ p.tgtId # 0 => ~Leased(p.src) /\ ~Leased(p.tgt)
         /\ mode # "migrating" => p = pending
<1>1. MoveOK(p)
  BY DEF Noticed, HomeInv
<1>2. p \in Pending
  BY DEF Noticed, HomeInv, Typed, MigrationTypeOK, DiskTypeOK
<1>3. mode = "migrating" => p.src = Source /\ p.tgt = Target
  BY DEF Noticed, HomeInv, MigratingOK, Source, Target
<1>4. p.src \in Root /\ p.tgt \in Root
  BY <1>1, <1>2 DEF MoveOK, Pending
<1>5. p.tgtId # 0 => ~Leased(p.src) /\ ~Leased(p.tgt)
  <2>1. CASE p = pending
    BY <1>4, <2>1 DEF HomeInv, RuntimeOK
  <2>2. CASE mode = "migrating" /\ p = booted.pending
    BY <1>3, <2>2 DEF HomeInv, MigratingOK
  <2> QED BY <2>1, <2>2 DEF Noticed
<1> QED BY <1>1, <1>3, <1>4, <1>5 DEF Noticed

(* What becomes of the two trees of a move. *)
LEMMA MoveTrees ==
  ASSUME HomeInv, [Next]_vars, NEW p, Noticed(p), p.src # NoRoot
  PROVE  /\ dir'[p.src].ver # EmptyDir
         /\ p.tgtId # 0 /\ dir'[p.tgt].id = p.tgtId => dir'[p.tgt].ver = dir'[p.src].ver
         /\ ConfiguredRoot = p.tgt => dir'[p.tgt].ver = dir'[p.src].ver
<1>1. /\ MoveOK(p) /\ p.src \in Root /\ p.tgt \in Root
      /\ mode = "migrating" => p.src = Source /\ p.tgt = Target
      /\ p.tgtId # 0 => ~Leased(p.src) /\ ~Leased(p.tgt)
      /\ mode # "migrating" => p = pending
  BY NoticedMoves
<1>2. dir \in [Root -> Tree]
  BY DEF HomeInv, Typed, MigrationTypeOK, DiskTypeOK
<1>3. /\ p.tgt # p.src /\ dir[p.src].ver # EmptyDir /\ ConfiguredRoot \in {p.src, p.tgt}
      /\ p.tgtId # 0 /\ dir[p.tgt].id = p.tgtId => dir[p.tgt].ver = dir[p.src].ver
      /\ ConfiguredRoot = p.tgt => p.tgtId # 0 /\ dir[p.tgt].ver = dir[p.src].ver
  BY <1>1 DEF MoveOK, SameData
<1>4. CASE dir' = dir
  BY <1>3, <1>4
<1>5. CASE \E r \in Root : RuntimeWrites(r)
  <2>1. PICK w \in Root : RuntimeWrites(w)
    BY <1>5
  <2>2. Leased(w) /\ dir'[p.src].ver # EmptyDir
    BY <1>1, <1>3, <2>1, Written
  <2>3. p.tgtId # 0 => dir'[p.src] = dir[p.src] /\ dir'[p.tgt] = dir[p.tgt]
    <3> SUFFICES ASSUME p.tgtId # 0  PROVE dir'[p.src] = dir[p.src] /\ dir'[p.tgt] = dir[p.tgt]
      OBVIOUS
    <3>1. p.src # w /\ p.tgt # w
      BY <1>1, <2>2
    <3> QED BY <1>1, <2>1, <3>1, Written
  <2> QED BY <1>3, <2>2, <2>3
<1>6. CASE /\ MigrationVacates /\ Running("vacate")
           /\ Target # ConfiguredRoot /\ dir' = [dir EXCEPT ![Target] = NoTree]
  <2>1. p.src = Source /\ p.tgt = Target
    BY <1>1, <1>6, InMove DEF Running, MovePhases, FreshPhases
  <2>2. dir'[p.src] = dir[p.src] /\ dir'[p.tgt].id = 0
    BY <1>1, <1>2, <1>3, <1>6, <2>1 DEF NoTree
  <2> QED BY <1>3, <1>6, <2>1, <2>2
<1>7. CASE /\ MigrationCommits /\ Running("commit")
           /\ Target # ConfiguredRoot /\ dir' = [dir EXCEPT ![Target] = staging]
  <2>1. p.src = Source /\ p.tgt = Target /\ mode = "migrating"
    BY <1>1, <1>7, InMove DEF Running, MovePhases
  <2>2. dir'[p.src] = dir[p.src] /\ dir'[p.tgt].ver = dir[p.src].ver
    BY <1>1, <1>2, <1>3, <1>7, <2>1 DEF Running, HomeInv, MigratingOK
  <2> QED BY <1>3, <2>2
<1>8. CASE /\ DeletionRenames
           /\ del.root \in Root \ {ConfiguredRoot} /\ dir' = [dir EXCEPT ![del.root] = NoTree]
  <2>1. mode = "normal" /\ registry[del.root].del
    BY <1>8, InDeletion DEF DeletionRenames, Deleting, HomeInv, DeletionOK
  <2>2. p = pending /\ del.root # p.src
    BY <1>1, <1>8, <2>1, InDeletion DEF DeletionRenames, Deleting
  <2>3. dir'[p.src] = dir[p.src] /\ (dir'[p.tgt] = dir[p.tgt] \/ dir'[p.tgt].id = 0)
    BY <1>1, <1>2, <1>8, <2>2 DEF NoTree
  <2>4. ConfiguredRoot = p.tgt => dir'[p.tgt] = dir[p.tgt]
    BY <1>1, <1>2, <1>8
  <2> QED BY <1>3, <2>3, <2>4
<1>9. ASSUME NEW r \in Root \ {ConfiguredRoot}, Replace(r)
      PROVE  dir'[p.src] = dir[p.src] /\ dir'[p.tgt] = dir[p.tgt]
  <2>1. p = pending
    BY <1>1, <1>9 DEF Replace
  <2>2. r \notin {p.src, p.tgt}
    BY <1>9, <2>1 DEF Replace
  <2> QED BY <1>1, <1>2, <1>9, <2>2 DEF Replace
<1>10. CASE \E r \in Root \ {ConfiguredRoot} : Replace(r)
  BY <1>3, <1>9, <1>10
<1> QED BY <1>4, <1>5, <1>6, <1>7, <1>8, <1>10, RootsKept

(* The record of the source outlives the switch of the pointer. *)
SourceKept(p) == Registered(p.src) /\ ~registry[p.src].del /\ registry[p.src].prompt

LEMMA MoveRecord ==
  ASSUME HomeInv, [Next]_vars, NEW p, Noticed(p), p.src # NoRoot,
         ConfiguredRoot = p.tgt
  PROVE  SourceKept(p)'
<1>1. /\ MoveOK(p) /\ p.src \in Root /\ p.tgt \in Root
      /\ mode = "migrating" => p.src = Source /\ p.tgt = Target
      /\ mode # "migrating" => p = pending
  BY NoticedMoves
<1>2. registry \in [Root -> Backup]
  BY DEF HomeInv, Typed, MigrationTypeOK, DiskTypeOK
<1>3. /\ registry[p.src].ino # 0 /\ ~registry[p.src].del /\ registry[p.src].prompt
      /\ p.tgtId # 0 /\ ConfiguredRoot # p.src
  BY <1>1 DEF MoveOK, Registered
<1> SUFFICES registry'[p.src].ino # 0 /\ ~registry'[p.src].del /\ registry'[p.src].prompt
  BY DEF SourceKept, Registered
<1>4. CASE registry' = registry
  BY <1>3, <1>4
<1>5. CASE MigrationRegisters /\ registry' # registry
  <2>1. Running("register") \/ Running("adopt")
    BY <1>5 DEF MigrationRegisters
  <2>2. mode = "migrating"
    BY <2>1, InMove DEF Running, MovePhases, FreshPhases
  <2>3. Exists(At(Source)) /\ registry' = [registry EXCEPT ![Source] = Captured(Source)]
    BY <1>5 DEF MigrationRegisters, RegisterSource, SourceIsCaptured
  <2>4. dir[Source].ino # 0
    BY <2>3 DEF Exists, At, NoTree
  <2> QED BY <1>1, <1>2, <2>2, <2>3, <2>4 DEF Captured
<1>6. CASE DeletionNotes
  <2>1. del.pc = "note"
    BY <1>6 DEF DeletionNotes, Deleting
  <2>2. mode = "normal" /\ (pending.src # NoRoot => ConfiguredRoot = pending.src)
    BY <2>1, InDeletion
  <2> QED BY <1>1, <1>3, <2>2
<1>7. CASE DeletionDrops
  <2>1. del.pc = "drop"
    BY <1>7 DEF DeletionDrops, Deleting
  <2>2. registry[del.root].del
    BY <2>1 DEF HomeInv, DeletionOK
  <2>3. p = pending /\ del.root # p.src
    BY <1>1, <2>1, <2>2, InDeletion
  <2> QED BY <1>1, <1>2, <1>3, <1>7, <2>3 DEF DeletionDrops
<1>8. CASE StartupDiscoversPrevious \/ StartupDiscoversDefault
  BY <1>1, <1>2, <1>3, <1>8
  DEF StartupDiscoversPrevious, StartupDiscoversDefault, Discover, Registered
<1>9. CASE \E r \in Root : DismissBackup(r)
  <2>1. mode = "normal" /\ op.pc \notin StartupPhases
    BY <1>9 DEF DismissBackup, StartupPhases
  <2> QED BY <1>1, <1>3, <2>1 DEF HomeInv, NormalOK
<1> QED BY <1>4, <1>5, <1>6, <1>7, <1>8, <1>9, Changes

LEMMA MoveKept ==
  ASSUME HomeInv, [Next]_vars, NEW CONSTANT p, Noticed(p)
  PROVE  MoveOK(p)'
<1> SUFFICES ASSUME p.src # NoRoot  PROVE MoveOK(p)'
  BY DEF MoveOK
<1>1. /\ MoveOK(p) /\ p.src \in Root /\ p.tgt \in Root
      /\ mode = "migrating" => p.src = Source /\ p.tgt = Target
      /\ mode # "migrating" => p = pending
  BY NoticedMoves
<1>2. /\ dir'[p.src].ver # EmptyDir
      /\ p.tgtId # 0 /\ dir'[p.tgt].id = p.tgtId => dir'[p.tgt].ver = dir'[p.src].ver
      /\ ConfiguredRoot = p.tgt => dir'[p.tgt].ver = dir'[p.src].ver
  BY MoveTrees
<1>3. ConfiguredRoot = p.tgt => SourceKept(p)'
  BY MoveRecord
<1>4. p.tgt # p.src
  BY <1>1 DEF MoveOK
<1>5. /\ ConfiguredRoot' \in {p.src, p.tgt}
      /\ ConfiguredRoot' = p.tgt =>
           /\ p.tgtId # 0 /\ dir'[p.tgt].ver = dir'[p.src].ver
           /\ pointer'.prev = p.src /\ SourceKept(p)'
  <2>0. /\ ConfiguredRoot \in {p.src, p.tgt}
        /\ ConfiguredRoot = p.tgt => p.tgtId # 0 /\ pointer.prev = p.src
    BY <1>1 DEF MoveOK
  <2>1. CASE pointer' = pointer
    BY <1>2, <1>3, <2>0, <2>1 DEF ConfiguredRoot
  <2>2. CASE DeletionForgets \/ StartupForgets
    <3>1. ASSUME DeletionForgets
          PROVE  pointer' = pointer \/ (ConfiguredRoot = p.src /\ mode = "normal")
      <4>1. del.pc = "forget"
        BY <3>1 DEF DeletionForgets, Deleting
      <4>2. mode = "normal" /\ op.pc \notin StartupPhases
        BY <4>1 DEF HomeInv, DeletionOK, StartupPhases, BeginPhases
      <4> QED BY <1>1, <2>0, <4>2 DEF HomeInv, NormalOK
    <3>2. ASSUME StartupForgets  PROVE pointer' = pointer
      <4>1. op.pc = "forget" /\ op.pc \in StartupPhases
        BY <3>2 DEF StartupForgets, Running, StartupPhases
      <4>2. mode = "normal"
        BY <4>1, InNormal
      <4>3. booted.pointer.prev = p.src /\ ConfiguredRoot = p.tgt
        BY <1>1, <4>1, <4>2 DEF HomeInv, NormalOK
      <4>4. ~PreviousIsGone
        BY <1>1, <4>3 DEF MoveOK, PreviousIsGone
      <4> QED BY <3>2, <4>4 DEF StartupForgets
    <3>3. pointer' # pointer => ConfiguredRoot = p.src /\ ConfiguredRoot' = ConfiguredRoot
      <4>1. CASE pointer' = [pointer EXCEPT !.prev = NoRoot, !.prevId = 0]
        <5>1. pointer'.root = pointer.root
          BY <4>1 DEF HomeInv, Typed, MigrationTypeOK, DiskTypeOK, Pointer
        <5> QED BY <2>2, <3>1, <3>2, <5>1 DEF ConfiguredRoot
      <4>2. CASE mode # "normal"
        BY <2>2, <3>1, <3>2, <4>2
      <4> QED BY <4>1, <4>2, PointerStep
    <3> QED BY <1>4, <2>1, <2>2, <3>3
  <2>3. CASE /\ mode = "migrating" /\ Running("point") /\ dir' = dir /\ registry' = registry
             /\ pointer' = [root |-> Target, id     |-> booted.pending.tgtId,
                            prev |-> Source, prevId |-> booted.pending.srcId]
    <3>1. ConfiguredRoot' = p.tgt /\ pointer'.prev = p.src
      BY <1>1, <2>3, RootAssumption DEF ConfiguredRoot
    <3>2. SourceKept(p)'
      BY <1>1, <2>3 DEF SourceKept, Registered, Running, HomeInv, MigratingOK
    <3>3. /\ p.tgtId # 0
          /\ dir[p.tgt].ver = dir[p.src].ver
      <4>1. booted.pending.tgtId # 0 /\ dir[Target].id = booted.pending.tgtId
        BY <2>3 DEF Running, HomeInv, MigratingOK
      <4>2. p.tgtId # 0
        BY <2>3, <4>1 DEF Noticed, HomeInv, MigratingOK
      <4> QED BY <1>1, <2>3, <4>1, <4>2, SourceOfMove
    <3> QED BY <2>3, <3>1, <3>2, <3>3
  <2>4. CASE /\ mode = "migrating"
             /\ pointer' = [root |-> Source, id     |-> booted.pending.srcId,
                            prev |-> booted.pointer.prev, prevId |-> booted.pointer.prevId]
    BY <1>1, <1>4, <2>4, RootAssumption DEF ConfiguredRoot
  <2>5. CASE /\ mode = "recovery"
             /\ pointer' = [root   |-> PreviousRoot,
                            id     |-> IF PreviousRoot = Default THEN 0 ELSE booted.pointer.prevId,
                            prev   |-> booted.pointer.root,
                            prevId |-> booted.pointer.id]
    <3>1. PreviousRoot = p.src
      BY <1>1, <2>5 DEF HomeInv, RecoveryOK, PreviousRoot
    <3> QED BY <1>1, <1>4, <2>5, <3>1, RootAssumption DEF ConfiguredRoot
  <2> QED BY <2>1, <2>2, <2>3, <2>4, <2>5, PointerStep
<1> QED BY <1>1, <1>2, <1>5 DEF MoveOK, SameData, SourceKept

(* The announcement changes the id of the move while the target is empty. *)
LEMMA AnnouncedMove ==
  ASSUME HomeInv, [Next]_vars, MigrationAnnounces,
         NEW CONSTANT q, q = [booted.pending EXCEPT !.tgtId = staging.id]
  PROVE  MoveOK(q)'
<1>1. mode = "migrating" /\ op.pc = "announce"
  BY InMove DEF MigrationAnnounces, Running, MovePhases, FreshPhases
<1>2. q.src = Source /\ q.tgt = Target /\ q.srcId = booted.pending.srcId /\ q.tgtId = staging.id
  BY DEF HomeInv, Typed, MigrationTypeOK, Pending, Source, Target
<1>3. dir[Target].ver = EmptyDir /\ staging.id # 0
  BY <1>1 DEF HomeInv, MigratingOK, FreshPhases
<1>4. /\ Source \in Root /\ Target \in Root \ {Source} /\ ConfiguredRoot \in {Source, Target}
      /\ Source # Default => booted.pending.srcId # 0
      /\ dir[Source].ver # EmptyDir
  BY <1>1, SourceOfMove
<1>5. ConfiguredRoot = Source
  BY <1>3, <1>4 DEF HomeInv
<1>6. dir[Target].id = 0
  BY <1>3, <1>4 DEF HomeInv, TreesOK
<1>7. dir' = dir /\ pointer' = pointer
  BY DEF MigrationAnnounces
<1> QED BY <1>2, <1>3, <1>4, <1>5, <1>6, <1>7 DEF MoveOK, ConfiguredRoot

LEMMA ScheduledMove ==
  ASSUME HomeInv, [Next]_vars, BeginSchedules, NEW CONSTANT q,
         q = [src |-> booted.active, srcId |-> At(booted.active).id,
              tgt |-> op.tgt, tgtId |-> 0]
  PROVE  MoveOK(q)'
<1>1. op.pc = "schedule"
  BY DEF BeginSchedules, Running
<1>2. mode = "normal" /\ op.pc \in BeginPhases
  BY <1>1, InNormal DEF BeginPhases
<1>3. booted.active = ConfiguredRoot /\ op.tgt \in Root \ {ConfiguredRoot}
  BY <1>2 DEF HomeInv, NormalOK
<1>4. ConfiguredRoot # Default => At(ConfiguredRoot).id # 0
  <2>1. pointer.root # NoRoot => IsExpectedRoot(pointer.root, pointer.id)
    BY <1>2 DEF HomeInv, NormalOK
  <2> QED BY <2>1 DEF HomeInv, Identified, IsExpectedRoot, ConfiguredRoot
<1>5. dir' = dir /\ pointer' = pointer /\ dir[ConfiguredRoot].ver # EmptyDir
  BY DEF BeginSchedules, HomeInv
<1> QED BY <1>3, <1>4, <1>5 DEF MoveOK, ConfiguredRoot

LEMMA MoveStep ==
  ASSUME HomeInv, [Next]_vars
  PROVE  MoveOK(pending)' /\ (mode = "migrating" => MoveOK(booted.pending))'
<1>0. \A q : q.src = NoRoot => MoveOK(q)'
  BY DEF MoveOK
<1>1. pending' = pending => MoveOK(pending)'
  <2>1. PICK p : p = pending
    OBVIOUS
  <2>2. MoveOK(p)'
    BY <2>1, MoveKept DEF Noticed
  <2> QED BY <2>1, <2>2
<1>2. MigrationAnnounces => \A q : q = [booted.pending EXCEPT !.tgtId = staging.id] => MoveOK(q)'
  BY AnnouncedMove
<1>3. MoveOK(pending)'
  <2>1. CASE pending' = NoPending
    BY <1>0, <2>1 DEF NoPending, MoveOK
  <2>2. CASE BeginSchedules /\ pending' # pending
    <3>1. PICK q : q = [src |-> booted.active, srcId |-> At(booted.active).id,
                        tgt |-> op.tgt, tgtId |-> 0]
      OBVIOUS
    <3>2. MoveOK(q)'
      BY <2>2, <3>1, ScheduledMove
    <3>3. pending' = q
      BY <2>2, <3>1 DEF BeginSchedules
    <3> QED BY <3>2, <3>3
  <2>3. CASE MigrationAnnounces
    <3>1. PICK q : q = [booted.pending EXCEPT !.tgtId = staging.id]
      OBVIOUS
    <3>2. MoveOK(q)'
      BY <1>2, <2>3, <3>1
    <3>3. pending' \in {pending, q}
      BY <2>3, <3>1 DEF MigrationAnnounces
    <3> QED BY <1>1, <3>2, <3>3
  <2> QED BY <1>1, <2>1, <2>2, <2>3, Changes DEF BeginUndoes, Settle, StartupFinishes
<1>4. ASSUME mode' = "migrating"
      PROVE  MoveOK(booted.pending)'
  <2>1. CASE Boot
    <3>1. booted'.pending = pending /\ pending' = pending
      BY <2>1 DEF Boot, BootsAs, ProbeFails, diskVars
    <3> QED BY <1>3, <3>1
  <2>2. CASE MigrationAnnounces
    <3>1. PICK q : q = [booted.pending EXCEPT !.tgtId = staging.id]
      OBVIOUS
    <3>2. PICK p : p = booted.pending
      OBVIOUS
    <3>3. MoveOK(q)' /\ mode = "migrating"
      BY <1>2, <2>2, <3>1, InMove DEF MigrationAnnounces, Running, MovePhases, FreshPhases
    <3>4. MoveOK(p)'
      BY <3>2, <3>3, MoveKept DEF Noticed
    <3>5. booted'.pending \in {p, q}
      <4>1. CASE booted' = [booted EXCEPT !.pending = q]
        BY <4>1 DEF HomeInv, Typed, MigrationTypeOK
      <4> QED BY <2>2, <3>1, <3>2, <4>1 DEF MigrationAnnounces
    <3> QED BY <3>3, <3>4, <3>5
  <2>3. CASE <<mode, booted>>' = <<mode, booted>>
    <3>1. PICK p : p = booted.pending
      OBVIOUS
    <3>2. MoveOK(p)'
      BY <1>4, <2>3, <3>1, MoveKept DEF Noticed
    <3> QED BY <2>3, <3>1, <3>2
  <2>4. CASE ProcessEnds
    BY <1>4, <2>4 DEF ProcessEnds
  <2>5. CASE DeletionForgets \/ StartupForgets \/ StartupFinishes
    <3>1. mode = "normal"
      <4>1. CASE DeletionForgets
        BY <4>1, InDeletion DEF DeletionForgets, Deleting
      <4>2. CASE StartupForgets \/ StartupFinishes
        BY <4>2, InNormal DEF StartupForgets, StartupFinishes, Running, StartupPhases
      <4> QED BY <2>5, <4>1, <4>2
    <3> QED BY <1>4, <2>5, <3>1 DEF DeletionForgets, StartupForgets, StartupFinishes, ProcessEnds
  <2> QED BY <2>1, <2>2, <2>3, <2>4, <2>5, Changes
<1> QED BY <1>3, <1>4

-----------------------------------------------------------------------------
(* The runtime.                                                            *)

(* The configured root stays the tree it is while its volume is there. *)
LEMMA ExpectedKept ==
  ASSUME HomeInv, [Next]_vars, NEW id, IsExpectedRoot(ConfiguredRoot, id),
         ConfiguredRoot \in attached'
  PROVE  /\ Exists(IF ConfiguredRoot \in attached' THEN dir'[ConfiguredRoot] ELSE NoTree)
         /\ \/ ConfiguredRoot = Default
            \/ (IF ConfiguredRoot \in attached' THEN dir'[ConfiguredRoot] ELSE NoTree).id = id
<1>1. ConfiguredRoot \in Root /\ dir \in [Root -> Tree]
  BY ConfiguredTyped DEF HomeInv, Typed, MigrationTypeOK, DiskTypeOK
<1>2. ConfiguredRoot \in attached /\ dir[ConfiguredRoot].ino # 0
      /\ (ConfiguredRoot = Default \/ dir[ConfiguredRoot].id = id)
  BY DEF IsExpectedRoot, At, Exists, NoTree
<1>3. dir'[ConfiguredRoot].ino = dir[ConfiguredRoot].ino
      /\ dir'[ConfiguredRoot].id = dir[ConfiguredRoot].id
  <2>1. CASE \E r \in Root : RuntimeWrites(r)
    BY <1>1, <2>1, Written
  <2> QED BY <1>1, <2>1, RootsKept
<1> QED BY <1>2, <1>3 DEF Exists

LEMMA DefaultIsThere ==
  ASSUME HomeInv, pointer.root = NoRoot
  PROVE  ConfiguredRoot = Default /\ \A id : IsExpectedRoot(ConfiguredRoot, id)
<1>1. ConfiguredRoot = Default
  BY DEF ConfiguredRoot
<1>2. Default \in attached /\ dir[Default].ver # EmptyDir
  BY <1>1 DEF HomeInv, TreesOK
<1>3. Exists(dir[Default])
  BY <1>2, RootAssumption DEF HomeInv, TreesOK, Exists
<1> QED BY <1>1, <1>2, <1>3 DEF IsExpectedRoot, At

LEMMA ExpectedNext ==
  ASSUME HomeInv, [Next]_vars, NEW CONSTANT id, NEW CONSTANT r, r = ConfiguredRoot,
         IsExpectedRoot(r, id), r \in attached'
  PROVE  IsExpectedRoot(r, id)'
BY ExpectedKept DEF IsExpectedRoot, At

(* A lease that is held after a step was held before it, or it is that of  *)
(* the runtime which the running process starts or is about to stop.       *)
LEMMA LeaseMoves ==
  ASSUME HomeInv, [Next]_vars, NEW r \in Root, Leased(r)'
  PROVE  \/ Leased(r)
         \/ /\ mode = "normal" /\ op.pc \notin StartupPhases /\ r = booted.active
            /\ UNCHANGED <<dir, pointer, pending>>
<1> DEFINE own == /\ mode = "normal" /\ op.pc \notin StartupPhases /\ r = booted.active
                  /\ UNCHANGED <<dir, pointer, pending>>
<1>t. runtime \in [Root -> Runtime]
  BY DEF HomeInv, Typed, MigrationTypeOK
<1>1. runtime'[r].lease # "none"
  BY DEF Leased
<1> SUFFICES ASSUME runtime[r].lease = "none"
             PROVE  runtime'[r].lease = "none" \/ own
  BY <1>1 DEF Leased
<1>2. CASE Crash \/ Quit
  <2>1. [runtime[r] EXCEPT !.hosted = FALSE].lease = runtime[r].lease
    BY <1>t DEF Runtime
  <2>2. CASE Crash
    <3>1. runtime'[r] = [runtime[r] EXCEPT !.hosted = FALSE]
      BY <2>2 DEF Crash
    <3> QED BY <2>1, <3>1
  <2>3. CASE Quit
    <3>1. runtime'[r] = NoRuntime \/ runtime'[r] = runtime[r]
      BY <2>3 DEF Quit
    <3> QED BY <3>1 DEF NoRuntime
  <2> QED BY <1>2, <2>2, <2>3
<1>3. ASSUME NEW x, NEW b, runtime' = [runtime EXCEPT ![x].fenced = b]
      PROVE  runtime'[r].lease = "none"
  <2>1. [runtime[r] EXCEPT !.fenced = b].lease = runtime[r].lease
    BY <1>t DEF Runtime
  <2>2. runtime'[r] \in {runtime[r], [runtime[r] EXCEPT !.fenced = b]}
    BY <1>t, <1>3
  <2> QED BY <2>1, <2>2
<1>4. ASSUME NEW x, NEW l, runtime' = [runtime EXCEPT ![x].lease = l], x # r
      PROVE  runtime'[r].lease = "none"
  BY <1>t, <1>4
<1>5. ASSUME NEW x, runtime' = [runtime EXCEPT ![x] = NoRuntime]
      PROVE  runtime'[r].lease = "none"
  BY <1>t, <1>5 DEF NoRuntime
<1>6. CASE StartRuntime
  <2>1. CASE r = booted.active
    BY <1>6, <2>1 DEF StartRuntime, Running, StartupPhases, diskVars
  <2>2. CASE r # booted.active
    BY <1>t, <1>6, <2>2 DEF StartRuntime
  <2> QED BY <2>1, <2>2
<1>7. CASE MigrationScans \/ DeletionRenames
  BY <1>5, <1>7 DEF MigrationScans, DeletionRenames
<1>8. CASE BeginInspects \/ BeginUnfences
  BY <1>3, <1>8 DEF BeginInspects, BeginUnfences, Unfence
<1>9. CASE BeginRelaunches \/ BeginRelaunchesAgain
  <2>1. op.pc \in BeginPhases /\ op.pc \notin StartupPhases
    BY <1>9 DEF BeginRelaunches, BeginRelaunchesAgain, Running, BeginPhases, StartupPhases
  <2>2. mode = "normal" /\ UNCHANGED <<dir, pointer, pending>>
    BY <1>9, <2>1, InNormal DEF BeginRelaunches, BeginRelaunchesAgain, diskVars
  <2>3. CASE r = booted.active
    BY <2>1, <2>2, <2>3
  <2>4. CASE r # booted.active
    BY <1>4, <1>5, <1>9, <2>4
    DEF BeginRelaunches, BeginRelaunchesAgain, RelaunchIsDone, RelaunchIsRefused
  <2> QED BY <2>3, <2>4
<1>10. ASSUME NEW x \in Root,
              RuntimeStalls(x) \/ RuntimeResumes(x) \/ BeginMigration(x) \/ Replace(x)
       PROVE  runtime'[r].lease = "none"
  <2>1. CASE RuntimeStalls(x) \/ RuntimeResumes(x)
    <3>1. x # r
      BY <2>1 DEF RuntimeStalls, RuntimeResumes
    <3> QED BY <1>4, <2>1, <3>1 DEF RuntimeStalls, RuntimeResumes
  <2>2. CASE BeginMigration(x)
    BY <1>3, <2>2 DEF BeginMigration
  <2>3. CASE Replace(x)
    BY <1>5, <2>3 DEF Replace
  <2> QED BY <1>10, <2>1, <2>2, <2>3
<1> QED BY <1>2, <1>6, <1>7, <1>8, <1>9, <1>10, Changes

(* There is data under a lease: a tree that goes takes its database along. *)
LEMMA LeasedTree ==
  ASSUME HomeInv, [Next]_vars, NEW r \in Root, Leased(r), Leased(r)'
  PROVE  dir'[r].ver # EmptyDir
<1>t. dir \in [Root -> Tree] /\ runtime \in [Root -> Runtime]
  BY DEF HomeInv, Typed, MigrationTypeOK, DiskTypeOK
<1>0. dir[r].ver # EmptyDir /\ runtime'[r].lease # "none"
  BY DEF HomeInv, RuntimeOK, Leased
<1>1. CASE \E w \in Root : RuntimeWrites(w)
  BY <1>0, <1>1, Written
<1>2. ASSUME op.pc \in {"vacate", "commit"}, NEW tree, dir' = [dir EXCEPT ![Target] = tree]
      PROVE  dir'[r] = dir[r]
  <2>1. mode = "migrating"
    BY <1>2, InMove DEF MovePhases, FreshPhases
  <2>2. dir[Target].ver = EmptyDir
    BY <1>2, <2>1 DEF HomeInv, MigratingOK, FreshPhases
  <2> QED BY <1>t, <1>0, <1>2, <2>2
<1>3. CASE DeletionRenames /\ dir' = [dir EXCEPT ![del.root] = NoTree]
  <2>1. CASE runtime' = [runtime EXCEPT ![del.root] = NoRuntime]
    <3>1. r # del.root
      BY <1>t, <1>0, <2>1 DEF NoRuntime
    <3> QED BY <1>t, <1>0, <1>3, <3>1
  <2>2. CASE dir' = dir
    BY <1>0, <2>2
  <2> QED BY <1>3, <2>1, <2>2 DEF DeletionRenames
<1>4. ASSUME NEW x \in Root, Replace(x)
      PROVE  dir'[r] = dir[r]
  <2>1. runtime' = [runtime EXCEPT ![x] = NoRuntime]
    BY <1>4 DEF Replace
  <2>2. r # x
    BY <1>t, <1>0, <2>1 DEF NoRuntime
  <2> QED BY <1>t, <1>4, <2>2 DEF Replace
<1> QED BY <1>0, <1>1, <1>2, <1>3, <1>4, RootsKept DEF Running

(* A root keeps its lease as the configured one or as one left in recovery. *)
LEMMA LeasedRoot ==
  ASSUME HomeInv, [Next]_vars, NEW r \in Root, Leased(r)
  PROVE  r = ConfiguredRoot' \/ r \in abandoned'
<1>0. r = ConfiguredRoot \/ r \in abandoned
  BY DEF HomeInv, RuntimeOK
<1>1. r \in abandoned => r \in abandoned' \/ (StartRuntime /\ r = booted.active)
  BY Changes DEF StartRuntime, RestoreChooses
<1>2. StartRuntime => pointer' = pointer /\ mode = "normal"
  BY DEF StartRuntime, diskVars
<1>3. StartRuntime => booted.active = ConfiguredRoot
  BY <1>2 DEF HomeInv, NormalOK
<1>4. CASE pointer'.root = pointer.root
  <2>1. ConfiguredRoot' = ConfiguredRoot
    BY <1>4 DEF ConfiguredRoot
  <2> QED BY <1>0, <1>1, <1>3, <2>1
<1>5. CASE mode = "migrating" /\ pointer'.root = Source
  <2>1. Source \in Root /\ ConfiguredRoot \in {Source, Target}
        /\ (ConfiguredRoot = Target => booted.pending.tgtId # 0)
    BY <1>5, SourceOfMove
  <2>2. ConfiguredRoot' = Source
    BY <1>5, <2>1, RootAssumption DEF ConfiguredRoot
  <2>3. booted.pending.tgtId # 0 => r # Target
    BY <1>5 DEF HomeInv, MigratingOK
  <2> QED BY <1>0, <1>1, <1>2, <1>5, <2>1, <2>2, <2>3
<1>6. CASE mode = "migrating" /\ Running("point")
  <2>1. ConfiguredRoot \in {Source, Target} /\ booted.pending.tgtId # 0
    BY <1>6, SourceOfMove DEF Running, HomeInv, MigratingOK
  <2>2. r \notin {Source, Target}
    BY <1>6, <2>1 DEF HomeInv, MigratingOK
  <2> QED BY <1>0, <1>1, <1>2, <1>6, <2>1, <2>2
<1>7. CASE mode = "recovery" /\ Running("choose") /\ pointer' # pointer
           /\ pointer'.root = PreviousRoot
  <2>1. RestoreChooses
    <3>1. ~MigrationPoints /\ ~CancelPoints
      BY <1>7 DEF MigrationPoints, CancelPoints, Running
    <3>2. ~StartupForgets
      BY <1>7 DEF StartupForgets, Running
    <3>3. ~DeletionForgets
      BY <1>7, InDeletion DEF DeletionForgets, Deleting
    <3> QED BY <1>7, <3>1, <3>2, <3>3, Changes
  <2>2. abandoned' = abandoned \cup {booted.pointer.root}
    BY <1>7, <2>1 DEF RestoreChooses
  <2>3. PreviousRoot # NoRoot
    BY RootAssumption DEF PreviousRoot
  <2>4. ConfiguredRoot' = PreviousRoot
    BY <1>7, <2>3 DEF ConfiguredRoot
  <2>5. ConfiguredRoot \in {booted.pointer.root, PreviousRoot}
    BY <1>7 DEF HomeInv, RecoveryOK
  <2> QED BY <1>0, <2>2, <2>4, <2>5
<1>8. \A a, b, c, d : pointer' = [root |-> a, id |-> b, prev |-> c, prevId |-> d] =>
        pointer'.root = a
  OBVIOUS
<1>9. pointer' = [pointer EXCEPT !.prev = NoRoot, !.prevId = 0] => pointer'.root = pointer.root
  BY DEF HomeInv, Typed, MigrationTypeOK, DiskTypeOK, Pointer
<1> QED BY <1>4, <1>5, <1>6, <1>7, <1>8, <1>9, PointerStep

(* No lease is held at either end of a move when it is announced.          *)
LEMMA LeasedMove ==
  ASSUME HomeInv, [Next]_vars, NEW r \in Root, Leased(r),
         pending'.src # NoRoot, pending'.tgtId # 0
  PROVE  r \notin {pending'.src, pending'.tgt}
<1>1. CASE pending' = pending
  BY <1>1 DEF HomeInv, RuntimeOK
<1>2. CASE MigrationAnnounces
  <2>1. mode = "migrating" /\ op.pc = "announce"
    BY <1>2, InMove DEF MigrationAnnounces, Running, MovePhases, FreshPhases
  <2>2. ~Leased(Source) /\ dir[Target].ver = EmptyDir
    BY <2>1 DEF HomeInv, MigratingOK, FreshPhases
  <2>3. r \notin {Source, Target}
    BY <2>2 DEF HomeInv, RuntimeOK
  <2>4. PICK q : q = [booted.pending EXCEPT !.tgtId = staging.id]
    OBVIOUS
  <2>5. q.src = Source /\ q.tgt = Target
    BY <2>4 DEF HomeInv, Typed, MigrationTypeOK, Pending, Source, Target
  <2>6. pending' \in {pending, q}
    BY <1>2, <2>4 DEF MigrationAnnounces
  <2> QED BY <1>1, <2>3, <2>5, <2>6
<1>3. NoPending.src = NoRoot
  BY DEF NoPending
<1>4. CASE BeginSchedules
  <2>1. \A a, b, c, d : pending' = [src |-> a, srcId |-> b, tgt |-> c, tgtId |-> d] =>
          pending'.tgtId = d
    OBVIOUS
  <2> QED BY <1>1, <1>4, <2>1 DEF BeginSchedules
<1>5. CASE BeginUndoes \/ Settle \/ StartupFinishes
  BY <1>1, <1>3, <1>5 DEF BeginUndoes, Settle, StartupFinishes
<1> QED BY <1>1, <1>2, <1>4, <1>5, Changes

LEMMA RuntimeStep ==
  ASSUME HomeInv, [Next]_vars
  PROVE  RuntimeOK'
<1> SUFFICES ASSUME NEW r \in Root, Leased(r)'
             PROVE  /\ dir'[r].ver # EmptyDir
                    /\ r = ConfiguredRoot' \/ r \in abandoned'
                    /\ pending'.src # NoRoot /\ pending'.tgtId # 0 =>
                         r \notin {pending'.src, pending'.tgt}
  BY DEF RuntimeOK
<1>1. CASE Leased(r)
  BY <1>1, LeasedTree, LeasedRoot, LeasedMove
<1>2. CASE /\ mode = "normal" /\ op.pc \notin StartupPhases /\ r = booted.active
           /\ UNCHANGED <<dir, pointer, pending>>
  <2>1. booted.active = ConfiguredRoot /\ (pending.src # NoRoot => pending.tgtId = 0)
    BY <1>2 DEF HomeInv, NormalOK
  <2> QED BY <1>2, <2>1 DEF ConfiguredRoot, HomeInv
<1> QED BY <1>1, <1>2, LeaseMoves

-----------------------------------------------------------------------------
(* A normal start, and the methods that run in it.                         *)

LEMMA NotInNormal ==
  ASSUME HomeInv, mode = "normal"
  PROVE  ~MigrationSteps
<1>1. op.pc \in StartupPhases \cup BeginPhases \cup {"idle"}
  BY DEF HomeInv, NormalOK
<1> QED
  BY <1>1
  DEF MigrationSteps, Running, StartupPhases, BeginPhases, RunMigration, MigrationStarts,
     MigrationCleans, MigrationScans, MigrationStages, MigrationOwns, MigrationCopies,
     MigrationVerifies, MigrationLosesTarget, MigrationMarks, MigrationAnnounces,
     MigrationRegisters, MigrationVacates, MigrationCommits, MigrationPoints,
     Settle, Restart, CancelMigration, CancelCleans, CancelPoints, RetryStartup,
     RestorePreviousRoot, RestoreChooses

(* What a step does to a process that started normally, and goes on. *)
LEMMA NormalActions ==
  ASSUME HomeInv, [Next]_vars, mode = "normal", mode' = "normal"
  PROVE  /\ attached \subseteq attached'
         /\ \/ <<op, pending, booted, pointer>>' = <<op, pending, booted, pointer>>
            \/ <<op, pending>>' = <<op, pending>> /\ DeletionForgets
            \/ StartupSteps
            \/ BeginSteps
<1>1. CASE Process
  BY <1>1 DEF Process, Boot, BootsAs, ProbeFails, Crash, Quit, ProcessEnds, StartRuntime, RuntimeStalls, RuntimeResumes,
     RuntimeWrites, diskVars
<1>2. CASE BeginSteps
  BY <1>2 DEF BeginSteps, diskVars, BeginMigration, BeginInspects, BeginSchedules, BeginRelaunches,
     BeginUndoes, BeginUnfences, BeginRelaunchesAgain
<1>3. CASE DeletionSteps
  BY <1>3 DEF DeletionSteps, migrationVars, diskVars, DeleteBackup, DismissBackup, DeletionNotes,
     DeletionMoves, DeletionRenames, DeletionChecks, DeletionRemoves, DeletionDrops,
     DeletionForgets
<1>4. CASE StartupSteps
  BY <1>4 DEF StartupSteps, diskVars, StartupRecovers,
     StartupDiscoversPrevious, StartupDiscoversDefault, StartupForgets, StartupFinishes
<1>5. CASE \E r \in Root : Detach(r) \/ Attach(r) \/ Replace(r)
  BY <1>5 DEF Detach, Attach, Replace
<1>6. CASE UNCHANGED vars
  BY <1>6 DEF vars, migrationVars, diskVars
<1> QED BY <1>1, <1>2, <1>3, <1>4, <1>5, <1>6, NotInNormal DEF Next, ProcessStep

LEMMA StartupMoves ==
  ASSUME HomeInv, mode = "normal", StartupSteps, mode' = "normal"
  PROVE  /\ op.pc \in StartupPhases
         /\ pending = booted.pending
         /\ booted'.active = booted.active
         /\ \/ /\ op'.pc \in StartupPhases
               /\ pending' = pending /\ booted'.pending = booted.pending
            \/ op'.pc = "idle" /\ pending'.src = NoRoot /\ booted'.pending.src = NoRoot
         /\ \/ pointer' = pointer /\ booted'.pointer = booted.pointer
            \/ StartupForgets /\ PreviousIsGone
<1>t. booted \in BootedType /\ op \in OpType
  BY TypedOp DEF HomeInv, Typed, MigrationTypeOK, BootedType
<1>1. op.pc \in StartupPhases
  BY DEF StartupSteps, StartupRecovers, StartupDiscoversPrevious, StartupDiscoversDefault,
     StartupForgets, StartupFinishes, Running, StartupPhases
<1>2. pending = booted.pending
  BY <1>1 DEF HomeInv, NormalOK
<1>3. CASE StartupRecovers \/ StartupDiscoversPrevious \/ StartupDiscoversDefault
  <2>1. op'.pc \in StartupPhases
    BY <1>t, <1>1, <1>3, Moves DEF StartupRecovers, StartupDiscoversPrevious,
       StartupDiscoversDefault, StartupPhases
  <2> QED BY <1>1, <1>2, <1>3, <2>1 DEF StartupRecovers, StartupDiscoversPrevious,
             StartupDiscoversDefault, diskVars
<1>4. CASE StartupForgets
  <2>1. op'.pc \in StartupPhases
    BY <1>t, <1>4, Moves DEF StartupForgets, StartupPhases
  <2>2. \A x : booted' = [booted EXCEPT !.pointer = x] =>
          booted'.active = booted.active /\ booted'.pending = booted.pending
    BY <1>t DEF BootedType
  <2> QED BY <1>1, <1>2, <1>4, <2>1, <2>2 DEF StartupForgets, ClearPrevious
<1>5. CASE StartupFinishes
  <2>1. \A x : booted' = [booted EXCEPT !.pending = x] =>
          /\ booted'.active = booted.active /\ booted'.pointer = booted.pointer
          /\ booted'.pending = x
    BY <1>t DEF BootedType
  <2>2. ~ProcessEnds
    BY DEF ProcessEnds
  <2>3. op'.pc = "idle"
    BY <1>t, <1>5, <2>2, Moves DEF StartupFinishes
  <2> QED BY <1>1, <1>2, <1>5, <2>1, <2>2, <2>3 DEF StartupFinishes, NoPending
<1> QED BY <1>3, <1>4, <1>5 DEF StartupSteps

LEMMA BeginMoves ==
  ASSUME HomeInv, mode = "normal", BeginSteps, mode' = "normal"
  PROVE  /\ op.pc \notin StartupPhases
         /\ pointer' = pointer /\ booted' = booted /\ dir' = dir /\ attached' = attached
         /\ op'.pc \in BeginPhases \cup {"idle"}
         /\ op'.pc \in BeginPhases => op'.tgt \in Root \ {booted.active}
         /\ \/ pending' = pending \/ pending'.src = NoRoot
            \/ pending' = [src |-> booted.active, srcId |-> At(booted.active).id,
                           tgt |-> op.tgt, tgtId |-> 0]
<1>t. op \in OpType
  BY TypedOp DEF HomeInv
<1>0. op.pc \in BeginPhases => op.tgt \in Root \ {booted.active}
  BY DEF HomeInv, NormalOK
<1>1. ASSUME NEW tgt \in Root, BeginMigration(tgt)
      PROVE  op'.pc = "inspect" /\ op'.tgt = tgt /\ tgt # booted.active /\ op.pc = "idle"
  BY <1>1 DEF BeginMigration, Running
<1>2. op' = [op EXCEPT !.pc = "relaunch", !.asked = TRUE] => op'.pc = "relaunch" /\ op'.tgt = op.tgt
  BY <1>t DEF OpType
<1>3. op' = [op EXCEPT !.pc = "relaunch again"] => op'.pc = "relaunch again" /\ op'.tgt = op.tgt
  BY <1>t DEF OpType
<1>4. op' = Idle => op'.pc = "idle"
  BY DEF Idle
<1>5. ~ProcessEnds
  BY DEF ProcessEnds
<1>6. CASE \E tgt \in Root : BeginMigration(tgt)
  BY <1>1, <1>6 DEF BeginMigration, StartupPhases, BeginPhases, diskVars
<1>7. CASE BeginInspects
  <2>1. op'.pc \in {"schedule", "idle"} /\ (op'.pc = "schedule" => op'.tgt = op.tgt)
    BY <1>t, <1>7, Moves DEF BeginInspects
  <2> QED BY <1>0, <1>7, <2>1 DEF BeginInspects, Running, StartupPhases, BeginPhases, diskVars
<1>8. CASE BeginRelaunches \/ BeginRelaunchesAgain
  <2>1. op'.pc = "idle" \/ (op'.pc = "undo" /\ op'.tgt = op.tgt)
    BY <1>t, <1>5, <1>8, Moves DEF BeginRelaunches, BeginRelaunchesAgain, RelaunchIsDone
  <2>2. op.pc \in BeginPhases /\ op.pc \notin StartupPhases
    BY <1>8 DEF BeginRelaunches, BeginRelaunchesAgain, Running, StartupPhases, BeginPhases
  <2>3. UNCHANGED <<pointer, booted, dir, attached, pending>>
    BY <1>5, <1>8 DEF BeginRelaunches, BeginRelaunchesAgain, RelaunchIsDone, RelaunchIsRefused,
       diskVars
  <2> QED BY <1>0, <2>1, <2>2, <2>3 DEF BeginPhases
<1>9. CASE BeginUndoes
  <2>1. op'.pc = "unfence" /\ op'.tgt = op.tgt
    BY <1>t, <1>9, Moves DEF BeginUndoes
  <2> QED BY <1>0, <1>9, <2>1 DEF BeginUndoes, Running, StartupPhases, BeginPhases, NoPending
<1>10. CASE BeginUnfences
  <2>1. op'.pc = "idle" \/ (op'.pc = "relaunch again" /\ op'.tgt = op.tgt)
    BY <1>3, <1>4, <1>10 DEF BeginUnfences
  <2> QED BY <1>0, <1>10, <2>1 DEF BeginUnfences, Running, StartupPhases, BeginPhases, diskVars
<1>11. CASE BeginSchedules
  BY <1>t, <1>0, <1>2, <1>11, Moves
  DEF BeginSchedules, Running, StartupPhases, BeginPhases, diskVars
<1> QED BY <1>6, <1>7, <1>8, <1>9, <1>10, <1>11 DEF BeginSteps

(* What a normal process boots with. *)
LEMMA NormalBoot ==
  ASSUME HomeInv, Boot, mode' = "normal"
  PROVE  NormalOK'
<1>1. ~BootIsMigrating /\ BootIsNormal
  BY DEF Boot, BootsAs, BootIsNormal
<1>2. /\ op'.pc = "recover" /\ UNCHANGED <<dir, attached, pointer, pending>>
      /\ booted' = [active |-> ConfiguredRoot, pointer |-> pointer, pending |-> pending]
  BY <1>1 DEF Boot, BootsAs, ProbeFails, diskVars, Home, Idle
<1>3. pointer.root # NoRoot => IsExpectedRoot(pointer.root, pointer.id)
  BY <1>1 DEF BootIsNormal
<1>4. pending.src # NoRoot =>
        ConfiguredRoot = pending.tgt /\ pointer.prev = pending.src
  <2>1. pending.src # NoRoot => pointer.root = pending.tgt /\ pending.tgt \in Root
    BY <1>1 DEF BootIsMigrating, PointerCommitted, HomeInv, MoveOK
  <2>2. pending.src # NoRoot => ConfiguredRoot = pending.tgt
    BY <2>1, RootAssumption DEF ConfiguredRoot
  <2> QED BY <2>2 DEF HomeInv, MoveOK
<1> QED
  BY <1>2, <1>3, <1>4 DEF NormalOK, StartupPhases, BeginPhases, ConfiguredRoot, IsExpectedRoot, At

LEMMA NormalPointer ==
  ASSUME HomeInv, [Next]_vars, mode = "normal", mode' = "normal"
  PROVE  /\ ConfiguredRoot' = ConfiguredRoot
         /\ pointer'.root = pointer.root /\ pointer'.id = pointer.id
         /\ booted'.active = booted.active
         /\ booted'.pointer.root = booted.pointer.root /\ booted'.pointer.id = booted.pointer.id
         /\ op.pc \in StartupPhases /\ pending.src # NoRoot =>
              booted'.pointer.prev = booted.pointer.prev
<1>t. booted \in BootedType /\ pointer \in Pointer
  BY DEF HomeInv, Typed, MigrationTypeOK, DiskTypeOK, BootedType
<1>1. pointer'.root = pointer.root /\ pointer'.id = pointer.id
  <2>1. pointer' = [pointer EXCEPT !.prev = NoRoot, !.prevId = 0] =>
           pointer'.root = pointer.root /\ pointer'.id = pointer.id
    BY <1>t DEF Pointer
  <2> QED BY <2>1, PointerStep
<1>2. ConfiguredRoot' = ConfiguredRoot
  BY <1>1 DEF ConfiguredRoot
<1>3. booted' = [booted EXCEPT !.pointer = WithoutPrevious] =>
        /\ booted'.active = booted.active
        /\ booted'.pointer.root = booted.pointer.root /\ booted'.pointer.id = booted.pointer.id
  <2>1. booted.pointer \in Pointer
    BY <1>t DEF BootedType
  <2>2. /\ WithoutPrevious.root = booted.pointer.root
        /\ WithoutPrevious.id = booted.pointer.id
    BY <2>1 DEF Pointer, WithoutPrevious
  <2>3. booted' = [booted EXCEPT !.pointer = WithoutPrevious] =>
          booted'.active = booted.active /\ booted'.pointer = WithoutPrevious
    BY <1>t DEF BootedType
  <2> QED BY <2>2, <2>3
<1>4. /\ booted'.active = booted.active
      /\ booted'.pointer.root = booted.pointer.root /\ booted'.pointer.id = booted.pointer.id
  <2>1. \A x : booted' = [booted EXCEPT !.pending = x] =>
           booted'.active = booted.active /\ booted'.pointer = booted.pointer
    BY <1>t DEF BootedType
  <2>2. ~MigrationAnnounces
    BY NotInNormal DEF MigrationSteps
  <2> QED BY <1>3, <2>1, <2>2, Changes DEF Boot, BootsAs, ProbeFails, ProcessEnds, DeletionForgets, StartupForgets,
             StartupFinishes, ClearPrevious
<1>5. op.pc \in StartupPhases /\ pending.src # NoRoot =>
        booted'.pointer.prev = booted.pointer.prev
  <2> SUFFICES ASSUME op.pc \in StartupPhases, pending.src # NoRoot
               PROVE  booted'.pointer.prev = booted.pointer.prev
    OBVIOUS
  <2>1. booted.pointer.prev = pending.src /\ Registered(pending.src)
    BY DEF HomeInv, NormalOK, MoveOK
  <2>2. ~PreviousIsGone
    BY <2>1 DEF PreviousIsGone
  <2>3. ~DeletionForgets
    <3>1. DeletionForgets => del.pc = "forget" /\ op.pc = "recover"
      BY DEF DeletionForgets, Deleting, HomeInv, DeletionOK, StartupPhases, BeginPhases
    <3> QED BY <3>1 DEF HomeInv, DeletionOK
  <2>4. \A x : booted' = [booted EXCEPT !.pending = x] => booted'.pointer = booted.pointer
    BY <1>t DEF BootedType
  <2>5. ~MigrationAnnounces
    BY NotInNormal DEF MigrationSteps
  <2> QED BY <2>2, <2>3, <2>4, <2>5, Changes DEF Boot, BootsAs, ProbeFails, ProcessEnds, StartupForgets, StartupFinishes
<1> QED BY <1>1, <1>2, <1>4, <1>5

LEMMA NormalStep ==
  ASSUME HomeInv, [Next]_vars
  PROVE  NormalOK'
<1> SUFFICES ASSUME mode' = "normal"  PROVE NormalOK'
  BY DEF NormalOK
<1>1. mode = "normal" \/ Boot
  BY Changes DEF ProcessEnds, MigrationAnnounces, DeletionForgets, StartupForgets, StartupFinishes
<1> SUFFICES ASSUME mode = "normal"  PROVE NormalOK'
  BY <1>1, NormalBoot
<1>t. pending \in Pending /\ op \in OpType
  BY TypedOp DEF HomeInv, Typed, MigrationTypeOK, DiskTypeOK
<1>2. /\ op.pc \in StartupPhases \cup BeginPhases \cup {"idle"}
      /\ booted.active = ConfiguredRoot
      /\ pointer.root = booted.pointer.root /\ pointer.id = booted.pointer.id
      /\ pointer.root # NoRoot => IsExpectedRoot(pointer.root, pointer.id)
      /\ op.pc \in StartupPhases => pending = booted.pending
      /\ op.pc \in StartupPhases /\ pending.src # NoRoot =>
           ConfiguredRoot = pending.tgt /\ booted.pointer.prev = pending.src
      /\ op.pc \notin StartupPhases => booted.pending.src = NoRoot
      /\ op.pc \notin StartupPhases /\ pending.src # NoRoot =>
           /\ pending.tgtId = 0 /\ pending.src = booted.active
           /\ IsExpectedRoot(pending.src, pending.srcId)
      /\ op.pc \in BeginPhases => op.tgt \in Root \ {booted.active}
  BY DEF HomeInv, NormalOK
<1>3. /\ ConfiguredRoot' = ConfiguredRoot
      /\ pointer'.root = pointer.root /\ pointer'.id = pointer.id
      /\ booted'.active = booted.active
      /\ booted'.pointer.root = booted.pointer.root /\ booted'.pointer.id = booted.pointer.id
      /\ op.pc \in StartupPhases /\ pending.src # NoRoot =>
           booted'.pointer.prev = booted.pointer.prev
  BY NormalPointer
<1>4. PICK r, id, srcId : r = ConfiguredRoot /\ id = pointer'.id /\ srcId = pending'.srcId
  OBVIOUS
<1>5. IsExpectedRoot(r, pointer.id)
  BY <1>2, <1>4, DefaultIsThere DEF ConfiguredRoot
<1>6. r \in attached /\ r \in attached'
  BY <1>5, NormalActions DEF IsExpectedRoot, At, Exists, NoTree
<1>7. pointer'.root # NoRoot => IsExpectedRoot(pointer.root, pointer.id)'
  <2>1. IsExpectedRoot(r, id)
    BY <1>3, <1>4, <1>5
  <2>2. IsExpectedRoot(r, id)'
    BY <1>4, <1>6, <2>1, ExpectedNext
  <2>3. pointer'.root # NoRoot => pointer'.root = r
    BY <1>3, <1>4 DEF ConfiguredRoot
  <2> QED BY <1>4, <2>2, <2>3
<1>8. IsExpectedRoot(r, srcId) /\ pending'.src = r =>
        IsExpectedRoot(pending.src, pending.srcId)'
  <2>1. IsExpectedRoot(r, srcId) => IsExpectedRoot(r, srcId)'
    BY <1>4, <1>6, ExpectedNext
  <2> QED BY <1>4, <2>1
<1>9. CASE /\ op'.pc = op.pc /\ op'.tgt = op.tgt
           /\ pending' = pending /\ booted'.pending = booted.pending
  BY <1>2, <1>3, <1>4, <1>7, <1>8, <1>9 DEF NormalOK
<1>10. CASE StartupSteps
  <2>1. /\ op.pc \in StartupPhases
        /\ pending = booted.pending
        /\ \/ /\ op'.pc \in StartupPhases
              /\ pending' = pending /\ booted'.pending = booted.pending
           \/ op'.pc = "idle" /\ pending'.src = NoRoot /\ booted'.pending.src = NoRoot
    BY <1>10, StartupMoves
  <2>2. op'.pc \notin BeginPhases /\ "idle" \notin StartupPhases
    BY <2>1 DEF StartupPhases, BeginPhases
  <2> QED BY <1>2, <1>3, <1>7, <2>1, <2>2 DEF NormalOK
<1>11. CASE BeginSteps
  <2>1. /\ op.pc \notin StartupPhases
        /\ pointer' = pointer /\ booted' = booted /\ dir' = dir /\ attached' = attached
        /\ op'.pc \in BeginPhases \cup {"idle"}
        /\ op'.pc \in BeginPhases => op'.tgt \in Root \ {booted.active}
        /\ \/ pending' = pending \/ pending'.src = NoRoot
           \/ pending' = [src |-> booted.active, srcId |-> At(booted.active).id,
                          tgt |-> op.tgt, tgtId |-> 0]
    BY <1>11, BeginMoves
  <2>2. op'.pc \notin StartupPhases
    BY <2>1 DEF StartupPhases, BeginPhases
  <2>3. pending'.src # NoRoot =>
          /\ pending'.tgtId = 0 /\ pending'.src = booted.active
          /\ IsExpectedRoot(pending.src, pending.srcId)'
    <3>1. CASE pending' = pending
      BY <1>2, <1>4, <1>8, <2>1, <3>1
    <3>2. CASE pending' = [src |-> booted.active, srcId |-> At(booted.active).id,
                          tgt |-> op.tgt, tgtId |-> 0]
      <4>1. pending'.src = r /\ srcId = At(r).id /\ pending'.tgtId = 0
        BY <1>2, <1>4, <3>2
      <4>2. IsExpectedRoot(r, srcId)
        BY <1>5, <4>1 DEF IsExpectedRoot
      <4> QED BY <1>2, <1>4, <1>8, <4>1, <4>2
    <3> QED BY <2>1, <3>1, <3>2
  <2> QED BY <1>2, <1>3, <1>7, <2>1, <2>2, <2>3 DEF NormalOK
<1>12. CASE op' = op /\ pending' = pending /\ DeletionForgets
  <2>1. booted'.pending = booted.pending
    <3>1. booted \in BootedType
      BY DEF HomeInv, Typed, MigrationTypeOK, BootedType
    <3>2. booted' = [booted EXCEPT !.pointer = WithoutPrevious] => booted'.pending = booted.pending
      BY <3>1 DEF BootedType
    <3> QED BY <1>12, <3>2 DEF DeletionForgets, ClearPrevious
  <2> QED BY <1>9, <1>12, <2>1
<1> QED BY <1>9, <1>10, <1>11, <1>12, NormalActions

-----------------------------------------------------------------------------
(* A deletion.                                                             *)

(* Only a tree that a deletion was noted for lies under a hidden name. *)
GravesNoted == \A r \in Root : Exists(grave[r]) => registry[r].del

LEMMA GravesStep ==
  ASSUME HomeInv, [Next]_vars
  PROVE  GravesNoted'
<1> SUFFICES ASSUME NEW r \in Root, grave'[r].ino # 0
             PROVE  registry'[r].del
  BY DEF GravesNoted, Exists
<1>t. /\ dir \in [Root -> Tree] /\ grave \in [Root -> Tree] /\ registry \in [Root -> Backup]
  BY DEF HomeInv, Typed, MigrationTypeOK, DiskTypeOK
<1>0. grave[r].ino # 0 => registry[r].del /\ registry[r].ino # 0
  BY DEF HomeInv, DeletionOK, TreesOK, Exists, Registered
<1>1. CASE MigrationRegisters
  BY <1>t, <1>0, <1>1 DEF MigrationRegisters, RegisterSource, NoTree
<1>2. ASSUME del.pc # "idle"  PROVE del.root \in Root
  BY <1>2, InDeletion
<1>3. CASE DeletionRenames
  <2>1. del.root \in Root /\ registry[del.root].del
    BY <1>2, <1>3 DEF DeletionRenames, Deleting, HomeInv, DeletionOK
  <2> QED BY <1>t, <1>0, <1>3, <2>1 DEF DeletionRenames
<1>4. CASE DeletionRemoves
  <2>1. del.root \in Root /\ registry[del.root].del /\ registry' = registry
    BY <1>2, <1>4 DEF DeletionRemoves, Deleting, HomeInv, DeletionOK
  <2>2. r = del.root \/ grave'[r] = grave[r]
    BY <1>t, <1>4, <2>1 DEF DeletionRemoves
  <2> QED BY <1>0, <2>1, <2>2
<1>5. CASE DeletionDrops
  BY <1>t, <1>0, <1>5 DEF DeletionDrops, NoTree
<1>6. CASE grave' = grave
  <2>1. CASE DeletionNotes
    <3>1. [registry EXCEPT ![del.root].del = TRUE][r].del = registry[r].del
          \/ [registry EXCEPT ![del.root].del = TRUE][r].del = TRUE
      BY <1>t, <1>2, <2>1 DEF Backup
    <3> QED BY <1>0, <1>6, <2>1, <3>1 DEF DeletionNotes
  <2>2. CASE StartupDiscoversPrevious \/ StartupDiscoversDefault
    BY <1>t, <1>0, <1>6, <2>2 DEF StartupDiscoversPrevious, StartupDiscoversDefault, Discover,
       Registered
  <2>3. ASSUME NEW x \in Root, DismissBackup(x)
        PROVE  registry'[r].del = registry[r].del
    BY <1>t, <2>3 DEF DismissBackup, Backup
  <2> QED BY <1>0, <1>1, <1>5, <1>6, <2>1, <2>2, <2>3, Changes
<1> QED BY <1>1, <1>3, <1>4, <1>5, <1>6, Changes

(* What a deletion that runs counts on. *)
DeletionRuns ==
  /\ mode = "normal"
  /\ op.pc \in BeginPhases \cup {"idle", "recover"}
  /\ del.root \in Root \ {booted.active}
  /\ op.pc = "recover" => del.pc \notin {"note", "forget"} /\ ~del.asked
  /\ del.pc # "forget" => registry[del.root].ino # 0
  /\ del.pc \notin {"note", "forget"} => registry[del.root].del
  /\ del.pc = "rename" => grave[del.root].ino = 0
  /\ del.pc = "removing" => grave[del.root].ino # 0 /\ grave[del.root].ino = registry[del.root].ino

LEMMA DeletionParts ==
  DeletionOK <=> GravesNoted /\ (del.pc # "idle" => DeletionRuns)
BY DEF DeletionOK, GravesNoted, DeletionRuns, Registered, Exists

(* A step of something else leaves it all that. *)
LEMMA DeletionGoesOn ==
  ASSUME HomeInv, [Next]_vars, ~DeletionSteps, ~StartupSteps, del'.pc # "idle"
  PROVE  DeletionRuns'
<1>1. del' = del /\ mode' # "down"
  <2>1. CASE ProcessStep
    BY <2>1 DEF ProcessStep, backupVars, NoDeletion
  <2>2. CASE del' = del /\ mode' = mode
    BY <2>2 DEF HomeInv, DeletionOK
  <2> QED BY <2>1, <2>2 DEF Next, Detach, Attach, Replace, backupVars, vars, migrationVars
<1>2. DeletionRuns
  BY <1>1, DeletionParts DEF HomeInv
<1>3. ~MigrationSteps
  BY <1>2, NotInNormal DEF DeletionRuns
<1>4. grave' = grave /\ registry' = registry
  BY <1>3, Changes DEF MigrationSteps, DeletionSteps, StartupSteps
<1>5. mode' = "normal" /\ booted' = booted
  BY <1>1, <1>2, <1>3, Changes
  DEF DeletionRuns, Boot, BootsAs, ProbeFails, ProcessEnds, MigrationSteps, DeletionSteps, StartupSteps
<1>6. op'.pc \in BeginPhases \cup {"idle", "recover"} /\ (op'.pc = "recover" => op.pc = "recover")
  <2>1. BeginSteps => op'.pc \in BeginPhases \cup {"idle"}
    BY <1>2, <1>5, BeginMoves DEF DeletionRuns
  <2>2. op' = op \/ BeginSteps
    BY <1>2, <1>5, NormalActions DEF DeletionRuns, DeletionSteps
  <2> QED BY <1>2, <2>1, <2>2 DEF DeletionRuns, BeginPhases
<1> QED BY <1>1, <1>2, <1>4, <1>5, <1>6 DEF DeletionRuns

LEMMA DeletionMoved ==
  ASSUME HomeInv, DeletionSteps, del'.pc # "idle"
  PROVE  DeletionRuns'
<1>t. /\ dir \in [Root -> Tree] /\ grave \in [Root -> Tree] /\ registry \in [Root -> Backup]
      /\ del \in DelType
  BY TypedOp DEF HomeInv, Typed, MigrationTypeOK, DiskTypeOK
<1>0. del.pc # "idle" => DeletionRuns
  BY DeletionParts DEF HomeInv
<1>1. ASSUME NEW r \in Root, DeleteBackup(r)
      PROVE  DeletionRuns'
  <2>1. /\ mode = "normal" /\ op.pc \in BeginPhases \cup {"idle"} /\ op.pc # "recover"
        /\ r # booted.active /\ registry[r].ino # 0
        /\ UNCHANGED <<mode, op, booted, registry, grave>>
    BY <1>1 DEF DeleteBackup, MayBeDeleted, Registered, BeginPhases, migrationVars, diskVars
  <2>2. del'.root = r /\ del'.pc \in {"move", "note"} /\ (del'.pc = "move" => registry[r].del)
    BY <1>1 DEF DeleteBackup
  <2> QED BY <2>1, <2>2 DEF DeletionRuns
<1>2. ASSUME NEW r \in Root, DismissBackup(r)
      PROVE  FALSE
  BY <1>2 DEF DismissBackup, Deleting, backupVars
<1> SUFFICES ASSUME DeletionRuns, del.pc # "idle"
             PROVE  DeletionRuns'
  BY <1>0, <1>1, <1>2
  DEF DeletionSteps, Deleting, DeletionNotes, DeletionMoves, DeletionRenames, DeletionChecks,
      DeletionRemoves, DeletionDrops, DeletionForgets
<1>3. CASE DeletionNotes
  <2>1. /\ del.pc = "note" /\ del'.pc = "move" /\ del'.root = del.root /\ del'.asked = del.asked
        /\ registry' = [registry EXCEPT ![del.root].del = TRUE]
        /\ UNCHANGED <<mode, op, booted, grave>>
    BY <1>t, <1>3, DelMoves DEF DeletionNotes, Deleting
  <2>2. registry'[del.root].del /\ registry'[del.root].ino = registry[del.root].ino
    BY <1>t, <2>1 DEF DeletionRuns, Backup
  <2> QED BY <2>1, <2>2 DEF DeletionRuns
<1>4. CASE DeletionMoves
  <2>1. /\ del.pc = "move" /\ UNCHANGED <<mode, op, booted, registry, grave>>
    BY <1>4 DEF DeletionMoves, Deleting, migrationVars, diskVars
  <2>2. /\ del'.pc \in {"rename", "remove", "drop"} /\ del'.root = del.root
        /\ del'.asked = del.asked
    BY <1>t, <1>4, DelMoves DEF DeletionMoves
  <2>3. del'.pc = "rename" => grave[del.root].ino = 0
    <3>1. Exists(At(del.root)) => del.root \in attached
      BY DEF Exists, At, NoTree
    <3> QED BY <1>t, <1>4, <3>1, DelMoves DEF DeletionMoves, Exists
  <2> QED BY <2>1, <2>2, <2>3 DEF DeletionRuns
<1>5. CASE DeletionRenames
  <2>1. /\ del.pc = "rename" /\ UNCHANGED <<mode, op, booted, registry>>
    BY <1>5 DEF DeletionRenames, Deleting
  <2>2. /\ del'.pc = "remove" /\ del'.root = del.root /\ del'.asked = del.asked
    BY <1>t, <1>5, DelMoves DEF DeletionRenames
  <2> QED BY <2>1, <2>2 DEF DeletionRuns
<1>6. CASE DeletionChecks
  <2>1. /\ del.pc = "remove" /\ UNCHANGED <<mode, op, booted, registry, grave>>
    BY <1>6 DEF DeletionChecks, Deleting, migrationVars, diskVars
  <2>2. /\ del'.pc = "removing" /\ del'.root = del.root /\ del'.asked = del.asked
        /\ HasIdentity(grave[del.root], registry[del.root])
    BY <1>t, <1>6, DelMoves DEF DeletionChecks
  <2> QED BY <2>1, <2>2 DEF DeletionRuns, HasIdentity, Exists
<1>7. CASE DeletionRemoves
  <2>1. /\ del.pc = "removing" /\ UNCHANGED <<mode, op, booted, registry>>
    BY <1>7 DEF DeletionRemoves, Deleting
  <2>2. /\ del'.pc \in {"drop", "removing"} /\ del'.root = del.root /\ del'.asked = del.asked
    BY <1>t, <1>7, DelMoves DEF DeletionRemoves
  <2>3. del'.pc = "removing" => grave'[del.root].ino = grave[del.root].ino
    <3>1. ASSUME NEW id,
                 grave' = [grave EXCEPT ![del.root].ver = Torn, ![del.root].id = id]
          PROVE  grave'[del.root].ino = grave[del.root].ino
      BY <1>t, <3>1 DEF DeletionRuns, Tree
    <3> QED BY <1>t, <1>7, <3>1, DelMoves DEF DeletionRemoves
  <2> QED BY <2>1, <2>2, <2>3 DEF DeletionRuns
<1>8. CASE DeletionDrops
  <2>1. /\ del.pc = "drop" /\ UNCHANGED <<mode, op, booted>>
    BY <1>8 DEF DeletionDrops, Deleting
  <2>2. /\ del'.pc = "forget" /\ del'.root = del.root /\ del.asked
    BY <1>t, <1>8, DelMoves DEF DeletionDrops
  <2> QED BY <2>1, <2>2 DEF DeletionRuns
<1>9. CASE DeletionForgets
  BY <1>t, <1>9, DelMoves DEF DeletionForgets
<1> QED BY <1>1, <1>2, <1>3, <1>4, <1>5, <1>6, <1>7, <1>8, <1>9 DEF DeletionSteps

LEMMA DeletionStep ==
  ASSUME HomeInv, [Next]_vars
  PROVE  DeletionOK'
<1>1. GravesNoted'
  BY GravesStep
<1>2. ASSUME StartupSteps, del'.pc # "idle"
      PROVE  DeletionRuns'
  <2>1. del.pc = "idle"
    BY <1>2 DEF StartupSteps, StartupRecovers, StartupDiscoversPrevious, StartupDiscoversDefault,
       StartupForgets, StartupFinishes, Running, Deleting, HomeInv, DeletionOK, BeginPhases
  <2>2. mode = "normal"
    <3>1. op.pc \in StartupPhases
      BY <1>2 DEF StartupSteps, StartupRecovers, StartupDiscoversPrevious,
         StartupDiscoversDefault, StartupForgets, StartupFinishes, Running, StartupPhases
    <3> QED BY <3>1, InNormal
  <2>3. StartupRecovers /\ del' # del
    BY <1>2, <2>1 DEF StartupSteps, StartupDiscoversPrevious, StartupDiscoversDefault,
       StartupForgets, StartupFinishes, backupVars
  <2>4. PICK r \in Noted : r # booted.active /\ del' = [root |-> r, asked |-> FALSE, pc |-> "move"]
    BY <1>2, <2>3 DEF StartupRecovers, backupVars, NoDeletion
  <2>5. r \in Root /\ registry[r].del /\ registry[r].ino # 0
    BY DEF Noted, HomeInv, TreesOK, Registered
  <2>6. op.pc = "recover" /\ UNCHANGED <<op, mode, booted, registry, grave>>
    BY <2>3 DEF StartupRecovers, Running, backupVars, diskVars
  <2> QED BY <2>2, <2>4, <2>5, <2>6 DEF DeletionRuns
<1>3. del'.pc # "idle" => DeletionRuns'
  BY <1>2, DeletionGoesOn, DeletionMoved
<1> QED BY <1>1, <1>3, DeletionParts DEF DeletionOK, GravesNoted, DeletionRuns, Registered, Exists

-----------------------------------------------------------------------------
(* A process that moves the data.                                          *)

LEMMA MigratingBoot ==
  ASSUME HomeInv, Boot, mode' = "migrating"
  PROVE  MigratingOK'
<1>1. BootIsMigrating
  BY DEF Boot, BootsAs
<1>2. /\ op'.pc = "idle" /\ booted'.pending = pending
      /\ UNCHANGED <<dir, attached, pending, runtime>>
  BY DEF Boot, BootsAs, ProbeFails, diskVars, Idle
<1>3. pending.tgtId # 0 => ~Leased(pending.src) /\ ~Leased(pending.tgt)
  <2>1. pending.src # NoRoot
    BY <1>1 DEF BootIsMigrating
  <2>2. pending.src \in Root /\ pending.tgt \in Root
    BY <2>1 DEF HomeInv, MoveOK, Typed, MigrationTypeOK, DiskTypeOK, Pending
  <2> QED BY <2>1, <2>2 DEF HomeInv, RuntimeOK
<1> QED
  BY <1>1, <1>2, <1>3
  DEF MigratingOK, BootIsMigrating, MovePhases, FreshPhases, Source, Target, Leased

TreesMayBeWritten == dir' = dir \/ \E r \in Root : RuntimeWrites(r)

(* What a step does to it that lets it go on. *)
LEMMA MigratingActions ==
  ASSUME HomeInv, [Next]_vars, mode = "migrating", mode' = "migrating"
  PROVE  /\ Source' = Source /\ Target' = Target
         /\ booted'.pending.srcId = booted.pending.srcId
         /\ \A r \in Root : ~Leased(r) => ~Leased(r)'
         /\ \/ UNCHANGED <<op, booted, pending, staging, registry>> /\ TreesMayBeWritten
            \/ MigrationSteps
<1>t. op.pc \in MovePhases /\ del.pc = "idle"
  BY DEF HomeInv, MigratingOK, DeletionOK
<1>1. ~BeginSteps /\ ~StartRuntime
  BY <1>t DEF MovePhases, FreshPhases, BeginSteps, BeginMigration, BeginInspects, BeginSchedules,
     BeginRelaunches, BeginUndoes, BeginUnfences, BeginRelaunchesAgain, Running, StartRuntime
<1>2. ~DeletionSteps /\ ~StartupSteps
  BY <1>t DEF MovePhases, FreshPhases, DeletionSteps, StartupSteps, DeleteBackup, DismissBackup,
     DeletionNotes, DeletionMoves, DeletionRenames, DeletionChecks, DeletionRemoves, DeletionDrops,
     DeletionForgets, StartupRecovers, StartupDiscoversPrevious, StartupDiscoversDefault,
     StartupForgets, StartupFinishes, Running, Deleting
<1>3. /\ Source' = Source /\ Target' = Target
      /\ booted'.pending.srcId = booted.pending.srcId
  <2>1. \A x : booted' = [booted EXCEPT !.pending = [booted.pending EXCEPT !.tgtId = x]] =>
          /\ booted'.pending.src = booted.pending.src /\ booted'.pending.tgt = booted.pending.tgt
          /\ booted'.pending.srcId = booted.pending.srcId
    BY DEF HomeInv, Typed, MigrationTypeOK, Pending
  <2>2. booted' = booted \/ MigrationAnnounces
    BY <1>2, Changes DEF Boot, BootsAs, ProbeFails, ProcessEnds, DeletionSteps, StartupSteps
  <2> QED BY <2>1, <2>2 DEF MigrationAnnounces, Source, Target
<1>4. \A r \in Root : ~Leased(r) => ~Leased(r)'
  BY <1>1, LeaseMoves
<1>5. \/ UNCHANGED <<op, booted, pending, staging, registry>> /\ TreesMayBeWritten
      \/ MigrationSteps
  <2>1. CASE Process
    <3>1. ~Boot /\ ~Crash /\ ~Quit
      BY DEF Boot, Crash, Quit, ProcessEnds
    <3>2. ASSUME NEW r \in Root, RuntimeStalls(r) \/ RuntimeResumes(r) \/ RuntimeWrites(r)
          PROVE  UNCHANGED <<op, booted, pending, staging, registry>> /\ TreesMayBeWritten
      <4>1. CASE RuntimeWrites(r)
        BY <4>1 DEF RuntimeWrites, TreesMayBeWritten
      <4>2. CASE RuntimeStalls(r) \/ RuntimeResumes(r)
        BY <4>2 DEF RuntimeStalls, RuntimeResumes, diskVars, TreesMayBeWritten
      <4> QED BY <3>2, <4>1, <4>2
    <3> QED BY <1>1, <2>1, <3>1, <3>2 DEF Process
  <2>2. CASE \E r \in Root : Detach(r) \/ Attach(r) \/ Replace(r)
    BY <2>2 DEF Detach, Attach, Replace, TreesMayBeWritten
  <2>3. CASE UNCHANGED vars
    BY <2>3 DEF vars, migrationVars, diskVars, TreesMayBeWritten
  <2> QED BY <1>1, <1>2, <2>1, <2>2, <2>3 DEF Next, ProcessStep
<1> QED BY <1>3, <1>4, <1>5

(* Which step leads to a phase. *)
LEMMA MigrationMoves ==
  ASSUME op \in OpType, op.pc \in MovePhases, mode = "migrating", mode' = "migrating",
         MigrationSteps
  PROVE  /\ op'.pc \in MovePhases
         /\ op'.pc = "adopt" => MigrationStarts /\ CommitWasInterrupted
         /\ op'.pc = "stage" => MigrationScans
         /\ op'.pc = "own" => MigrationStages
         /\ op'.pc = "copy" => MigrationOwns
         /\ op'.pc = "verify" => MigrationCopies
         /\ op'.pc = "mark" => MigrationVerifies
         /\ op'.pc = "announce" => MigrationMarks
         /\ op'.pc = "register" => MigrationAnnounces
         /\ op'.pc = "vacate" => MigrationRegisters /\ op.pc = "register"
         /\ op'.pc = "commit" => MigrationVacates
         /\ op'.pc = "point" => MigrationCommits \/ (MigrationRegisters /\ op.pc = "adopt")
<1>1. CASE RunMigration
  <2>1. op'.pc \in {"start"}
    BY Moves, <1>1 DEF RunMigration
  <2> QED BY <1>1, <2>1 DEF MovePhases, FreshPhases
<1>2. CASE MigrationStarts
  <2>1. op'.pc = "clean" \/ (op'.pc = "adopt" /\ CommitWasInterrupted)
    BY Moves, <1>2 DEF MigrationStarts
  <2> QED BY <1>2, <2>1 DEF MovePhases, FreshPhases
<1>3. CASE MigrationCleans
  <2>1. op'.pc \in {op.pc, "scan", "idle"}
    BY Moves, <1>3 DEF MigrationCleans, CleanStaging
  <2>2. op.pc \in {"clean", "clean up"}
    BY <1>3 DEF MigrationCleans, Running
  <2> QED BY <1>3, <2>1, <2>2 DEF MovePhases, FreshPhases
<1>4. CASE MigrationScans
  <2>1. op'.pc \in {"stage", "idle"}
    BY Moves, <1>4 DEF MigrationScans, ScanGoesOn
  <2> QED BY <1>4, <2>1 DEF MovePhases, FreshPhases
<1>5. CASE MigrationStages
  <2>1. op'.pc \in {"own", "idle"}
    BY Moves, <1>5 DEF MigrationStages
  <2> QED BY <1>5, <2>1 DEF MovePhases, FreshPhases
<1>6. CASE MigrationOwns
  <2>1. op'.pc \in {"copy", "idle"}
    BY Moves, <1>6 DEF MigrationOwns
  <2> QED BY <1>6, <2>1 DEF MovePhases, FreshPhases
<1>7. CASE MigrationCopies
  <2>1. op'.pc \in {"verify", "idle"}
    BY Moves, <1>7 DEF MigrationCopies
  <2> QED BY <1>7, <2>1 DEF MovePhases, FreshPhases
<1>8. CASE MigrationVerifies
  <2>1. op'.pc \in {"mark", "idle"}
    BY Moves, <1>8 DEF MigrationVerifies
  <2> QED BY <1>8, <2>1 DEF MovePhases, FreshPhases
<1>9. CASE MigrationLosesTarget
  <2>1. op'.pc \in {"idle"}
    BY Moves, <1>9 DEF MigrationLosesTarget
  <2> QED BY <1>9, <2>1 DEF MovePhases, FreshPhases
<1>10. CASE MigrationMarks
  <2>1. op'.pc \in {"announce", "idle"}
    BY Moves, <1>10 DEF MigrationMarks
  <2> QED BY <1>10, <2>1 DEF MovePhases, FreshPhases
<1>11. CASE MigrationAnnounces
  <2>1. op'.pc \in {"register", "idle"}
    BY Moves, <1>11 DEF MigrationAnnounces
  <2> QED BY <1>11, <2>1 DEF MovePhases, FreshPhases
<1>12. CASE MigrationRegisters
  <2>1. CASE op.pc = "register"
    <3>1. op'.pc \in {"vacate", "idle"}
      BY Moves, <1>12, <2>1 DEF MigrationRegisters, RegisterSource, Running
    <3> QED BY <1>12, <2>1, <3>1 DEF MovePhases, FreshPhases
  <2>2. CASE op.pc = "adopt"
    <3>1. op'.pc \in {"point", "idle"}
      BY Moves, <1>12, <2>2 DEF MigrationRegisters, RegisterSource, Running
    <3> QED BY <1>12, <2>2, <3>1 DEF MovePhases, FreshPhases
  <2> QED BY <1>12, <2>1, <2>2 DEF MigrationRegisters, Running
<1>13. CASE MigrationVacates
  <2>1. op'.pc \in {"commit", "idle"}
    BY Moves, <1>13 DEF MigrationVacates
  <2> QED BY <1>13, <2>1 DEF MovePhases, FreshPhases
<1>14. CASE MigrationCommits
  <2>1. op'.pc \in {"point", "idle"}
    BY Moves, <1>14 DEF MigrationCommits
  <2> QED BY <1>14, <2>1 DEF MovePhases, FreshPhases
<1>15. CASE MigrationPoints
  <2>1. op'.pc \in {"settle", "idle"}
    BY Moves, <1>15 DEF MigrationPoints, WritePointer
  <2> QED BY <1>15, <2>1 DEF MovePhases, FreshPhases
<1>16. CASE Settle
  <2>1. op'.pc \in {"restart", "idle"}
    BY Moves, <1>16 DEF Settle
  <2> QED BY <1>16, <2>1 DEF MovePhases, FreshPhases
<1>17. CASE CancelMigration
  <2>1. op'.pc \in {"clean up"}
    BY Moves, <1>17 DEF CancelMigration
  <2> QED BY <1>17, <2>1 DEF MovePhases, FreshPhases
<1>18. CASE CancelCleans
  <2>1. op'.pc \in {op.pc, "point back", "idle"}
    BY Moves, <1>18 DEF CancelCleans, CleanStaging
  <2>2. op.pc \in {"clean", "clean up"}
    BY <1>18 DEF CancelCleans, Running
  <2> QED BY <1>18, <2>1, <2>2 DEF MovePhases, FreshPhases
<1>19. CASE CancelPoints
  <2>1. op'.pc \in {"settle", "idle"}
    BY Moves, <1>19 DEF CancelPoints, WritePointer
  <2> QED BY <1>19, <2>1 DEF MovePhases, FreshPhases
<1>20. CASE Restart
  BY <1>20 DEF Restart, ProcessEnds
<1>21. CASE RetryStartup \/ RestorePreviousRoot
  BY <1>21 DEF RetryStartup, RestorePreviousRoot
<1>22. CASE RestoreChooses
  BY <1>22 DEF RestoreChooses, Running, MovePhases, FreshPhases
<1> QED
  BY <1>1, <1>2, <1>3, <1>4, <1>5, <1>6, <1>7, <1>8, <1>9, <1>10, <1>11,
     <1>12, <1>13, <1>14, <1>15, <1>16, <1>17, <1>18, <1>19, <1>20, <1>21,
     <1>22
  DEF MigrationSteps

(* What the steps of a move change besides the phase. *)
LEMMA MigrationLeaves ==
  ASSUME HomeInv, [Next]_vars, mode = "migrating", mode' = "migrating"
  PROVE  /\ ~MigrationAnnounces => booted'.pending = booted.pending
         /\ ~MigrationAnnounces => pending' \in {pending, NoPending}
         /\ op.pc \in FreshPhases \cup {"commit", "adopt", "point"} => ~Settle
         /\ op.pc \in FreshPhases \cup {"commit", "adopt", "point"} /\ ~MigrationAnnounces =>
              pending' = pending
<1>1. ~BeginSchedules /\ ~BeginUndoes /\ ~StartupFinishes /\ ~DeletionForgets /\ ~StartupForgets
  BY DEF HomeInv, MigratingOK, DeletionOK, MovePhases, FreshPhases, BeginSchedules, BeginUndoes,
     StartupFinishes, StartupForgets, DeletionForgets, Running, Deleting
<1>2. op.pc \in FreshPhases \cup {"commit", "adopt", "point"} => ~Settle
  BY DEF FreshPhases, Settle, Running
<1>3. ~MigrationAnnounces => booted' = booted
  BY <1>1, Changes DEF Boot, BootsAs, ProbeFails, ProcessEnds
<1>4. ~MigrationAnnounces => pending' = pending \/ (Settle /\ pending' \in {pending, NoPending})
  BY <1>1, Changes DEF Settle
<1> QED BY <1>2, <1>3, <1>4

(* The pending file, and the leases at the two ends of the move.           *)
LEMMA MigratingFiles ==
  ASSUME HomeInv, [Next]_vars, mode = "migrating", mode' = "migrating"
  PROVE  /\ pending'.src # NoRoot =>
              /\ pending'.src = Source' /\ pending'.tgt = Target'
              /\ pending'.srcId = booted'.pending.srcId
              /\ booted'.pending.tgtId # 0 => pending'.tgtId # 0
         /\ booted'.pending.tgtId # 0 => ~Leased(Source)' /\ ~Leased(Target)'
<1>t. /\ pending \in Pending /\ booted \in BootedType
      /\ booted.pending \in Pending /\ staging.id \in Nat
  BY DEF HomeInv, Typed, MigrationTypeOK, DiskTypeOK, BootedType, Tree
<1>1. /\ Source' = Source /\ Target' = Target /\ booted'.pending.srcId = booted.pending.srcId
      /\ \A r \in Root : ~Leased(r) => ~Leased(r)'
  BY MigratingActions
<1>2. pending.src # NoRoot =>
        /\ pending.src = Source /\ pending.tgt = Target /\ pending.srcId = booted.pending.srcId
        /\ booted.pending.tgtId # 0 => pending.tgtId # 0
  BY DEF HomeInv, MigratingOK
<1>3. PICK a, b \in Root : a = Source /\ b = Target
  BY SourceOfMove
<1>4. Leased(Source)' = Leased(a)' /\ Leased(Target)' = Leased(b)'
  BY <1>1, <1>3 DEF Leased
<1>5. booted.pending.tgtId # 0 => ~Leased(Source)' /\ ~Leased(Target)'
  BY <1>1, <1>3, <1>4 DEF HomeInv, MigratingOK
<1>6. CASE MigrationAnnounces
  <2>1. op.pc = "announce" /\ staging.id # 0 /\ ~Leased(Source) /\ dir[Target].ver = EmptyDir
    BY <1>6 DEF MigrationAnnounces, Running, HomeInv, MigratingOK, FreshPhases
  <2>2. PICK q : q = [booted.pending EXCEPT !.tgtId = staging.id]
    OBVIOUS
  <2>3. q.src = Source /\ q.tgt = Target /\ q.srcId = booted.pending.srcId /\ q.tgtId = staging.id
    BY <1>t, <2>2 DEF Pending, Source, Target
  <2>4. booted' = [booted EXCEPT !.pending = q] => booted'.pending = q
    BY <1>t DEF BootedType
  <2>5. \/ pending' = q /\ booted'.pending = q
        \/ pending' \in {pending, q} /\ booted'.pending = booted.pending
    BY <1>6, <2>2, <2>4 DEF MigrationAnnounces
  <2>6. ~Leased(a) /\ ~Leased(b)
    BY <1>3, <2>1 DEF HomeInv, RuntimeOK
  <2>7. ~Leased(Source)' /\ ~Leased(Target)'
    BY <1>1, <1>4, <2>6
  <2> QED BY <1>1, <1>2, <2>1, <2>3, <2>5, <2>7
<1>7. CASE ~MigrationAnnounces
  <2>1. booted'.pending = booted.pending /\ pending' \in {pending, NoPending}
    BY <1>7, MigrationLeaves
  <2> QED BY <1>1, <1>2, <1>5, <2>1 DEF NoPending
<1> QED BY <1>6, <1>7

(* The target stays empty until the staging tree takes its name. *)
LEMMA MigratingTarget ==
  ASSUME HomeInv, [Next]_vars, mode = "migrating", mode' = "migrating"
  PROVE  /\ op'.pc \in FreshPhases => ~Leased(Source)' /\ dir'[Target'].ver = EmptyDir
         /\ op'.pc = "commit" => dir'[Target'].ver = EmptyDir
<1>t. op \in OpType /\ op.pc \in MovePhases /\ dir \in [Root -> Tree]
      /\ runtime \in [Root -> Runtime]
  BY TypedOp DEF HomeInv, MigratingOK, Typed, MigrationTypeOK, DiskTypeOK
<1>1. /\ Source' = Source /\ Target' = Target
      /\ \A r \in Root : ~Leased(r) => ~Leased(r)'
      /\ \/ UNCHANGED <<op, booted, pending, staging, registry>> /\ TreesMayBeWritten
         \/ MigrationSteps
  BY MigratingActions
<1>2. /\ op.pc \in FreshPhases => ~Leased(Source) /\ dir[Target].ver = EmptyDir
      /\ op.pc = "commit" => dir[Target].ver = EmptyDir
  BY DEF HomeInv, MigratingOK
<1>3. PICK a, b \in Root : a = Source /\ b = Target
  BY SourceOfMove
<1>4. Leased(Source)' = Leased(a)'
  BY <1>1, <1>3 DEF Leased
<1>5. CASE UNCHANGED <<op, booted, pending, staging, registry>> /\ TreesMayBeWritten
  <2>1. dir[b].ver = EmptyDir => dir'[b].ver = EmptyDir
    <3>1. dir[b].ver = EmptyDir => ~Leased(b)
      BY DEF HomeInv, RuntimeOK
    <3> QED BY <1>5, <3>1, Written DEF TreesMayBeWritten
  <2> QED BY <1>1, <1>2, <1>3, <1>4, <1>5, <2>1
<1>6. CASE MigrationSteps
  <2>1. op'.pc = "stage" => ~Leased(Source)' /\ dir'[Target'].ver = EmptyDir
    <3> SUFFICES ASSUME op'.pc = "stage"
                 PROVE  ~Leased(a)' /\ dir[Target].ver = EmptyDir /\ dir' = dir
      BY <1>1, <1>4
    <3>1. MigrationScans
      BY <1>t, <1>6, MigrationMoves
    <3>2. TargetIsFree(Target) /\ Exists(At(Source)) /\ ~LeaseIsHeld /\ dir' = dir
      BY <1>t, <3>1, Moves DEF MigrationScans, ScanGoesOn, diskVars
    <3>3. Source \in attached
      BY <3>2 DEF Exists, At, NoTree
    <3>4. runtime' = [runtime EXCEPT ![Source] = NoRuntime]
      BY <3>1, <3>2, <3>3 DEF MigrationScans
    <3>5. runtime'[a] = NoRuntime
      BY <1>t, <1>3, <3>4
    <3> QED BY <3>2, <3>5 DEF TargetIsFree, NoRuntime, Leased
  <2>2. op'.pc \in FreshPhases \ {"stage"} => op.pc \in FreshPhases /\ dir' = dir
    <3>1. op'.pc \in FreshPhases \ {"stage"} =>
             \/ MigrationStages \/ MigrationOwns \/ MigrationCopies \/ MigrationVerifies
             \/ MigrationMarks \/ MigrationAnnounces
             \/ MigrationRegisters /\ op.pc = "register"
      BY <1>t, <1>6, MigrationMoves DEF FreshPhases
    <3> QED BY <3>1 DEF MigrationStages, MigrationOwns, MigrationCopies, MigrationVerifies,
               MigrationMarks, MigrationAnnounces, MigrationRegisters, Running, FreshPhases
  <2>3. op'.pc = "commit" => dir'[Target'].ver = EmptyDir
    <3> SUFFICES ASSUME op'.pc = "commit"
                 PROVE  dir'[Target].ver = EmptyDir
      BY <1>1
    <3>1. MigrationVacates /\ Target \in Root
      BY <1>t, <1>6, MigrationMoves, SourceOfMove
    <3>2. dir' = [dir EXCEPT ![Target] = NoTree]
      BY <1>t, <3>1, Moves DEF MigrationVacates
    <3> QED BY <1>t, <3>1, <3>2 DEF NoTree
  <2> QED BY <1>1, <1>2, <1>3, <1>4, <2>1, <2>2, <2>3
<1> QED BY <1>1, <1>5, <1>6

(* The staging tree is made, filled with the data of the source, marked,   *)
(* announced, and becomes the target.                                      *)
LEMMA MigratingStaging ==
  ASSUME HomeInv, [Next]_vars, mode = "migrating", mode' = "migrating"
  PROVE  /\ op'.pc \in {"own", "copy", "verify", "mark", "announce", "register", "vacate",
                         "commit"} => Exists(staging')
         /\ op'.pc \in {"mark", "announce", "register", "vacate", "commit"} =>
              staging'.ver = dir'[Source'].ver
         /\ op'.pc = "announce" => staging'.id # 0
<1>t. /\ op \in OpType /\ op.pc \in MovePhases /\ dir \in [Root -> Tree] /\ staging \in Tree
      /\ trees \in Nat
  BY TypedOp DEF HomeInv, MigratingOK, Typed, MigrationTypeOK, DiskTypeOK
<1>1. /\ Source' = Source /\ Target' = Target
      /\ \/ UNCHANGED <<op, booted, pending, staging, registry>> /\ TreesMayBeWritten
         \/ MigrationSteps
  BY MigratingActions
<1>2. /\ op.pc \in {"own", "copy", "verify", "mark", "announce", "register", "vacate", "commit"} =>
           Exists(staging)
      /\ op.pc \in {"mark", "announce", "register", "vacate", "commit"} =>
           staging.ver = dir[Source].ver /\ ~Leased(Source)
      /\ op.pc = "announce" => staging.id # 0
  <2>1. op.pc = "commit" => ~Leased(Source)
    BY DEF HomeInv, MigratingOK
  <2> QED BY <2>1 DEF HomeInv, MigratingOK, FreshPhases
<1>3. CASE UNCHANGED <<op, booted, pending, staging, registry>> /\ TreesMayBeWritten
  <2>1. ~Leased(Source) => dir'[Source] = dir[Source]
    BY <1>3, SourceOfMove, Written DEF TreesMayBeWritten
  <2> QED BY <1>1, <1>2, <1>3, <2>1
<1>4. CASE MigrationSteps
  <2>1. CASE op'.pc = "own"
    <3>1. MigrationStages
      BY <1>t, <1>4, <2>1, MigrationMoves
    <3>2. staging' = [ino |-> trees', id |-> 0, ver |-> EmptyDir] /\ trees' = trees + 1
      BY <1>t, <2>1, <3>1, Moves DEF MigrationStages
    <3> QED BY <1>t, <2>1, <3>2 DEF Exists
  <2>2. CASE op'.pc = "copy"
    <3>1. MigrationOwns
      BY <1>t, <1>4, <2>2, MigrationMoves
    <3> QED BY <1>2, <2>2, <3>1 DEF MigrationOwns, Running
  <2>3. CASE op'.pc = "verify"
    <3>1. MigrationCopies
      BY <1>t, <1>4, <2>3, MigrationMoves
    <3>2. [staging EXCEPT !.ver = Torn].ino = staging.ino
      BY <1>t DEF Tree
    <3> QED BY <1>2, <2>3, <3>1, <3>2 DEF MigrationCopies, Running, Exists
  <2>4. CASE op'.pc = "mark"
    <3>1. MigrationVerifies
      BY <1>t, <1>4, <2>4, MigrationMoves
    <3>2. staging' = [staging EXCEPT !.ver = dir[Source].ver]
      BY <1>t, <2>4, <3>1, Moves DEF MigrationVerifies
    <3>3. staging'.ino = staging.ino /\ staging'.ver = dir[Source].ver
      BY <1>t, <3>2 DEF Tree
    <3> QED BY <1>1, <1>2, <2>4, <3>1, <3>3 DEF MigrationVerifies, Running, Exists
  <2>5. CASE op'.pc = "announce"
    <3>1. MigrationMarks
      BY <1>t, <1>4, <2>5, MigrationMoves
    <3>2. staging' = [staging EXCEPT !.id = staging.ino]
      BY <1>t, <2>5, <3>1, Moves DEF MigrationMarks
    <3>3. staging'.ino = staging.ino /\ staging'.ver = staging.ver /\ staging'.id = staging.ino
      BY <1>t, <3>2 DEF Tree
    <3> QED BY <1>1, <1>2, <2>5, <3>1, <3>3 DEF MigrationMarks, Running, Exists
  <2>6. CASE op'.pc = "register"
    <3>1. MigrationAnnounces
      BY <1>t, <1>4, <2>6, MigrationMoves
    <3> QED BY <1>1, <1>2, <2>6, <3>1 DEF MigrationAnnounces, Running
  <2>7. CASE op'.pc = "vacate"
    <3>1. MigrationRegisters /\ op.pc = "register"
      BY <1>t, <1>4, <2>7, MigrationMoves
    <3> QED BY <1>1, <1>2, <2>7, <3>1 DEF MigrationRegisters
  <2>8. CASE op'.pc = "commit"
    <3>1. MigrationVacates
      BY <1>t, <1>4, <2>8, MigrationMoves
    <3>2. dir' = [dir EXCEPT ![Target] = NoTree] /\ staging' = staging /\ op.pc = "vacate"
      BY <1>t, <2>8, <3>1, Moves DEF MigrationVacates, Running
    <3>3. dir'[Source] = dir[Source]
      BY <1>t, <3>2, SourceOfMove
    <3> QED BY <1>1, <1>2, <2>8, <3>2, <3>3
  <2> QED BY <2>1, <2>2, <2>3, <2>4, <2>5, <2>6, <2>7, <2>8
<1> QED BY <1>1, <1>3, <1>4

(* From the announcement on, the id of the move is that of the tree which  *)
(* becomes the target, and the source has its record.                      *)
LEMMA MigratingCommit ==
  ASSUME HomeInv, [Next]_vars, mode = "migrating", mode' = "migrating"
  PROVE  /\ op'.pc \in {"register", "vacate", "commit"} =>
              /\ booted'.pending.tgtId = staging'.id
              /\ pending' = booted'.pending
              /\ pending'.tgtId # 0
         /\ op'.pc \in {"adopt", "point"} =>
              booted'.pending.tgtId # 0 /\ dir'[Target'].id = booted'.pending.tgtId
         /\ op'.pc \in {"vacate", "commit", "point"} =>
              /\ registry'[Source'].ino # 0 /\ ~registry'[Source'].del
              /\ registry'[Source'].prompt
<1>t. /\ op \in OpType /\ op.pc \in MovePhases /\ dir \in [Root -> Tree] /\ staging \in Tree
      /\ registry \in [Root -> Backup] /\ booted \in BootedType /\ booted.pending \in Pending
  BY TypedOp DEF HomeInv, MigratingOK, Typed, MigrationTypeOK, DiskTypeOK, BootedType
<1>1. /\ Source' = Source /\ Target' = Target
      /\ \A r \in Root : ~Leased(r) => ~Leased(r)'
      /\ \/ UNCHANGED <<op, booted, pending, staging, registry>> /\ TreesMayBeWritten
         \/ MigrationSteps
  BY MigratingActions
<1>2. /\ op.pc \in {"register", "vacate", "commit"} =>
           /\ booted.pending.tgtId = staging.id
           /\ pending = booted.pending
           /\ pending.tgtId # 0
      /\ op.pc \in {"adopt", "point"} =>
           booted.pending.tgtId # 0 /\ dir[Target].id = booted.pending.tgtId
      /\ op.pc \in {"vacate", "commit", "point"} =>
           registry[Source].ino # 0 /\ ~registry[Source].del /\ registry[Source].prompt
      /\ op.pc = "announce" => staging.id # 0
  BY DEF HomeInv, MigratingOK, Registered, FreshPhases
<1>3. CASE UNCHANGED <<op, booted, pending, staging, registry>> /\ TreesMayBeWritten
  <2>1. dir'[Target].id = dir[Target].id
    BY <1>3, SourceOfMove, Written DEF TreesMayBeWritten
  <2> QED BY <1>1, <1>2, <1>3, <2>1
<1>4. CASE MigrationSteps
  <2>s. Source \in Root /\ Target \in Root
    BY SourceOfMove
  <2>1. CASE op'.pc = "register"
    <3>1. MigrationAnnounces
      BY <1>t, <1>4, <2>1, MigrationMoves
    <3>2. PICK q : q = [booted.pending EXCEPT !.tgtId = staging.id]
      OBVIOUS
    <3>3. booted' = [booted EXCEPT !.pending = q] /\ pending' = q /\ staging' = staging
      BY <1>t, <2>1, <3>1, <3>2, Moves DEF MigrationAnnounces
    <3>4. booted'.pending = q /\ q.tgtId = staging.id
      BY <1>t, <3>2, <3>3 DEF BootedType, Pending
    <3> QED BY <1>1, <1>2, <2>1, <3>1, <3>3, <3>4 DEF MigrationAnnounces, Running
  <2>2. CASE op'.pc \in {"vacate", "point"} /\ MigrationRegisters
    <3>1. /\ Exists(At(Source)) /\ registry' = [registry EXCEPT ![Source] = Captured(Source)]
          /\ (op'.pc = "vacate" /\ op.pc = "register") \/ (op'.pc = "point" /\ op.pc = "adopt")
      <4>1. op'.pc # "idle"
        BY <2>2
      <4> QED BY <1>t, <2>2, <4>1, Moves
              DEF MigrationRegisters, RegisterSource, SourceIsCaptured, Running
    <3>2. dir[Source].ino # 0
      BY <3>1 DEF Exists, At, NoTree
    <3>3. registry'[Source].ino # 0 /\ ~registry'[Source].del /\ registry'[Source].prompt
      BY <1>t, <2>s, <3>1, <3>2 DEF Captured
    <3>4. UNCHANGED <<staging, booted, pending, runtime, dir>>
      BY <2>2 DEF MigrationRegisters
    <3> QED BY <1>1, <1>2, <2>2, <3>1, <3>3, <3>4
  <2>3. CASE op'.pc = "commit"
    <3>1. MigrationVacates
      BY <1>t, <1>4, <2>3, MigrationMoves
    <3> QED BY <1>1, <1>2, <2>3, <3>1 DEF MigrationVacates, Running
  <2>4. CASE op'.pc = "point" /\ MigrationCommits
    <3>1. dir' = [dir EXCEPT ![Target] = staging] /\ op.pc = "commit"
      BY <1>t, <2>4, Moves DEF MigrationCommits, Running
    <3>2. dir'[Target] = staging
      BY <1>t, <2>s, <3>1
    <3> QED BY <1>1, <1>2, <2>4, <3>1, <3>2 DEF MigrationCommits
  <2>5. CASE op'.pc = "adopt"
    <3>1. MigrationStarts /\ CommitWasInterrupted
      BY <1>t, <1>4, <2>5, MigrationMoves
    <3>2. booted.pending.tgtId # 0 /\ dir[Target].id = booted.pending.tgtId
      BY <3>1 DEF CommitWasInterrupted, At, NoTree
    <3> QED BY <1>1, <2>5, <3>1, <3>2 DEF MigrationStarts, diskVars
  <2> QED BY <1>t, <1>4, <2>1, <2>2, <2>3, <2>4, <2>5, MigrationMoves
<1> QED BY <1>1, <1>3, <1>4

LEMMA MigratingStep ==
  ASSUME HomeInv, [Next]_vars
  PROVE  MigratingOK'
<1> SUFFICES ASSUME mode' = "migrating"  PROVE MigratingOK'
  BY DEF MigratingOK
<1>1. mode = "migrating" \/ Boot
  BY Changes DEF ProcessEnds, MigrationAnnounces, DeletionForgets, StartupForgets, StartupFinishes
<1> SUFFICES ASSUME mode = "migrating"  PROVE MigratingOK'
  BY <1>1, MigratingBoot
<1>2. op'.pc \in MovePhases /\ Source' # NoRoot
  <2>1. op.pc \in MovePhases /\ Source # NoRoot /\ op \in OpType
    BY TypedOp DEF HomeInv, MigratingOK
  <2> QED BY <2>1, MigratingActions, MigrationMoves
<1> QED
  BY <1>2, MigratingFiles, MigratingTarget, MigratingStaging, MigratingCommit
  DEF MigratingOK, Registered

-----------------------------------------------------------------------------
(* A process that cannot open the home, and the invariant as a whole.      *)

LEMMA RecoveryBoot ==
  ASSUME HomeInv, Boot, mode' = "recovery"
  PROVE  RecoveryOK'
<1>1. ~BootIsMigrating /\ pointer.root # NoRoot
  BY DEF Boot, BootsAs, ProbeFails, BootIsNormal
<1>3. pending.src # NoRoot => pointer.prev = pending.src
  <2>1. pending.src # NoRoot => ConfiguredRoot = pending.tgt
    BY <1>1 DEF BootIsMigrating, PointerCommitted, ConfiguredRoot
  <2> QED BY <2>1 DEF HomeInv, MoveOK
<1>4. /\ op'.pc = "idle" /\ UNCHANGED <<pending, pointer>>
      /\ booted'.pointer = pointer
  BY DEF Boot, BootsAs, diskVars, Idle
<1>5. ConfiguredRoot' = pointer.root
  BY <1>1, <1>4 DEF ConfiguredRoot
<1> QED BY <1>1, <1>3, <1>4, <1>5 DEF RecoveryOK, RecoveryPhases

LEMMA RecoveryActions ==
  ASSUME HomeInv, [Next]_vars, mode = "recovery", mode' = "recovery"
  PROVE  /\ TreesMayBeWritten /\ booted' = booted /\ pending' \in {pending, NoPending}
         /\ op'.pc \in RecoveryPhases
         /\ op'.pc = "choose" => op' = op \/ RestorePreviousRoot
<1>t. /\ op.pc \in RecoveryPhases /\ del.pc = "idle"
      /\ op \in OpType
  BY TypedOp DEF HomeInv, RecoveryOK, DeletionOK
<1>1. ~BeginSteps /\ ~DeletionSteps /\ ~StartupSteps
  BY <1>t DEF RecoveryPhases, BeginSteps, BeginMigration, BeginInspects, BeginSchedules,
     BeginRelaunches, BeginUndoes, BeginUnfences, BeginRelaunchesAgain, Running,
     DeletionSteps, StartupSteps, DeleteBackup, DismissBackup,
     DeletionNotes, DeletionMoves, DeletionRenames, DeletionChecks, DeletionRemoves, DeletionDrops,
     DeletionForgets, StartupRecovers, StartupDiscoversPrevious, StartupDiscoversDefault,
     StartupForgets, StartupFinishes, Deleting
<1>2. MigrationSteps => \/ RetryStartup \/ RestorePreviousRoot \/ RestoreChooses \/ Settle
                        \/ Restart
  BY <1>t
  DEF MigrationSteps, Running, RecoveryPhases, RunMigration, MigrationStarts,
     MigrationCleans, MigrationScans, MigrationStages, MigrationOwns, MigrationCopies,
     MigrationVerifies, MigrationLosesTarget, MigrationMarks, MigrationAnnounces,
     MigrationRegisters, MigrationVacates, MigrationCommits, MigrationPoints,
     CancelMigration, CancelCleans, CancelPoints
<1>3. CASE Process
  <2>1. TreesMayBeWritten
    BY <1>3 DEF Process, Boot, Crash, Quit, ProcessEnds, StartRuntime, RuntimeStalls,
       RuntimeResumes, diskVars, TreesMayBeWritten
  <2>2. UNCHANGED <<booted, pending, op>>
    BY <1>3 DEF Process, Boot, Crash, Quit, ProcessEnds, StartRuntime, RuntimeStalls,
       RuntimeResumes, RuntimeWrites, diskVars
  <2> QED BY <1>t, <2>1, <2>2
<1>4. CASE RetryStartup \/ RestorePreviousRoot
  <2>1. op'.pc \in {"settle", "restart"} \/ (op'.pc = "choose" /\ RestorePreviousRoot)
    BY <1>t, <1>4, Moves DEF RetryStartup, RestorePreviousRoot, AfterRecovery
  <2>2. UNCHANGED <<dir, booted, pending>>
    BY <1>4 DEF RetryStartup, RestorePreviousRoot, diskVars
  <2> QED BY <2>1, <2>2 DEF RecoveryPhases, TreesMayBeWritten
<1>5. CASE RestoreChooses \/ Settle
  <2>1. op'.pc \in {"settle", "restart", "idle"}
    BY <1>t, <1>5, Moves DEF RestoreChooses, Settle, WritePointer, AfterRecovery
  <2>2. dir' = dir /\ booted' = booted /\ pending' \in {pending, NoPending}
    BY <1>5 DEF RestoreChooses, Settle, WritePointer
  <2> QED BY <2>1, <2>2 DEF RecoveryPhases, TreesMayBeWritten
<1>6. CASE Restart
  BY <1>6 DEF Restart, ProcessEnds
<1>7. CASE \E r \in Root : Detach(r) \/ Attach(r) \/ Replace(r)
  BY <1>t, <1>7 DEF Detach, Attach, Replace, TreesMayBeWritten
<1>8. CASE UNCHANGED vars
  BY <1>t, <1>8 DEF vars, migrationVars, diskVars, TreesMayBeWritten
<1> QED BY <1>1, <1>2, <1>3, <1>4, <1>5, <1>6, <1>7, <1>8 DEF Next, ProcessStep

LEMMA RecoveryStep ==
  ASSUME HomeInv, [Next]_vars
  PROVE  RecoveryOK'
<1> SUFFICES ASSUME mode' = "recovery"  PROVE RecoveryOK'
  BY DEF RecoveryOK
<1>1. mode = "recovery" \/ Boot
  BY Changes DEF ProcessEnds, MigrationAnnounces, DeletionForgets, StartupForgets, StartupFinishes
<1> SUFFICES ASSUME mode = "recovery"  PROVE RecoveryOK'
  BY <1>1, RecoveryBoot
<1>2. /\ TreesMayBeWritten /\ booted' = booted /\ pending' \in {pending, NoPending}
      /\ op'.pc \in RecoveryPhases
      /\ op'.pc = "choose" => op' = op \/ RestorePreviousRoot
  BY RecoveryActions
<1>3. ConfiguredRoot' \in {booted.pointer.root, PreviousRoot} /\ booted.pointer.root # NoRoot
  <2>1. ConfiguredRoot \in {booted.pointer.root, PreviousRoot} /\ booted.pointer.root # NoRoot
    BY DEF HomeInv, RecoveryOK
  <2>2. CASE pointer' = pointer
    BY <2>1, <2>2 DEF ConfiguredRoot
  <2>3. CASE pointer' = [root   |-> PreviousRoot,
                         id     |-> IF PreviousRoot = Default THEN 0 ELSE booted.pointer.prevId,
                         prev   |-> booted.pointer.root,
                         prevId |-> booted.pointer.id]
    <3>1. PreviousRoot # NoRoot
      BY RootAssumption DEF PreviousRoot
    <3> QED BY <2>1, <2>3, <3>1 DEF ConfiguredRoot
  <2> QED BY <2>2, <2>3, PointerStep
<1>4. RestorePreviousRoot => dir[PreviousRoot].ver # EmptyDir
  <2> SUFFICES ASSUME RestorePreviousRoot  PROVE dir[PreviousRoot].ver # EmptyDir
    OBVIOUS
  <2>1. /\ PreviousRoot \in attached /\ Exists(dir[PreviousRoot])
        /\ PreviousRoot = Default \/ dir[PreviousRoot].id = booted.pointer.prevId
    BY DEF RestorePreviousRoot, IsExpectedRoot, At, Exists, NoTree
  <2>2. PreviousRoot \in Root
    BY <2>1 DEF HomeInv, Typed, MigrationTypeOK, DiskTypeOK
  <2>3. PreviousRoot # Default => booted.pointer.prevId # 0
    BY DEF PreviousRoot, HomeInv, Identified
  <2> QED BY <2>1, <2>2, <2>3 DEF HomeInv, TreesOK
<1>5. op'.pc = "choose" => dir'[PreviousRoot].ver # EmptyDir
  <2> SUFFICES ASSUME op'.pc = "choose"  PROVE dir'[PreviousRoot].ver # EmptyDir
    OBVIOUS
  <2>1. dir[PreviousRoot].ver # EmptyDir
    BY <1>2, <1>4 DEF HomeInv, RecoveryOK
  <2>2. PreviousRoot \in Root
    BY RootAssumption DEF PreviousRoot, HomeInv, Typed, MigrationTypeOK, Pointer
  <2> QED BY <1>2, <2>1, <2>2, Written DEF TreesMayBeWritten
<1> QED BY <1>2, <1>3, <1>5 DEF HomeInv, RecoveryOK, PreviousRoot, NoPending

LEMMA HomeStep ==
  ASSUME HomeInv, [Next]_vars
  PROVE  HomeInv'
<1>1. Typed'
  <2>1. op.pc = "choose" => booted.pointer.root # NoRoot
    <3>1. op.pc = "choose" => mode = "recovery"
      BY DEF HomeInv, NormalOK, MigratingOK, MovePhases, FreshPhases, StartupPhases,
         BeginPhases, Idle, Typed, MigrationTypeOK, Mode
    <3> QED BY <3>1 DEF HomeInv, RecoveryOK
  <2> QED BY <2>1, TypedStep DEF HomeInv, DeletionOK
<1>2. mode' = "down" => op' = Idle
  <2>1. CASE mode = "down" /\ op' = op
    BY <2>1 DEF HomeInv
  <2>2. CASE ProcessEnds
    BY <2>2 DEF ProcessEnds, Return
  <2>3. ASSUME mode = "down", mode' = "down"
        PROVE  op' = op \/ ProcessEnds
    <3>1. op = Idle /\ del.pc = "idle"
      BY <2>3 DEF HomeInv, DeletionOK
    <3>2. op.pc = "idle"
      BY <3>1 DEF Idle
    <3>3. ~BeginSteps /\ ~MigrationSteps
      BY <2>3, <3>2
      DEF BeginSteps, BeginMigration, BeginInspects, BeginSchedules,
     BeginRelaunches, BeginUndoes, BeginUnfences, BeginRelaunchesAgain, Running,
     MigrationSteps, RunMigration, MigrationStarts,
     MigrationCleans, MigrationScans, MigrationStages, MigrationOwns, MigrationCopies,
     MigrationVerifies, MigrationLosesTarget, MigrationMarks, MigrationAnnounces,
     MigrationRegisters, MigrationVacates, MigrationCommits, MigrationPoints,
     Settle, Restart, CancelMigration, CancelCleans, CancelPoints, RetryStartup,
     RestorePreviousRoot, RestoreChooses
    <3>4. ~DeletionSteps /\ ~StartupSteps
      BY <2>3, <3>1, <3>2
      DEF DeletionSteps, StartupSteps, DeleteBackup, DismissBackup, Running, Deleting,
     DeletionNotes, DeletionMoves, DeletionRenames, DeletionChecks, DeletionRemoves, DeletionDrops,
     DeletionForgets, StartupRecovers, StartupDiscoversPrevious, StartupDiscoversDefault,
     StartupForgets, StartupFinishes
    <3>5. Process => op' = op \/ ProcessEnds
      BY <2>3 DEF Process, Boot, BootsAs, ProbeFails, Crash, Quit, StartRuntime, RuntimeStalls, RuntimeResumes,
         RuntimeWrites
    <3> QED BY <3>3, <3>4, <3>5 DEF Next, ProcessStep, Detach, Attach, Replace, vars,
               migrationVars
  <2>4. mode' = mode \/ ProcessEnds \/ mode' # "down"
    BY Changes DEF Boot, BootsAs, ProbeFails, MigrationAnnounces, DeletionForgets, StartupForgets, StartupFinishes
  <2> QED BY <2>1, <2>2, <2>3, <2>4
<1> QED
  BY <1>1, <1>2, TreesStep, ConfiguredStep, IdentifiedStep, MoveStep, RuntimeStep, NormalStep,
     DeletionStep, MigratingStep, RecoveryStep
  DEF HomeInv

LEMMA HomeStart ==
  ASSUME Init
  PROVE  HomeInv
<1> USE DEF Init, MigrationInit, DiskInit, BackupInit
<1>1. PICK free \in SUBSET (Root \ {Default}) :
        dir = [r \in Root |->
                IF r = Default THEN [ino |-> 1, id |-> 0, ver |-> 0]
                ELSE IF r \in free THEN NoTree
                ELSE [ino |-> 2, id |-> 0, ver |-> EmptyDir]]
  OBVIOUS
<1>2. dir \in [Root -> Tree]
  <2>1. /\ NoTree \in Tree /\ [ino |-> 1, id |-> 0, ver |-> 0] \in Tree
        /\ [ino |-> 2, id |-> 0, ver |-> EmptyDir] \in Tree
    BY DEF NoTree, Tree, EmptyDir
  <2> QED BY <1>1, <2>1
<1>3. grave \in [Root -> Tree] /\ staging \in Tree
  BY NoTreeTyped
<1>4. registry \in [Root -> Backup]
  BY DEF NoBackup, Backup
<1>5. pointer \in Pointer /\ pending \in Pending /\ booted \in BootedType
  BY DEF NoPointer, NoPending, NotBooted, Pointer, Pending, BootedType
<1>6. op \in OpType /\ del \in DelType /\ mode \in Mode /\ runtime \in [Root -> Runtime]
  BY StepNames DEF Idle, NoDeletion, NoRuntime, OpType, DelType, Mode, Runtime
<1>7. Typed
  BY <1>2, <1>3, <1>4, <1>5, <1>6
  DEF Typed, MigrationTypeOK, DiskTypeOK, OpType, BootedType
<1>8. TreesOK
  <2>1. \A r \in Root : grave[r] = NoTree /\ registry[r] = NoBackup
    OBVIOUS
  <2>2. Default \in attached
    BY RootAssumption
  <2>3. \A r \in Root :
          /\ dir[r].ino = 0 => dir[r].ver = EmptyDir
          /\ dir[r].id # 0 => dir[r].ver # EmptyDir
          /\ r = Default /\ Exists(dir[r]) => dir[r].ver # EmptyDir
    BY <1>1 DEF NoTree, EmptyDir
  <2> QED BY <2>1, <2>2, <2>3 DEF TreesOK, NoTree, NoBackup, Registered
<1>9. dir[ConfiguredRoot].ver # EmptyDir
  BY <1>1, RootAssumption DEF ConfiguredRoot, NoPointer, EmptyDir
<1>10. DeletionOK
  BY DEF DeletionOK, NoDeletion, Exists, NoTree
<1>11. RuntimeOK
  BY DEF RuntimeOK, Leased, NoRuntime
<1> QED
  BY <1>7, <1>8, <1>9, <1>10, <1>11
  DEF HomeInv, Identified, MoveOK, NormalOK, MigratingOK, RecoveryOK, NoPointer,
      NoPending, NotBooted

(* The variables of the data root have their types, and what they say of   *)
(* a deletion agrees: one that runs has its record, and a tree under a     *)
(* hidden name a record that says so.                                      *)
THEOREM TypeCorrect == Spec => []TypeOK
<1>1. Init => HomeInv
  BY HomeStart
<1>2. HomeInv /\ [Next]_vars => HomeInv'
  BY HomeStep
<1>3. HomeInv => TypeOK
  BY DEF HomeInv, Typed, DeletionOK, TypeOK, BackupTypeOK, DelType
<1> QED BY <1>1, <1>2, <1>3, PTL DEF Spec

THEOREM HomeIsInvariant == Spec => []HomeInv
<1>1. Init => HomeInv
  BY HomeStart
<1>2. HomeInv /\ [Next]_vars => HomeInv'
  BY HomeStep
<1> QED BY <1>1, <1>2, PTL DEF Spec

(* Whatever crashed, was fenced in vain or outlived its parent: a runtime  *)
(* that holds the lease of a root which is not the home is one that a user *)
(* left behind in recovery, and none can write to a tree that an announced *)
(* move copies from or to.                                                 *)
THEOREM OnlyTheHomeIsWritten == Spec => []NobodyWritesElsewhere
<1>1. HomeInv => NobodyWritesElsewhere
  <2> SUFFICES ASSUME HomeInv, NEW r \in Root, Leased(r)
               PROVE  /\ r = Home \/ r \in abandoned
                      /\ BootIsMigrating /\ pending.tgtId # 0 =>
                           r \notin {pending.src, pending.tgt}
    BY DEF NobodyWritesElsewhere, Leased
  <2>1. /\ r = ConfiguredRoot \/ r \in abandoned
        /\ pending.src # NoRoot /\ pending.tgtId # 0 => r \notin {pending.src, pending.tgt}
    BY DEF HomeInv, RuntimeOK
  <2>2. CASE BootIsMigrating
    <3>1. pending.src # NoRoot
      BY <2>2 DEF BootIsMigrating
    <3>2. ConfiguredRoot \in {pending.src, pending.tgt}
          /\ (ConfiguredRoot = pending.tgt => pending.tgtId # 0)
      BY <3>1 DEF HomeInv, MoveOK
    <3> QED BY <2>1, <2>2, <3>1, <3>2 DEF Home
  <2>3. CASE ~BootIsMigrating
    BY <2>1, <2>3 DEF Home
  <2> QED BY <2>2, <2>3
<1> QED BY <1>1, HomeIsInvariant, PTL

-----------------------------------------------------------------------------
(* DataRoot implements DataHome.                                           *)

LEMMA HomeContents ==
  ASSUME HomeInv
  PROVE  Home \in Root /\ dir[Home].ver = dir[ConfiguredRoot].ver
<1>1. CASE BootIsMigrating
  <2>1. pending.src # NoRoot
    BY <1>1 DEF BootIsMigrating
  <2>2. pending.src \in Root
    BY <2>1 DEF HomeInv, Typed, MigrationTypeOK, DiskTypeOK, Pending
  <2>3. dir[pending.src].ver = dir[ConfiguredRoot].ver
    BY <2>1 DEF HomeInv, MoveOK, SameData
  <2> QED BY <1>1, <2>2, <2>3 DEF Home
<1>2. CASE ~BootIsMigrating
  BY <1>2, ConfiguredTyped DEF Home, HomeInv
<1> QED BY <1>1, <1>2

LEMMA RecoveryEnds ==
  ASSUME HomeInv, [Next]_vars, mode = "recovery", mode' # "recovery"
  PROVE  Home' = Home /\ dir' = dir
<1>t. op.pc \in RecoveryPhases /\ del.pc = "idle"
  BY DEF HomeInv, RecoveryOK, DeletionOK
<1>1. ~BeginSteps
  BY <1>t DEF RecoveryPhases, BeginSteps, BeginMigration, BeginInspects, BeginSchedules,
     BeginRelaunches, BeginUndoes, BeginUnfences, BeginRelaunchesAgain, Running
<1>2. ~DeletionSteps /\ ~StartupSteps
  BY <1>t DEF RecoveryPhases, Running,
     DeletionSteps, StartupSteps, DeleteBackup, DismissBackup,
     DeletionNotes, DeletionMoves, DeletionRenames, DeletionChecks, DeletionRemoves, DeletionDrops,
     DeletionForgets, StartupRecovers, StartupDiscoversPrevious, StartupDiscoversDefault,
     StartupForgets, StartupFinishes, Deleting
<1>3. ~Boot /\ (Process => Crash \/ Quit)
  BY DEF Boot, BootsAs, ProbeFails, Process, StartRuntime, RuntimeStalls, RuntimeResumes, RuntimeWrites
<1>4. MigrationSteps => Restart
  BY <1>t DEF MigrationSteps, Running, RecoveryPhases, RunMigration, MigrationStarts,
     MigrationCleans, MigrationScans, MigrationStages, MigrationOwns, MigrationCopies,
     MigrationVerifies, MigrationLosesTarget, MigrationMarks, MigrationAnnounces,
     MigrationRegisters, MigrationVacates, MigrationCommits, MigrationPoints,
     CancelMigration, CancelCleans, CancelPoints, Settle, RetryStartup, RestorePreviousRoot,
     RestoreChooses, WritePointer
<1>5. Crash \/ Quit \/ Restart => UNCHANGED <<dir, pointer, pending>>
  BY DEF Crash, Quit, Restart, diskVars
<1>6. UNCHANGED <<dir, pointer, pending>>
  BY <1>1, <1>2, <1>3, <1>4, <1>5
  DEF Next, ProcessStep, Detach, Attach, Replace, vars, migrationVars
<1> QED BY <1>6 DEF Home, BootIsMigrating, PointerCommitted, ConfiguredRoot

LEMMA HomeImageStep ==
  ASSUME HomeInv, HomeInv', [Next]_vars
  PROVE  [DataHomeImage!Next]_<<Home, dir[Home].ver, mode = "recovery">>
<1> DEFINE contents == dir[Home].ver
           recovering == mode = "recovery"
<1>t. dir \in [Root -> Tree] /\ dir' \in [Root -> Tree]
  BY DEF HomeInv, Typed, MigrationTypeOK, DiskTypeOK
<1>1. Home \in Root /\ contents = dir[ConfiguredRoot].ver /\ ConfiguredRoot \in Root
  BY HomeContents, ConfiguredTyped DEF HomeInv
<1>2. Home' \in Root /\ contents' = (dir[ConfiguredRoot].ver)'
  <2>1. (Home \in Root /\ dir[Home].ver = dir[ConfiguredRoot].ver)'
    BY HomeContents, PTL
  <2> QED BY <2>1
<1>3. contents' \in Int
  BY <1>t, <1>2 DEF Tree
<1>4. CASE mode = "recovery" /\ mode' = "recovery"
  BY <1>2, <1>3, <1>4 DEF DataHomeImage!Next, DataHomeImage!Settle
<1>5. CASE mode = "recovery" /\ mode' # "recovery"
  BY <1>5, RecoveryEnds DEF DataHomeImage!Next, DataHomeImage!Leave
<1>6. CASE mode # "recovery" /\ mode' = "recovery"
  <2>1. Boot
    BY <1>6, Changes
    DEF ProcessEnds, MigrationAnnounces, DeletionForgets, StartupForgets, StartupFinishes
  <2>2. Home' = Home /\ dir' = dir
    BY <2>1 DEF Boot, diskVars, Home, BootIsMigrating, PointerCommitted, ConfiguredRoot
  <2> QED BY <1>6, <2>2 DEF DataHomeImage!Next, DataHomeImage!Fail
<1>7. CASE mode # "recovery" /\ mode' # "recovery"
  <2>1. contents' = dir'[ConfiguredRoot].ver
    BY <1>2, <1>7, ConfiguredStep
  <2>2. CASE RuntimeWrites(ConfiguredRoot)
    <3>1. dir'[ConfiguredRoot].ver = dir[ConfiguredRoot].ver + 1
      BY <1>1, <2>2, Written
    <3>2. Home' = Home
      BY <2>2 DEF RuntimeWrites, Home, BootIsMigrating, PointerCommitted, ConfiguredRoot
    <3> QED BY <1>1, <1>7, <2>1, <3>1, <3>2 DEF DataHomeImage!Next, DataHomeImage!Write
  <2>3. CASE ~RuntimeWrites(ConfiguredRoot)
    <3>1. ASSUME NEW w \in Root, RuntimeWrites(w)
          PROVE  dir'[ConfiguredRoot] = dir[ConfiguredRoot]
      BY <1>1, <2>3, <3>1, Written
    <3>2. dir'[ConfiguredRoot] = dir[ConfiguredRoot]
      BY <1>t, <1>1, <3>1, RootsKept
    <3> QED BY <1>1, <1>2, <1>7, <2>1, <3>2 DEF DataHomeImage!Next, DataHomeImage!Relocate
  <2> QED BY <2>2, <2>3
<1> QED BY <1>4, <1>5, <1>6, <1>7

(* Wherever a move of the data, its failure, a crash or its cancellation   *)
(* has got to, the application opens the data it had: every behaviour of   *)
(* DataRoot is one of DataHome.                                            *)
THEOREM DataIsKept == Spec => HomeSpec
<1>1. Init => DataHomeImage!Init
  <2> SUFFICES ASSUME Init  PROVE DataHomeImage!Init
    OBVIOUS
  <2>1. Home = Default
    BY DEF Init, MigrationInit, DiskInit, NoPointer, NoPending, Home, BootIsMigrating,
       ConfiguredRoot
  <2>2. dir[Default].ver = 0
    BY RootAssumption DEF Init, MigrationInit, DiskInit
  <2> QED BY <2>1, <2>2 DEF DataHomeImage!Init, Init, MigrationInit
<1>2. HomeInv /\ HomeInv' /\ [Next]_vars =>
        [DataHomeImage!Next]_<<Home, dir[Home].ver, mode = "recovery">>
  BY HomeImageStep
<1> QED BY <1>1, <1>2, HomeIsInvariant, PTL DEF Spec, HomeSpec, DataHomeImage!Spec

-----------------------------------------------------------------------------
(* The retained backups.                                                   *)

(* A root is registered anew while it is the home, or has a record that    *)
(* prompts already.                                                        *)
LEMMA RegisteredSource ==
  ASSUME HomeInv, MigrationRegisters
  PROVE  Home = Source \/ registry[Source].prompt
<1>1. op.pc \in {"register", "adopt"}
  BY DEF MigrationRegisters, Running
<1>2. mode = "migrating" /\ MoveOK(booted.pending) /\ Source # NoRoot
  BY <1>1, InMove DEF MovePhases, FreshPhases, HomeInv, MigratingOK
<1>3. CASE ConfiguredRoot = Target
  BY <1>2, <1>3 DEF MoveOK, Source, Target
<1>4. CASE ConfiguredRoot = Source
  <2>1. Source # Target /\ Target \in Root
    BY <1>2, SourceOfMove
  <2>2. pending.src # NoRoot => pending.src = Source /\ pending.tgt = Target
    BY <1>2 DEF HomeInv, MigratingOK
  <2>3. PointerCommitted /\ pending.src # NoRoot => ConfiguredRoot = Target
    BY <2>1, <2>2, RootAssumption DEF PointerCommitted, ConfiguredRoot
  <2> QED BY <1>4, <2>1, <2>2, <2>3 DEF Home, BootIsMigrating
<1> QED BY <1>2, <1>3, <1>4, SourceOfMove

(* A dismissed backup stays quiet until its root has been home again.      *)
THEOREM DismissedBackupsStayQuiet == Spec => DismissedStaysQuiet
<1>1. ASSUME HomeInv, [Next]_vars, NEW r \in Root, Registered(r), ~registry[r].prompt,
             registry'[r].prompt
      PROVE  Home = r
  <2>t. registry \in [Root -> Backup]
    BY <1>1 DEF HomeInv, Typed, MigrationTypeOK, DiskTypeOK
  <2>1. CASE MigrationRegisters
    <3>1. registry'[r] = registry[r] \/ r = Source
      BY <1>1, <2>t, <2>1 DEF MigrationRegisters, RegisterSource
    <3> QED BY <1>1, <2>1, <3>1, RegisteredSource
  <2>2. CASE DeletionNotes
    <3>1. [registry EXCEPT ![del.root].del = TRUE][r].prompt = registry[r].prompt
      BY <1>1, <2>t DEF Backup
    <3> QED BY <1>1, <2>2, <3>1 DEF DeletionNotes
  <2>3. CASE DeletionDrops
    BY <1>1, <2>t, <2>3 DEF DeletionDrops, NoBackup
  <2>4. CASE StartupDiscoversPrevious \/ StartupDiscoversDefault
    BY <1>1, <2>t, <2>4 DEF StartupDiscoversPrevious, StartupDiscoversDefault, Discover, Registered
  <2>5. ASSUME NEW x \in Root, DismissBackup(x)
        PROVE  ~registry'[r].prompt
    <3>1. [registry EXCEPT ![x].prompt = FALSE][r].prompt \in {registry[r].prompt, FALSE}
      BY <1>1, <2>t, <2>5 DEF Backup
    <3> QED BY <1>1, <2>5, <3>1 DEF DismissBackup
  <2> QED BY <1>1, <2>1, <2>2, <2>3, <2>4, <2>5, Changes
<1>2. HomeInv /\ [Next]_vars =>
        [\A r \in Root :
           Registered(r) /\ ~registry[r].prompt /\ registry'[r].prompt => Home = r]_vars
  BY <1>1
<1> QED BY <1>2, HomeIsInvariant, PTL DEF Spec, DismissedStaysQuiet

LEMMA ForeignRootSurvives ==
  ASSUME HomeInv, [Next]_vars, NEW r \in Root, dir[r].ver = Foreign
  PROVE  dir'[r] = dir[r] \/ grave'[r] = dir[r]
<1>t. dir \in [Root -> Tree] /\ grave \in [Root -> Tree]
  BY DEF HomeInv, Typed, MigrationTypeOK, DiskTypeOK
<1>1. ASSUME NEW w \in Root, RuntimeWrites(w)
      PROVE  dir'[r] = dir[r]
  <2>1. dir[w].ver \in 0 .. MaxVersion - 1
    BY <1>1 DEF RuntimeWrites
  <2>2. r # w
    BY <2>1, BoundAssumption DEF Foreign
  <2> QED BY <1>1, <2>2, Written
<1>2. CASE op.pc \in {"vacate", "commit"} /\ \E tree : dir' = [dir EXCEPT ![Target] = tree]
  <2>1. mode = "migrating"
    BY <1>2, InMove DEF MovePhases, FreshPhases
  <2>2. dir[Target].ver = EmptyDir
    BY <1>2, <2>1 DEF HomeInv, MigratingOK, FreshPhases
  <2>3. r # Target
    BY <2>2 DEF EmptyDir, Foreign
  <2> QED BY <1>t, <1>2, <2>3
<1>3. CASE DeletionRenames
  BY <1>t, <1>3 DEF DeletionRenames
<1>4. ASSUME NEW x \in Root, Replace(x)
      PROVE  dir'[r] = dir[r]
  BY <1>t, <1>4 DEF Replace
<1> QED BY <1>1, <1>2, <1>3, <1>4, RootsKept DEF Running

LEMMA ForeignGraveSurvives ==
  ASSUME HomeInv, [Next]_vars, NEW r \in Root, grave[r].ver = Foreign,
         registry[r].ino # grave[r].ino
  PROVE  grave'[r] = grave[r] \/ grave[r] \in adrift'
<1>t. grave \in [Root -> Tree]
  BY DEF HomeInv, Typed, MigrationTypeOK, DiskTypeOK
<1>0. Exists(grave[r])
  BY DEF HomeInv, TreesOK, Exists, EmptyDir, Foreign
<1>1. CASE MigrationRegisters
  BY <1>t, <1>0, <1>1 DEF MigrationRegisters, RegisterSource
<1>2. CASE DeletionRenames
  <2>1. ~Exists(grave[del.root])
    BY <1>2 DEF DeletionRenames, Deleting, HomeInv, DeletionOK
  <2> QED BY <1>t, <1>0, <1>2, <2>1 DEF DeletionRenames
<1>3. CASE DeletionRemoves
  <2>1. grave[del.root].ino = registry[del.root].ino
    BY <1>3 DEF DeletionRemoves, Deleting, HomeInv, DeletionOK
  <2>2. r # del.root
    BY <2>1
  <2> QED BY <1>t, <1>3, <2>2 DEF DeletionRemoves
<1>4. CASE DeletionDrops
  BY <1>t, <1>0, <1>4 DEF DeletionDrops
<1> QED BY <1>1, <1>2, <1>3, <1>4, Changes

(* What somebody else put in the place of a retained root is moved at      *)
(* most, never removed, unless it has a record of its own.                 *)
THEOREM ForeignTreesAreKept == Spec => ForeignTreesSurvive
<1>1. ASSUME HomeInv, [Next]_vars, NEW r \in Root, NEW tree \in {dir[r], grave[r]},
             tree.ver = Foreign, registry[r].ino # tree.ino
      PROVE  tree.ino \in Intact'
  <2>1. tree \in {dir[x] : x \in Root}' \cup {grave[x] : x \in Root}' \cup adrift'
    BY <1>1, ForeignRootSurvives, ForeignGraveSurvives
  <2> QED BY <1>1, <2>1 DEF Intact
<1>2. HomeInv /\ [Next]_vars =>
        [\A r \in Root : \A tree \in {dir[r], grave[r]} :
           tree.ver = Foreign /\ registry[r].ino # tree.ino => tree.ino \in Intact']_vars
  BY <1>1
<1> QED BY <1>2, HomeIsInvariant, PTL DEF Spec, ForeignTreesSurvive
=============================================================================
